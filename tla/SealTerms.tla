----------------------------- MODULE SealTerms -----------------------------
(***************************************************************************)
(* Tags as symbolic terms, for the keyed calls, the session handler and    *)
(* the signed functions (phpser_api.c, phpser_session.c, phpser_module.c). *)
(*                                                                         *)
(* HMAC is a free constructor: two tags are equal only when the normalised *)
(* key and the message are.  A seal says under what a frame is tagged.     *)
(***************************************************************************)
EXTENDS Naturals, FiniteSets

CONSTANTS
  Key,           \* keys an INI entry or a caller may supply
  KeyBlock,      \* KeyBlock[k]: the key padded, or digested, to one block
  ShortKeys,     \* keys below PHPSER_KEY_MIN bytes
  LongKeys,      \* keys above PHPSER_SUBKEY_CACHE_KEY_MAX bytes
  Unset,         \* the value of an INI entry that is empty
  Context,       \* contexts a caller may pass
  SessionWord,   \* the context "session"
  BadContexts,   \* empty, too long, or with a NUL byte
  SessionId,     \* session identifiers
  EmptyId,       \* the empty one
  Frame,         \* encoded values
  Malformed      \* those no decode accepts, the empty frame among them

ASSUME TermsAssumption ==
  /\ ShortKeys \subseteq Key
  /\ LongKeys \subseteq Key \ ShortKeys
  /\ Unset \notin Key
  /\ SessionWord \in Context
  /\ BadContexts \subseteq Context \ {SessionWord}
  /\ EmptyId \in SessionId
  /\ Malformed \subseteq Frame

(* phpser_hmac_sha256 on a key block and a message. *)
RawBlock(k)     == <<KeyBlock[k]>>
Mac(block, msg) == <<block, msg>>

(* Derivation messages: "phpser:" context ":v1\0" and "phpser:session:v1\0" *)
(* sid.  They coincide for the context "session" and the empty identifier.  *)
ContextLabel(c)   == <<c, EmptyId>>
SessionLabel(sid) == <<SessionWord, sid>>
Label             == Context \X SessionId

(* What a blob is tagged under: nothing, a caller's key, phpser.key and a   *)
(* context, phpser.session_key and a session identifier.                    *)
PlainSeal           == [kind |-> "plain"]
SignedSeal(k)       == [kind |-> "signed", block |-> RawBlock(k)]
KeyedSeal(k, label) == [kind |-> "keyed", block |-> RawBlock(k), label |-> label]
SessionSeal(k, sid) == [kind |-> "session", block |-> RawBlock(k), label |-> SessionLabel(sid)]
GoodContext == Context \ (BadContexts \cup {SessionWord})
KeyedLabel  == {ContextLabel(c) : c \in GoodContext}
Seal == {PlainSeal} \cup {SignedSeal(k) : k \in Key}
          \cup {KeyedSeal(k, l) : k \in Key, l \in KeyedLabel}
          \cup {SessionSeal(k, sid) : k \in Key, sid \in SessionId}

NoTag    == <<>>
(* The tag a frame must carry. *)
Tag(seal, f) ==
  CASE seal.kind = "plain"                -> NoTag
    [] seal.kind = "signed"               -> Mac(seal.block, f)
    [] seal.kind \in {"keyed", "session"} -> Mac(Mac(seal.block, seal.label), f)

(* Keys that normalise to the same block are one key to HMAC. *)
SameKey(k, l) == k = l \/ (k \in Key /\ l \in Key /\ KeyBlock[k] = KeyBlock[l])

KeyOK(k) == k # Unset /\ k \notin ShortKeys
=============================================================================
