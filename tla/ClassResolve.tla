---------------------------- MODULE ClassResolve ----------------------------
(***************************************************************************)
(* From a class name in a frame to a class.  The decoder asks the filter   *)
(* of allowed classes, then the engine, whose autoloader is user code, and *)
(* for objects unserialize_callback_func.  It caches both answers by the   *)
(* position of the name in the frame's dictionary.  User code may define   *)
(* classes, throw, change the callback, and decode other frames with       *)
(* filters and caches of their own; a legacy hook may run native           *)
(* serialization, whose state the decoder puts aside meanwhile.            *)
(*                                                                         *)
(* Names differ in case only where Lower says so.  The caches of lowercase *)
(* and of checked names depend on the name alone and are left out.         *)
(***************************************************************************)
EXTENDS Integers, FiniteSets, SequencesExt

CONSTANTS
  Class,            \* lowercase names
  Enums, Legacy,    \* those of enums, and of classes with a C-level unserializer
  None,             \* no class
  Dict,             \* Dict[i] is the i-th string of every frame
  Lower,            \* zend_string_tolower
  Filters,          \* the filters in use: sets of classes
  Homes,            \* contexts in which the program runs
  MaxTokens, MaxStatements, MaxNesting   \* bounds

ASSUME ClassAssumption ==
  /\ Enums \subseteq Class /\ Legacy \subseteq Class \ Enums
  /\ None \notin Class
  /\ \A i \in DOMAIN Dict : Lower[Dict[i]] \in Class
  /\ Filters \subseteq SUBSET Class /\ Homes \subseteq [lock : Nat, level : Nat]
  /\ MaxTokens \in Nat /\ MaxStatements \in Nat /\ MaxNesting \in Nat \ {0}

VARIABLES
  classes,          \* the engine's class table
  callback,         \* unserialize_callback_func is set
  stack,            \* decodes, and the user code they called
  bg,               \* BG(serialize_lock), BG(unserialize).level
  home,             \* bg before the first decode
  answer,           \* history: the last answer about a class
  tokens, statements

resolveVars == <<classes, callback, stack, bg, home, answer, tokens, statements>>

Idx  == DOMAIN Dict
Tags == {"object", "slots", "enum", "legacy"}  \* "object" is TAG_OBJECT_MAGIC as well
NoToken  == [tag |-> "none"]
NoAnswer == [kind |-> "none"]

Top == Last(stack)
InDecode == stack # <<>> /\ Top.what = "decode"
InUser   == stack # <<>> /\ Top.what # "decode"
ClassAt(i) == Lower[Dict[i]]

-----------------------------------------------------------------------------
(* The engine.                                                              *)

(* EG(in_autoload): a class is not autoloaded while it is being autoloaded. *)
InAutoload(acts, c) == \E i \in DOMAIN acts : acts[i].what = "autoload" /\ acts[i].class = c

Found(c) == IF c \in classes THEN c ELSE None

(* User code of a kind is called by the decode d, in the context b, above   *)
(* the activations acts.                                                    *)
Call(acts, b, d, why, c) ==
  /\ stack' = acts \o <<d, [what |-> why, class |-> c, saved |-> b]>>
  /\ bg' = IF why = "legacy" THEN [lock |-> 0, level |-> 1]
           ELSE [b EXCEPT !.lock = @ + 1]

-----------------------------------------------------------------------------
(* The decoder.                                                             *)

(* dec_class_allowed.  0 is unknown, 1 allowed, 2 denied. *)
Allowed(d, i) ==
  IF d.allow_cache[i] # 0 THEN d.allow_cache[i] = 1 ELSE ClassAt(i) \in d.allowed_set
Memoized(d, i) == [d EXCEPT !.allow_cache[i] = IF Allowed(d, i) THEN 1 ELSE 2]

(* Mutant: a miss is remembered as well. *)
RememberMiss(d, i, c) == IF c = None THEN [d EXCEPT !.ce_cache[i] = "missing"]
                         ELSE [d EXCEPT !.ce_cache[i] = c]

Remember(d, i, c) == IF c = None THEN d ELSE [d EXCEPT !.ce_cache[i] = c]

(* What becomes of an object whose class is c. *)
Verdict(tag, c) ==
  CASE tag = "enum"   -> IF c \in Enums THEN "case" ELSE "fails"
    [] tag = "legacy" -> IF c \in Legacy THEN "hook" ELSE "null"
    [] OTHER -> IF c \notin Class THEN "incomplete"
                ELSE IF c \in Enums \cup Legacy THEN "fails" ELSE "instance"

Answer(d, i, verdict) ==
  [verdict |-> verdict, class |-> ClassAt(i), allowed |-> d.allowed_set,
   defined |-> ClassAt(i) \in classes]

(* The class is known, or will not be: the object is made, the decode       *)
(* fails, or the class's own hook is called.                                *)
Settle(acts, b, d, t, c) ==
  LET v == Verdict(t.tag, c)
      e == [Remember(d, t.idx, c) EXCEPT !.token = NoToken] IN
  /\ answer' = Answer(d, t.idx, v)
  /\ CASE v = "fails" -> stack' = acts /\ bg' = b
       [] v = "hook"  -> Call(acts, b, e, "legacy", c)
       [] OTHER       -> stack' = Append(acts, e) /\ bg' = b

(* dec_class_resolve_obj: a class not found is the callback's, once.  Enums *)
(* go without it.                                                           *)
AfterLookup(acts, b, d, t, c) ==
  IF c = None /\ ~ t.again /\ t.tag # "enum" /\ callback
  THEN Call(acts, b, [d EXCEPT !.token = [t EXCEPT !.again = TRUE]], "callback", ClassAt(t.idx))
       /\ answer' = NoAnswer
  ELSE Settle(acts, b, d, t, c)

(* dec_class_resolve: the cache, the class table, the autoloader.           *)
Resolve(acts, b, d, t) ==
  LET c == ClassAt(t.idx) IN
  IF d.ce_cache[t.idx] # None THEN Settle(acts, b, d, t, d.ce_cache[t.idx])
  ELSE IF Found(c) # None \/ InAutoload(acts, c) THEN AfterLookup(acts, b, d, t, Found(c))
  ELSE Call(acts, b, [d EXCEPT !.token = t], "autoload", c) /\ answer' = NoAnswer

(* A denied object is decoded without its class; the slots of one take      *)
(* their names from the class if it is resident.                            *)
Deny(acts, d, t) ==
  /\ answer' = Answer(d, t.idx, "incomplete")
  /\ stack' = Append(acts, IF t.tag = "slots" /\ d.ce_cache[t.idx] = None
                           THEN Remember(d, t.idx, Found(ClassAt(t.idx))) ELSE d)
  /\ UNCHANGED bg

ReadObject(tag, i) ==
  /\ InDecode /\ tokens < MaxTokens
  /\ tokens' = tokens + 1
  /\ LET t == [tag |-> tag, idx |-> i, again |-> FALSE] IN
     IF Allowed(Top, i) THEN Resolve(Front(stack), bg, Memoized(Top, i), t)
                        ELSE Deny(Front(stack), Memoized(Top, i), t)
  /\ UNCHANGED <<classes, callback, home, statements>>

(* The rest of the frame needs no class. *)
EndDecode ==
  /\ InDecode
  /\ stack' = Front(stack) /\ answer' = NoAnswer
  /\ UNCHANGED <<classes, callback, bg, home, tokens, statements>>

(* Mutant: a hook that fails leaves its context behind. *)
RestoredIfDone(u, failed) ==
  IF u.what = "legacy" THEN IF failed THEN bg ELSE u.saved ELSE [bg EXCEPT !.lock = @ - 1]

(* The context of the decode after it called user code: put back after a    *)
(* legacy hook, unlocked after the others.                                  *)
Restored(u, failed) == IF u.what = "legacy" THEN u.saved ELSE [bg EXCEPT !.lock = @ - 1]

(* User code returns, and the decode goes on where it called it; or it      *)
(* throws (or a hook reports that it failed), and the decode is over.       *)
Return(failed) ==
  /\ InUser
  /\ LET acts == Front(Front(stack))
         d == Last(Front(stack))
         b == Restored(Top, failed)
         t == d.token IN
     IF failed THEN stack' = acts /\ bg' = b /\ answer' = NoAnswer
     ELSE CASE Top.what = "autoload" -> AfterLookup(acts, b, d, t, Found(ClassAt(t.idx)))
            [] Top.what = "callback" -> Resolve(acts, b, d, t)
            [] Top.what = "legacy"   -> /\ stack' = Append(acts, d)
                                        /\ bg' = b /\ answer' = NoAnswer
  /\ UNCHANGED <<classes, callback, home, tokens, statements>>

-----------------------------------------------------------------------------
(* User code: the program, and what the decoder calls.                      *)

MayAct == (stack = <<>> \/ InUser) /\ statements < MaxStatements

Statement ==
  /\ MayAct /\ statements' = statements + 1
  /\ answer' = NoAnswer /\ UNCHANGED <<bg, home, tokens>>

DefineClass(c) ==
  /\ Statement
  /\ classes' = classes \cup {c}
  /\ UNCHANGED <<callback, stack>>

SetCallback ==
  /\ Statement
  /\ callback' = ~ callback
  /\ UNCHANGED <<classes, stack>>

(* phpser_unserialize. *)
BeginDecode(filter) ==
  /\ stack = <<>> \/ InUser
  /\ Cardinality({i \in DOMAIN stack : stack[i].what = "decode"}) < MaxNesting
  /\ stack' = Append(stack, [what |-> "decode", allowed_set |-> filter, began |-> bg,
                             ce_cache |-> [i \in Idx |-> None],
                             allow_cache |-> [i \in Idx |-> 0], token |-> NoToken])
  /\ answer' = NoAnswer
  /\ UNCHANGED <<classes, callback, bg, home, tokens, statements>>

(* The program may itself run in a native serialization hook.               *)
ResolveInit ==
  /\ classes = {} /\ callback \in BOOLEAN
  /\ stack = <<>>
  /\ home \in Homes /\ bg = home
  /\ answer = NoAnswer
  /\ tokens = 0 /\ statements = 0

ResolveNext ==
  \/ \E tag \in Tags, i \in Idx : ReadObject(tag, i)
  \/ EndDecode
  \/ \E failed \in BOOLEAN : Return(failed)
  \/ \E c \in Class : DefineClass(c)
  \/ SetCallback
  \/ \E filter \in Filters : BeginDecode(filter)

ResolveSpec == ResolveInit /\ [][ResolveNext]_resolveVars

-----------------------------------------------------------------------------
(* Properties.                                                              *)

(* An object is made without its class only if the class is denied or does  *)
(* not exist at that moment, however often it was missed before and by      *)
(* whomever it was defined since; and it is made with its class, or the     *)
(* autoloader or the callback is asked for it, only if the filter of that   *)
(* frame allows it, under whichever spelling and position.                  *)
ClassesByPolicy ==
  /\ answer # NoAnswer =>
       IF answer.class \in answer.allowed
       THEN answer.verdict \in {"incomplete", "null"} =>
              \/ ~ answer.defined
              \/ answer.verdict = "null" /\ answer.class \notin Legacy
       ELSE answer.verdict = "incomplete"
  /\ \A i \in DOMAIN stack : stack[i].what # "decode" =>
       stack[i].class \in stack[i - 1].allowed_set

(* Native serialization in an autoloader or in the callback gets its own    *)
(* state, in a legacy hook the one made for it; and a decode leaves it as   *)
(* it was, whatever failed in between.                                      *)
NativeContextKept ==
  /\ stack = <<>> => bg = home
  /\ InDecode => bg = Top.began
  /\ InUser => IF Top.what = "legacy" THEN bg = [lock |-> 0, level |-> 1] ELSE bg.lock > 0
=============================================================================
