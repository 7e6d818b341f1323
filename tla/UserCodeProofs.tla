--------------------------- MODULE UserCodeProofs ---------------------------
(***************************************************************************)
(* What user code may do in between.  First class resolution: whatever     *)
(* autoloaders, callbacks and hooks do, and however decodes nest, classes  *)
(* are found by policy, and native serialization is left as it was.  Then  *)
(* the encoder's id table: its invariant is inductive for any number of    *)
(* addresses, entities, references and ids, whatever user code does in     *)
(* hooks and destructors.                                                  *)
(***************************************************************************)
EXTENDS ClassResolve, EncoderPins, SequenceTheorems, TLAPS


(* Contexts, tokens and activations.                                       *)
Context == [lock : Nat, level : Nat]
Token   == [tag : Tags, idx : Idx, again : BOOLEAN]
Decodes == [what : {"decode"}, allowed_set : SUBSET Class, began : Context,
            ce_cache : [Idx -> Class \cup {None}], allow_cache : [Idx -> {0, 1, 2}],
            token : Token \cup {NoToken}]
Calls   == [what : {"autoload", "callback", "legacy"}, class : Class, saved : Context]

(* The context user code runs in.                                          *)
During(u) == IF u.what = "legacy" THEN [lock |-> 0, level |-> 1]
             ELSE [u.saved EXCEPT !.lock = @ + 1]

(* What a decode remembers of names is so.                                 *)
Remembers(d, known) ==
  \A i \in Idx :
    /\ d.ce_cache[i] # None => d.ce_cache[i] = ClassAt(i) /\ ClassAt(i) \in known
    /\ d.allow_cache[i] = 1 => ClassAt(i) \in d.allowed_set
    /\ d.allow_cache[i] = 2 => ClassAt(i) \notin d.allowed_set

(* A decode was begun by the program or by user code of another; user code *)
(* was called by a decode, for a class it allows, in its context.          *)
BegunBy(d, s, i, h) ==
  IF i = 1 THEN d.began = h ELSE s[i - 1] \in Calls /\ d.began = During(s[i - 1])

CalledBy(u, d) ==
  /\ d \in Decodes
  /\ u.class \in d.allowed_set
  /\ u.saved = d.began
  /\ u.what # "legacy" => d.token \in Token /\ ClassAt(d.token.idx) = u.class

ActivationOK(s, i, h, known) ==
  \/ s[i] \in Decodes /\ Remembers(s[i], known) /\ BegunBy(s[i], s, i, h)
  \/ s[i] \in Calls /\ i > 1 /\ CalledBy(s[i], s[i - 1])

StackOK(s, h, known) ==
  /\ s \in Seq(Decodes \cup Calls)
  /\ \A i \in 1 .. Len(s) : ActivationOK(s, i, h, known)

ContextOf(s, h) ==
  IF s = <<>> THEN h ELSE IF Last(s) \in Decodes THEN Last(s).began ELSE During(Last(s))

AnswerByPolicy ==
  answer # NoAnswer =>
    IF answer.class \in answer.allowed
    THEN answer.verdict \in {"incomplete", "null"} =>
           \/ ~ answer.defined
           \/ answer.verdict = "null" /\ answer.class \notin Legacy
    ELSE answer.verdict = "incomplete"

ClassInv ==
  /\ classes \subseteq Class
  /\ home \in Context
  /\ StackOK(stack, home, classes)
  /\ bg = ContextOf(stack, home)
  /\ AnswerByPolicy

----------------------------------------------------------------------------
LEMMA Names ==
  ASSUME NEW i \in Idx
  PROVE  ClassAt(i) \in Class /\ ClassAt(i) # None
BY ClassAssumption DEF Idx, ClassAt

(* A decode is no call.                                                    *)
LEMMA Kinds ==
  /\ \A d \in Decodes : d.what = "decode" /\ d \notin Calls
  /\ \A u \in Calls : u.what # "decode" /\ u \notin Decodes
                      /\ u.what \in {"autoload", "callback", "legacy"}
BY DEF Decodes, Calls

LEMMA Contexts ==
  ASSUME NEW u \in Calls
  PROVE  /\ During(u) \in Context
         /\ u.saved \in Context
         /\ u.what = "legacy" => During(u) = [lock |-> 0, level |-> 1]
         /\ u.what # "legacy" => During(u).lock > 0
                               /\ [During(u) EXCEPT !.lock = @ - 1] = u.saved
BY DEF Calls, During, Context

----------------------------------------------------------------------------
(* A decode with one field of its state changed.                           *)

LEMMA TokenChanged ==
  ASSUME NEW d \in Decodes, NEW x \in Token \cup {NoToken}
  PROVE  LET e == [d EXCEPT !.token = x] IN
         /\ e \in Decodes /\ e.token = x /\ e.began = d.began
         /\ e.allowed_set = d.allowed_set
         /\ e.ce_cache = d.ce_cache /\ e.allow_cache = d.allow_cache
BY DEF Decodes

LEMMA TokenKeeps ==
  ASSUME NEW d \in Decodes, NEW x \in Token \cup {NoToken}, NEW known, Remembers(d, known)
  PROVE  Remembers([d EXCEPT !.token = x], known)
BY TokenChanged DEF Remembers

LEMMA RememberKeeps ==
  ASSUME NEW d \in Decodes, NEW i \in Idx, NEW c \in {None, ClassAt(i)}, NEW known,
         Remembers(d, known), c # None => c \in known
  PROVE  LET e == Remember(d, i, c) IN
         /\ e \in Decodes /\ e.token = d.token /\ e.began = d.began
         /\ e.allowed_set = d.allowed_set /\ Remembers(e, known)
<1>1. CASE c = None
  BY <1>1 DEF Remember
<1>2. CASE c # None
  <2> DEFINE e == [d EXCEPT !.ce_cache[i] = c]
  <2>1. Remember(d, i, c) = e
    BY <1>2 DEF Remember
  <2>2. d.ce_cache \in [Idx -> Class \cup {None}] /\ c \in Class /\ c = ClassAt(i)
    BY <1>2, Names DEF Decodes
  <2>3. /\ e \in Decodes /\ e.token = d.token /\ e.began = d.began
        /\ e.allowed_set = d.allowed_set /\ e.allow_cache = d.allow_cache
        /\ e.ce_cache = [d.ce_cache EXCEPT ![i] = c]
    BY <2>2 DEF Decodes
  <2> HIDE DEF e
  <2>4. \A j \in Idx : e.ce_cache[j] = IF j = i THEN c ELSE d.ce_cache[j]
    BY <2>2, <2>3
  <2>5. Remembers(e, known)
    BY <1>2, <2>2, <2>3, <2>4 DEF Remembers
  <2>6. QED
    BY <2>1, <2>3, <2>5
<1>3. QED
  BY <1>1, <1>2

LEMMA MemoizedKeeps ==
  ASSUME NEW d \in Decodes, NEW i \in Idx, NEW known, Remembers(d, known)
  PROVE  LET e == Memoized(d, i) IN
         /\ Allowed(d, i) <=> ClassAt(i) \in d.allowed_set
         /\ e \in Decodes /\ e.token = d.token /\ e.began = d.began
         /\ e.allowed_set = d.allowed_set /\ e.ce_cache = d.ce_cache /\ Remembers(e, known)
<1> DEFINE v == IF Allowed(d, i) THEN 1 ELSE 2
           e == [d EXCEPT !.allow_cache[i] = v]
<1>1. d.allow_cache \in [Idx -> {0, 1, 2}] /\ v \in {0, 1, 2}
  BY DEF Decodes
<1>2. Allowed(d, i) <=> ClassAt(i) \in d.allowed_set
  BY <1>1 DEF Allowed, Remembers
<1>3. v = 1 <=> ClassAt(i) \in d.allowed_set
  BY <1>2
<1> HIDE DEF v
<1>4. /\ e \in Decodes /\ e.token = d.token /\ e.began = d.began
      /\ e.allowed_set = d.allowed_set /\ e.ce_cache = d.ce_cache
      /\ e.allow_cache = [d.allow_cache EXCEPT ![i] = v]
  BY <1>1 DEF Decodes
<1>5. Memoized(d, i) = e
  BY DEF Memoized, v
<1> HIDE DEF e
<1>6. \A j \in Idx : e.allow_cache[j] = IF j = i THEN v ELSE d.allow_cache[j]
  BY <1>1, <1>4
<1>7. Remembers(e, known)
  BY <1>3, <1>4, <1>6 DEF Remembers
<1>8. QED
  BY <1>2, <1>4, <1>5, <1>7

----------------------------------------------------------------------------
(* The stack.                                                              *)

Activations == Decodes \cup Calls

LEMMA FrontAndLast ==
  ASSUME NEW s \in Seq(Activations), s # <<>>
  PROVE  /\ Len(s) \in Nat \ {0} /\ Last(s) = s[Len(s)] /\ Last(s) \in Activations
         /\ Front(s) \in Seq(Activations) /\ Len(Front(s)) = Len(s) - 1
         /\ \A i \in 1 .. Len(s) - 1 : Front(s)[i] = s[i]
<1>1. Len(s) \in Nat /\ Len(s) # 0
  BY LenProperties, EmptySeq
<1>2. Last(s) = s[Len(s)] /\ Last(s) \in Activations
  BY <1>1, ElementOfSeq DEF Last
<1>3. /\ Front(s) \in Seq(Activations) /\ Len(Front(s)) = Len(s) - 1
      /\ \A i \in 1 .. Len(s) - 1 : Front(s)[i] = s[i]
  <2>1. Front(s) = SubSeq(s, 1, Len(s) - 1)
    BY DEF Front
  <2>2. PICK n \in Nat : n = Len(s) - 1
    BY <1>1
  <2>3. \A i \in 1 .. n : s[i] \in Activations
    BY <1>1, <2>2, ElementOfSeq
  <2>4. /\ SubSeq(s, 1, n) \in Seq(Activations) /\ Len(SubSeq(s, 1, n)) = n
        /\ \A i \in 1 .. n : SubSeq(s, 1, n)[i] = s[i]
    BY <1>1, <2>2, <2>3, SubSeqProperties
  <2>5. QED
    BY <2>1, <2>2, <2>4
<1>4. QED
  BY <1>1, <1>2, <1>3

LEMMA Pushed ==
  ASSUME NEW s \in Seq(Activations), NEW a \in Activations
  PROVE  /\ Append(s, a) \in Seq(Activations) /\ Append(s, a) # <<>>
         /\ Len(Append(s, a)) = Len(s) + 1 /\ Len(s) \in Nat
         /\ \A i \in 1 .. Len(s) : Append(s, a)[i] = s[i]
         /\ Append(s, a)[Len(s) + 1] = a /\ Last(Append(s, a)) = a
<1>1. /\ Append(s, a) \in Seq(Activations) /\ Append(s, a) # <<>>
      /\ Len(Append(s, a)) = Len(s) + 1 /\ Len(s) \in Nat
      /\ \A i \in 1 .. Len(s) : Append(s, a)[i] = s[i]
      /\ Append(s, a)[Len(s) + 1] = a
  BY AppendProperties, LenProperties
<1>2. Last(Append(s, a)) = a
  BY <1>1 DEF Last
<1>3. QED
  BY <1>1, <1>2

LEMMA TwoPushed ==
  ASSUME NEW s \in Seq(Activations), NEW a \in Activations, NEW b \in Activations
  PROVE  s \o <<a, b>> = Append(Append(s, a), b)
<1>1. <<a>> \in Seq(Activations) /\ <<b>> \in Seq(Activations) /\ <<a>> \o <<b>> = <<a, b>>
  <2>1. <<a>> \in Seq(Activations) /\ <<b>> \in Seq(Activations)
    OBVIOUS
  <2>2. /\ <<a>> \o <<b>> \in Seq(Activations) /\ Len(<<a>> \o <<b>>) = 2
        /\ (<<a>> \o <<b>>)[1] = a /\ (<<a>> \o <<b>>)[2] = b
    BY <2>1, ConcatProperties
  <2>3. <<a, b>> \in Seq(Activations) /\ Len(<<a, b>>) = 2
    OBVIOUS
  <2>4. \A i \in 1 .. 2 : (<<a>> \o <<b>>)[i] = <<a, b>>[i]
    BY <2>2
  <2>5. <<a>> \o <<b>> = <<a, b>>
    BY <2>2, <2>3, <2>4, SeqEqual
  <2>6. QED
    BY <2>1, <2>5
<1>2. Append(s, a) = s \o <<a>>
  BY AppendIsConcat
<1>3. Append(Append(s, a), b) = (s \o <<a>>) \o <<b>>
  BY <1>2, Pushed, AppendIsConcat
<1>4. (s \o <<a>>) \o <<b>> = s \o (<<a>> \o <<b>>)
  BY <1>1, ConcatAssociative
<1>5. QED
  BY <1>1, <1>3, <1>4

(* What is on top of a stack may end.                                      *)
LEMMA StackPopped ==
  ASSUME NEW s, NEW h, NEW known, StackOK(s, h, known), s # <<>>
  PROVE  StackOK(Front(s), h, known)
<1>1. s \in Seq(Activations)
  BY DEF StackOK, Activations
<1>2. /\ Len(s) \in Nat \ {0}
      /\ Front(s) \in Seq(Activations) /\ Len(Front(s)) = Len(s) - 1
      /\ \A i \in 1 .. Len(s) - 1 : Front(s)[i] = s[i]
  BY <1>1, FrontAndLast
<1>3. ASSUME NEW i \in 1 .. Len(Front(s)) PROVE ActivationOK(Front(s), i, h, known)
  <2>1. i \in 1 .. Len(s) /\ Front(s)[i] = s[i] /\ (i > 1 => Front(s)[i - 1] = s[i - 1])
    BY <1>2
  <2>2. ActivationOK(s, i, h, known)
    BY <2>1 DEF StackOK
  <2>3. i # 1 => i > 1
    BY <2>1
  <2>4. QED
    BY <2>1, <2>2, <2>3 DEF ActivationOK, BegunBy
<1>4. QED
  BY <1>2, <1>3 DEF StackOK, Activations

(* What may be put there: a decode begun by what is on top, or user code   *)
(* it called.                                                              *)
LEMMA StackPushed ==
  ASSUME NEW s, NEW h, NEW known, StackOK(s, h, known), NEW a \in Activations,
         \/ /\ a \in Decodes /\ Remembers(a, known)
            /\ IF s = <<>> THEN a.began = h
               ELSE Last(s) \in Calls /\ a.began = During(Last(s))
         \/ a \in Calls /\ s # <<>> /\ CalledBy(a, Last(s))
  PROVE  StackOK(Append(s, a), h, known)
<1>1. s \in Seq(Activations)
  BY DEF StackOK, Activations
<1>2. /\ Append(s, a) \in Seq(Activations)
      /\ Len(Append(s, a)) = Len(s) + 1 /\ Len(s) \in Nat
      /\ \A i \in 1 .. Len(s) : Append(s, a)[i] = s[i]
      /\ Append(s, a)[Len(s) + 1] = a
  BY <1>1, Pushed
<1>3. s = <<>> <=> Len(s) = 0
  BY <1>1, EmptySeq
<1>4. s # <<>> => Last(s) = s[Len(s)]
  BY <1>1, FrontAndLast
<1> DEFINE g == Append(s, a)
<1>5. ASSUME NEW i \in 1 .. Len(s) PROVE ActivationOK(g, i, h, known)
  <2>1. g[i] = s[i] /\ (i > 1 => g[i - 1] = s[i - 1])
    BY <1>2
  <2>2. ActivationOK(s, i, h, known)
    BY DEF StackOK
  <2>3. i # 1 => i > 1
    BY <1>2
  <2> HIDE DEF g
  <2>4. QED
    BY <2>1, <2>2, <2>3 DEF ActivationOK, BegunBy
<1>6. ActivationOK(g, Len(s) + 1, h, known)
  <2>1. g[Len(s) + 1] = a /\ (s # <<>> => g[Len(s)] = Last(s))
    BY <1>2, <1>3, <1>4
  <2>2. (Len(s) + 1) - 1 = Len(s) /\ (Len(s) + 1 = 1 <=> s = <<>>) /\ (s # <<>> => Len(s) + 1 > 1)
    BY <1>2, <1>3
  <2> HIDE DEF g
  <2>3. QED
    BY <2>1, <2>2 DEF ActivationOK, BegunBy
<1>7. QED
  BY <1>2, <1>5, <1>6 DEF StackOK, Activations

----------------------------------------------------------------------------
(* A decode d at work, in the context b and above the activations acts.    *)
Sits(d, acts, b) ==
  /\ StackOK(acts, home, classes)
  /\ d \in Decodes /\ Remembers(d, classes) /\ d.began = b
  /\ IF acts = <<>> THEN b = home ELSE Last(acts) \in Calls /\ b = During(Last(acts))

LEMMA StepOK ==
  ASSUME ClassInv, UNCHANGED <<classes, home>>,
         StackOK(stack', home, classes), bg' = ContextOf(stack', home), AnswerByPolicy'
  PROVE  ClassInv'
<1>1. StackOK(stack', home', classes') /\ bg' = ContextOf(stack', home')
  OBVIOUS
<1>2. QED
  BY <1>1 DEF ClassInv

(* It goes on.                                                             *)
LEMMA GoesOn ==
  ASSUME NEW d, NEW acts, NEW b, Sits(d, acts, b)
  PROVE  /\ StackOK(Append(acts, d), home, classes)
         /\ ContextOf(Append(acts, d), home) = b
<1>1. acts \in Seq(Activations) /\ d \in Activations
  BY DEF Sits, StackOK, Activations
<1>2. Last(Append(acts, d)) = d /\ Append(acts, d) # <<>>
  BY <1>1, Pushed
<1>3. StackOK(Append(acts, d), home, classes)
  BY <1>1, StackPushed DEF Sits
<1>4. ContextOf(Append(acts, d), home) = b
  BY <1>2 DEF ContextOf, Sits
<1>5. QED
  BY <1>3, <1>4

(* It ends.                                                                *)
LEMMA GivesUp ==
  ASSUME NEW d, NEW acts, NEW b, Sits(d, acts, b)
  PROVE  StackOK(acts, home, classes) /\ ContextOf(acts, home) = b
BY Kinds DEF Sits, ContextOf

(* It calls user code.                                                     *)
LEMMA CallKeeps ==
  ASSUME NEW d, NEW acts, NEW b, Sits(d, acts, b),
         NEW why \in {"autoload", "callback", "legacy"}, NEW c \in d.allowed_set,
         why # "legacy" => d.token \in Token /\ ClassAt(d.token.idx) = c,
         Call(acts, b, d, why, c)
  PROVE  StackOK(stack', home, classes) /\ bg' = ContextOf(stack', home)
<1> DEFINE u == [what |-> why, class |-> c, saved |-> b]
<1>1. d \in Decodes /\ d.began = b
  BY DEF Sits
<1>2. u \in Calls
  <2>1. c \in Class /\ b \in Context
    BY <1>1 DEF Decodes
  <2>2. QED
    BY <2>1 DEF Calls
<1>3. u.what = why /\ u.class = c /\ u.saved = b
  OBVIOUS
<1>4. stack' = acts \o <<d, u>> /\ bg' = During(u)
  BY DEF Call, During
<1> HIDE DEF u
<1>5. acts \in Seq(Activations) /\ d \in Activations /\ u \in Activations
  BY <1>1, <1>2 DEF Sits, StackOK, Activations
<1>6. stack' = Append(Append(acts, d), u)
  BY <1>4, <1>5, TwoPushed
<1>7. StackOK(Append(acts, d), home, classes)
  BY GoesOn
<1>8. /\ Append(acts, d) \in Seq(Activations) /\ Append(acts, d) # <<>>
      /\ Last(Append(acts, d)) = d
  BY <1>5, Pushed
<1>9. CalledBy(u, d)
  BY <1>1, <1>3 DEF CalledBy
<1>10. StackOK(stack', home, classes)
  BY <1>2, <1>5, <1>6, <1>7, <1>8, <1>9, StackPushed
<1>11. Last(stack') = u /\ stack' # <<>>
  BY <1>5, <1>6, <1>8, Pushed
<1>12. bg' = ContextOf(stack', home)
  BY <1>2, <1>4, <1>11, Kinds DEF ContextOf
<1>13. QED
  BY <1>10, <1>12

LEMMA NoAnswerOK == answer' = NoAnswer => AnswerByPolicy'
BY DEF AnswerByPolicy

LEMMA SettleKeeps ==
  ASSUME ClassInv, NEW d, NEW acts, NEW b, Sits(d, acts, b),
         NEW t \in Token, ClassAt(t.idx) \in d.allowed_set,
         NEW c \in {None, ClassAt(t.idx)}, c # None <=> ClassAt(t.idx) \in classes,
         UNCHANGED <<classes, home>>, Settle(acts, b, d, t, c)
  PROVE  ClassInv'
<1> DEFINE v == Verdict(t.tag, c)
           r == Remember(d, t.idx, c)
           e == [r EXCEPT !.token = NoToken]
<1>1. t.idx \in Idx /\ t.tag \in Tags
  BY DEF Token
<1>2. ClassAt(t.idx) \in Class /\ ClassAt(t.idx) # None /\ None \notin Class /\ Legacy \subseteq Class
  BY <1>1, Names, ClassAssumption
<1>3. d \in Decodes /\ Remembers(d, classes) /\ d.began = b
  BY DEF Sits
<1>4. /\ r \in Decodes /\ r.began = b /\ r.allowed_set = d.allowed_set /\ Remembers(r, classes)
  BY <1>1, <1>2, <1>3, RememberKeeps
<1>5. NoToken \in Token \cup {NoToken}
  OBVIOUS
<1> HIDE DEF r
<1>6. e \in Decodes /\ e.began = b /\ e.allowed_set = d.allowed_set /\ Remembers(e, classes)
  BY <1>4, <1>5, TokenChanged, TokenKeeps
<1> HIDE DEF e
<1>7. Sits(e, acts, b)
  BY <1>6 DEF Sits
<1>8. /\ answer' = Answer(d, t.idx, v)
      /\ \/ v = "fails" /\ stack' = acts /\ bg' = b
         \/ v = "hook" /\ Call(acts, b, e, "legacy", c)
         \/ stack' = Append(acts, e) /\ bg' = b
  BY DEF Settle, e, r
<1>9. AnswerByPolicy'
  <2>1. /\ answer'.verdict = v /\ answer'.class = ClassAt(t.idx)
        /\ answer'.allowed = d.allowed_set /\ answer'.defined = (ClassAt(t.idx) \in classes)
    BY <1>8 DEF Answer
  <2>2. v = "incomplete" => c = None
    BY <1>2 DEF Verdict, Tags
  <2>3. v = "null" => c \notin Legacy
    BY DEF Verdict, Tags
  <2> HIDE DEF v
  <2>4. v \in {"incomplete", "null"} => ~ answer'.defined \/ (v = "null" /\ ClassAt(t.idx) \notin Legacy)
    <3>1. CASE c = None
      BY <1>2, <2>1, <3>1
    <3>2. CASE c # None
      BY <2>2, <2>3, <3>2
    <3>3. QED
      BY <3>1, <3>2
  <2>5. QED
    BY <2>1, <2>4 DEF AnswerByPolicy
<1>10. StackOK(stack', home, classes) /\ bg' = ContextOf(stack', home)
  <2>1. CASE v = "hook" /\ Call(acts, b, e, "legacy", c)
    <3>1. c \in Legacy
      BY <2>1 DEF Verdict, Tags
    <3>2. c \in e.allowed_set
      BY <1>2, <1>6, <3>1
    <3>3. QED
      BY <1>7, <2>1, <3>2, CallKeeps
  <2>2. CASE stack' = acts /\ bg' = b
    BY <1>7, <2>2, GivesUp
  <2>3. CASE stack' = Append(acts, e) /\ bg' = b
    BY <1>7, <2>3, GoesOn
  <2>4. QED
    BY <1>8, <2>1, <2>2, <2>3
<1>11. QED
  BY <1>9, <1>10, StepOK

(* The decode with a token to go on with.                                  *)
LEMMA TokenSits ==
  ASSUME NEW d, NEW acts, NEW b, Sits(d, acts, b), NEW t \in Token
  PROVE  LET e == [d EXCEPT !.token = t] IN
         Sits(e, acts, b) /\ e.allowed_set = d.allowed_set /\ e.token = t
<1>1. d \in Decodes /\ Remembers(d, classes) /\ d.began = b /\ t \in Token \cup {NoToken}
  BY DEF Sits
<1> DEFINE e == [d EXCEPT !.token = t]
<1>2. /\ e \in Decodes /\ e.began = b /\ e.allowed_set = d.allowed_set /\ e.token = t
      /\ Remembers(e, classes)
  BY <1>1, TokenChanged, TokenKeeps
<1> HIDE DEF e
<1>3. Sits(e, acts, b)
  BY <1>2 DEF Sits
<1>4. QED
  BY <1>2, <1>3 DEF e

LEMMA AfterLookupKeeps ==
  ASSUME ClassInv, NEW d, NEW acts, NEW b, Sits(d, acts, b),
         NEW t \in Token, ClassAt(t.idx) \in d.allowed_set,
         UNCHANGED <<classes, home>>, AfterLookup(acts, b, d, t, Found(ClassAt(t.idx)))
  PROVE  ClassInv'
<1> DEFINE c == Found(ClassAt(t.idx))
<1>1. t.idx \in Idx
  BY DEF Token
<1>2. c \in {None, ClassAt(t.idx)} /\ (c # None <=> ClassAt(t.idx) \in classes)
  BY <1>1, Names DEF Found
<1>3. CASE Settle(acts, b, d, t, c)
  BY <1>2, <1>3, SettleKeeps
<1>4. CASE ~ Settle(acts, b, d, t, c)
  <2> DEFINE n == [t EXCEPT !.again = TRUE]
             e == [d EXCEPT !.token = n]
  <2>1. Call(acts, b, e, "callback", ClassAt(t.idx)) /\ answer' = NoAnswer
    BY <1>4 DEF AfterLookup
  <2>2. n \in Token /\ n.idx = t.idx
    BY DEF Token
  <2> HIDE DEF n
  <2>3. Sits(e, acts, b) /\ e.allowed_set = d.allowed_set /\ e.token = n
    BY <2>2, TokenSits
  <2> HIDE DEF e
  <2>4. StackOK(stack', home, classes) /\ bg' = ContextOf(stack', home)
    BY <2>1, <2>2, <2>3, CallKeeps
  <2>5. QED
    BY <2>1, <2>4, NoAnswerOK, StepOK
<1>5. QED
  BY <1>3, <1>4

LEMMA ResolveKeeps ==
  ASSUME ClassInv, NEW d, NEW acts, NEW b, Sits(d, acts, b),
         NEW t \in Token, ClassAt(t.idx) \in d.allowed_set,
         UNCHANGED <<classes, home>>, Resolve(acts, b, d, t)
  PROVE  ClassInv'
<1> DEFINE k == d.ce_cache[t.idx]
<1>1. t.idx \in Idx
  BY DEF Token
<1>2. CASE k # None
  <2>1. k = ClassAt(t.idx) /\ k \in classes
    BY <1>1, <1>2 DEF Sits, Remembers
  <2>2. Settle(acts, b, d, t, k)
    BY <1>2 DEF Resolve
  <2>3. QED
    BY <1>2, <2>1, <2>2, SettleKeeps
<1>3. CASE k = None /\ AfterLookup(acts, b, d, t, Found(ClassAt(t.idx)))
  BY <1>3, AfterLookupKeeps
<1>4. CASE k = None /\ ~ AfterLookup(acts, b, d, t, Found(ClassAt(t.idx)))
  <2> DEFINE e == [d EXCEPT !.token = t]
  <2>1. Call(acts, b, e, "autoload", ClassAt(t.idx)) /\ answer' = NoAnswer
    BY <1>4 DEF Resolve
  <2>2. Sits(e, acts, b) /\ e.allowed_set = d.allowed_set /\ e.token = t
    BY TokenSits
  <2> HIDE DEF e
  <2>3. StackOK(stack', home, classes) /\ bg' = ContextOf(stack', home)
    BY <2>1, <2>2, CallKeeps
  <2>4. QED
    BY <2>1, <2>3, NoAnswerOK, StepOK
<1>5. QED
  BY <1>2, <1>3, <1>4

----------------------------------------------------------------------------
(* What is on top.                                                         *)

LEMMA DecodeSits ==
  ASSUME NEW s, StackOK(s, home, classes), s # <<>>, Last(s) \in Decodes
  PROVE  Sits(Last(s), Front(s), Last(s).began)
<1> DEFINE n == Len(s)
           acts == Front(s)
           d == Last(s)
<1>1. s \in Seq(Activations) /\ \A i \in 1 .. n : ActivationOK(s, i, home, classes)
  BY DEF StackOK, Activations
<1>2. /\ n \in Nat \ {0} /\ d = s[n] /\ acts \in Seq(Activations) /\ Len(acts) = n - 1
      /\ \A i \in 1 .. n - 1 : acts[i] = s[i]
  BY <1>1, FrontAndLast
<1>3. StackOK(acts, home, classes)
  BY StackPopped
<1> HIDE DEF n, acts, d
<1>4. s[n] \in Decodes
  BY <1>2 DEF d
<1>5. Remembers(s[n], classes) /\ BegunBy(s[n], s, n, home)
  <2>1. ActivationOK(s, n, home, classes)
    BY <1>1, <1>2
  <2>2. s[n] \notin Calls
    BY <1>4, Kinds
  <2>3. QED
    BY <2>1, <2>2 DEF ActivationOK
<1>6. IF acts = <<>> THEN d.began = home ELSE Last(acts) \in Calls /\ d.began = During(Last(acts))
  <2>1. CASE n = 1
    <3>1. acts = <<>>
      BY <1>2, <2>1, EmptySeq
    <3>2. QED
      BY <1>2, <1>5, <2>1, <3>1 DEF BegunBy
  <2>2. CASE n # 1
    <3>1. acts # <<>>
      BY <1>2, <2>2, EmptySeq
    <3>2. Last(acts) = s[n - 1]
      <4>1. Last(acts) = acts[n - 1]
        BY <1>2 DEF Last
      <4>2. QED
        BY <1>2, <2>2, <4>1
    <3>3. QED
      BY <1>2, <1>5, <2>2, <3>1, <3>2 DEF BegunBy
  <2>3. QED
    BY <2>1, <2>2
<1>7. Sits(d, acts, d.began)
  BY <1>2, <1>3, <1>4, <1>5, <1>6 DEF Sits
<1>8. QED
  BY <1>7 DEF d, acts

LEMMA TopKind ==
  ASSUME ClassInv, stack # <<>>
  PROVE  /\ StackOK(stack, home, classes) /\ stack \in Seq(Activations) /\ Top \in Activations
         /\ Top.what = "decode" <=> Top \in Decodes
         /\ Top.what # "decode" <=> Top \in Calls
<1>1. StackOK(stack, home, classes) /\ stack \in Seq(Activations)
  BY DEF ClassInv, StackOK, Activations
<1>2. Top \in Activations
  BY <1>1, FrontAndLast DEF Top
<1>3. QED
  BY <1>1, <1>2, Kinds DEF Activations

LEMMA InDecodeSits ==
  ASSUME ClassInv, InDecode
  PROVE  Sits(Top, Front(stack), bg)
<1>1. stack # <<>> /\ Top \in Decodes /\ StackOK(stack, home, classes)
  BY TopKind DEF InDecode
<1>2. bg = Top.began
  BY <1>1 DEF ClassInv, ContextOf, Top
<1>3. QED
  BY <1>1, <1>2, DecodeSits DEF Top

LEMMA InUserSits ==
  ASSUME ClassInv, InUser
  PROVE  LET d == Last(Front(stack)) IN
         /\ Top \in Calls /\ CalledBy(Top, d)
         /\ bg = During(Top)
         /\ Sits(d, Front(Front(stack)), Top.saved)
<1>1. stack # <<>> /\ Top \in Calls /\ StackOK(stack, home, classes) /\ stack \in Seq(Activations)
  BY TopKind DEF InUser
<1> DEFINE n == Len(stack)
           s == Front(stack)
           d == Last(s)
<1>2. /\ n \in Nat \ {0} /\ Top = stack[n] /\ s \in Seq(Activations) /\ Len(s) = n - 1
      /\ \A i \in 1 .. n - 1 : s[i] = stack[i]
  BY <1>1, FrontAndLast DEF Top
<1>3. StackOK(s, home, classes)
  BY <1>1, StackPopped
<1> HIDE DEF n, s, d
<1>4. n > 1 /\ CalledBy(stack[n], stack[n - 1])
  <2>1. ActivationOK(stack, n, home, classes)
    BY <1>1, <1>2 DEF StackOK, n
  <2>2. stack[n] \notin Decodes
    BY <1>1, <1>2, Kinds
  <2>3. QED
    BY <2>1, <2>2 DEF ActivationOK
<1>5. s # <<>> /\ d = stack[n - 1]
  <2>1. s # <<>>
    BY <1>2, <1>4, EmptySeq
  <2>2. d = s[n - 1]
    BY <1>2, <2>1, FrontAndLast DEF d
  <2>3. QED
    BY <1>2, <1>4, <2>1, <2>2
<1>6. CalledBy(Top, d)
  BY <1>2, <1>4, <1>5
<1>7. Sits(d, Front(s), d.began) /\ Top.saved = d.began
  BY <1>3, <1>5, <1>6, DecodeSits DEF CalledBy, d
<1>8. bg = During(Top)
  BY <1>1, Kinds DEF ClassInv, ContextOf, Top
<1>9. QED
  BY <1>1, <1>6, <1>7, <1>8 DEF d, s

----------------------------------------------------------------------------
(* Every action keeps the invariant.                                       *)

LEMMA DenyKeeps ==
  ASSUME ClassInv, NEW d, NEW acts, Sits(d, acts, bg), NEW t \in Token,
         ClassAt(t.idx) \notin d.allowed_set,
         UNCHANGED <<classes, home>>, Deny(acts, d, t)
  PROVE  ClassInv'
<1> DEFINE c == Found(ClassAt(t.idx))
           e == IF t.tag = "slots" /\ d.ce_cache[t.idx] = None THEN Remember(d, t.idx, c) ELSE d
<1>1. t.idx \in Idx
  BY DEF Token
<1>2. d \in Decodes /\ Remembers(d, classes) /\ d.began = bg
  BY DEF Sits
<1>3. c \in {None, ClassAt(t.idx)} /\ (c # None => c \in classes)
  BY <1>1, Names DEF Found
<1> HIDE DEF c
<1>4. e \in Decodes /\ Remembers(e, classes) /\ e.began = bg
  BY <1>1, <1>2, <1>3, RememberKeeps
<1>5. stack' = Append(acts, e) /\ bg' = bg /\ answer' = Answer(d, t.idx, "incomplete")
  BY DEF Deny, c
<1> HIDE DEF e
<1>6. Sits(e, acts, bg)
  BY <1>4 DEF Sits
<1>7. AnswerByPolicy'
  BY <1>5 DEF AnswerByPolicy, Answer
<1>8. QED
  BY <1>5, <1>6, <1>7, GoesOn, StepOK

LEMMA ReadObjectKeeps ==
  ASSUME ClassInv, NEW tag \in Tags, NEW i \in Idx, ReadObject(tag, i)
  PROVE  ClassInv'
<1> DEFINE t == [tag |-> tag, idx |-> i, again |-> FALSE]
           d == Top
           m == Memoized(d, i)
<1>1. /\ InDecode /\ UNCHANGED <<classes, home>>
      /\ IF Allowed(d, i) THEN Resolve(Front(stack), bg, m, t) ELSE Deny(Front(stack), m, t)
  BY DEF ReadObject
<1>2. t \in Token /\ t.idx = i
  BY DEF Token
<1> HIDE DEF t
<1>3. Sits(d, Front(stack), bg)
  BY <1>1, InDecodeSits
<1> HIDE DEF d
<1>4. /\ Allowed(d, i) <=> ClassAt(i) \in d.allowed_set
      /\ m \in Decodes /\ m.began = bg /\ m.allowed_set = d.allowed_set /\ Remembers(m, classes)
  BY <1>3, MemoizedKeeps DEF Sits
<1> HIDE DEF m
<1>5. Sits(m, Front(stack), bg)
  BY <1>3, <1>4 DEF Sits
<1>6. QED
  BY <1>1, <1>2, <1>4, <1>5, ResolveKeeps, DenyKeeps

LEMMA EndDecodeKeeps ==
  ASSUME ClassInv, EndDecode
  PROVE  ClassInv'
<1>1. /\ InDecode /\ stack' = Front(stack) /\ answer' = NoAnswer
      /\ UNCHANGED <<classes, home, bg>>
  BY DEF EndDecode
<1>2. Sits(Top, Front(stack), bg)
  BY <1>1, InDecodeSits
<1>3. QED
  BY <1>1, <1>2, GivesUp, NoAnswerOK, StepOK

LEMMA ReturnKeeps ==
  ASSUME ClassInv, NEW throws \in BOOLEAN, Return(throws)
  PROVE  ClassInv'
<1> DEFINE acts == Front(Front(stack))
           d == Last(Front(stack))
           b == Restored(Top, throws)
           t == d.token
<1>1. /\ InUser /\ UNCHANGED <<classes, home>>
      /\ IF throws THEN stack' = acts /\ bg' = b /\ answer' = NoAnswer
         ELSE CASE Top.what = "autoload" -> AfterLookup(acts, b, d, t, Found(ClassAt(t.idx)))
                [] Top.what = "callback" -> Resolve(acts, b, d, t)
                [] Top.what = "legacy"   -> /\ stack' = Append(acts, d)
                                            /\ bg' = b /\ answer' = NoAnswer
  BY DEF Return
<1>2. Top \in Calls /\ CalledBy(Top, d) /\ bg = During(Top) /\ Sits(d, acts, Top.saved)
  BY <1>1, InUserSits
<1>3. b = Top.saved
  BY <1>2, Contexts DEF Restored
<1> HIDE DEF b, acts, d
<1>4. Sits(d, acts, b)
  BY <1>2, <1>3
<1>5. CASE throws
  BY <1>1, <1>4, <1>5, GivesUp, NoAnswerOK, StepOK
<1>6. CASE ~ throws /\ Top.what = "legacy"
  BY <1>1, <1>4, <1>6, GoesOn, NoAnswerOK, StepOK
<1>7. CASE ~ throws /\ Top.what # "legacy"
  <2>1. t \in Token /\ ClassAt(t.idx) \in d.allowed_set
    BY <1>2, <1>7 DEF CalledBy
  <2>2. Top.what \in {"autoload", "callback"}
    BY <1>2, <1>7, Kinds
  <2>3. AfterLookup(acts, b, d, t, Found(ClassAt(t.idx))) \/ Resolve(acts, b, d, t)
    BY <1>1, <1>7, <2>2
  <2> HIDE DEF t
  <2>4. QED
    BY <1>1, <1>4, <2>1, <2>3, AfterLookupKeeps, ResolveKeeps
<1>8. QED
  BY <1>5, <1>6, <1>7

(* A class more is a class more for every decode.                          *)
LEMMA DefineClassKeeps ==
  ASSUME ClassInv, NEW c \in Class, DefineClass(c)
  PROVE  ClassInv'
<1>1. classes' = classes \cup {c} /\ answer' = NoAnswer /\ UNCHANGED <<bg, home, stack>>
  BY DEF DefineClass, Statement
<1>2. \A d \in Decodes : Remembers(d, classes) => Remembers(d, classes \cup {c})
  BY DEF Remembers
<1>3. StackOK(stack, home, classes \cup {c})
  BY <1>2 DEF ClassInv, StackOK, ActivationOK
<1>4. StackOK(stack', home', classes')
  BY <1>1, <1>3
<1>5. bg' = ContextOf(stack', home')
  BY <1>1 DEF ClassInv
<1>6. QED
  BY <1>1, <1>4, <1>5, NoAnswerOK DEF ClassInv

LEMMA SetCallbackKeeps ==
  ASSUME ClassInv, SetCallback
  PROVE  ClassInv'
<1>1. answer' = NoAnswer /\ UNCHANGED <<classes, home, bg, stack>>
  BY DEF SetCallback, Statement
<1>2. QED
  BY <1>1, NoAnswerOK, StepOK DEF ClassInv

LEMMA BeginDecodeKeeps ==
  ASSUME ClassInv, NEW filter \in Filters, BeginDecode(filter)
  PROVE  ClassInv'
<1> DEFINE d == [what |-> "decode", allowed_set |-> filter, began |-> bg,
                 ce_cache |-> [i \in Idx |-> None],
                 allow_cache |-> [i \in Idx |-> 0], token |-> NoToken]
<1>1. /\ stack = <<>> \/ InUser
      /\ stack' = Append(stack, d) /\ answer' = NoAnswer /\ UNCHANGED <<classes, home, bg>>
  BY DEF BeginDecode
<1>2. StackOK(stack, home, classes)
  BY DEF ClassInv
<1>3. IF stack = <<>> THEN bg = home ELSE Last(stack) \in Calls /\ bg = During(Last(stack))
  <2>1. CASE stack = <<>>
    BY <2>1 DEF ClassInv, ContextOf
  <2>2. CASE stack # <<>>
    BY <1>1, <2>2, InUserSits DEF Top
  <2>3. QED
    BY <2>1, <2>2
<1>4. bg \in Context
  BY <1>3, Contexts DEF ClassInv
<1>5. d \in Decodes /\ d.began = bg
  <2>1. filter \in SUBSET Class
    BY ClassAssumption
  <2>2. QED
    BY <1>4, <2>1 DEF Decodes
<1>6. Remembers(d, classes)
  BY DEF Remembers
<1> HIDE DEF d
<1>7. Sits(d, stack, bg)
  BY <1>2, <1>3, <1>5, <1>6 DEF Sits
<1>8. QED
  BY <1>1, <1>7, GoesOn, NoAnswerOK, StepOK

LEMMA ClassInit == ResolveInit => ClassInv
<1> SUFFICES ASSUME ResolveInit PROVE ClassInv
  OBVIOUS
<1>1. /\ classes = {} /\ stack = <<>> /\ home \in Homes /\ bg = home /\ answer = NoAnswer
  BY DEF ResolveInit
<1>2. home \in Context
  BY <1>1, ClassAssumption DEF Context
<1>3. StackOK(<<>>, home, classes)
  BY EmptySeq DEF StackOK
<1>4. QED
  BY <1>1, <1>2, <1>3 DEF ClassInv, ContextOf, AnswerByPolicy

LEMMA ClassNext == ClassInv /\ [ResolveNext]_resolveVars => ClassInv'
<1> SUFFICES ASSUME ClassInv, [ResolveNext]_resolveVars PROVE ClassInv'
  OBVIOUS
<1>1. ASSUME NEW tag \in Tags, NEW i \in Idx, ReadObject(tag, i) PROVE ClassInv'
  BY <1>1, ReadObjectKeeps
<1>2. ASSUME NEW throws \in BOOLEAN, Return(throws) PROVE ClassInv'
  BY <1>2, ReturnKeeps
<1>3. ASSUME NEW c \in Class, DefineClass(c) PROVE ClassInv'
  BY <1>3, DefineClassKeeps
<1>4. ASSUME NEW filter \in Filters, BeginDecode(filter) PROVE ClassInv'
  BY <1>4, BeginDecodeKeeps
<1>5. CASE UNCHANGED resolveVars
  <2>1. UNCHANGED <<classes, stack, bg, home, answer>>
    BY <1>5 DEF resolveVars
  <2>2. AnswerByPolicy'
    BY <2>1 DEF ClassInv, AnswerByPolicy
  <2>3. QED
    BY <2>1, <2>2, StepOK DEF ClassInv
<1>6. QED
  BY <1>1, <1>2, <1>3, <1>4, <1>5, EndDecodeKeeps, SetCallbackKeeps DEF ResolveNext

(* However decodes, autoloaders, callbacks and hooks nest and whatever     *)
(* they define: stacks are as they should be.                              *)
LEMMA ClassAlways == ResolveSpec => []ClassInv
BY ClassInit, ClassNext, PTL DEF ResolveSpec

(* An object loses its class only if the class is denied or does not exist *)
(* then, and user code is asked for, or made to see, no class the filter   *)
(* of its frame denies.                                                    *)
THEOREM ClassesFoundByPolicy == ResolveSpec => []ClassesByPolicy
<1>1. ClassInv => ClassesByPolicy
  <2> SUFFICES ASSUME ClassInv PROVE ClassesByPolicy
    OBVIOUS
  <2>1. AnswerByPolicy
    BY DEF ClassInv
  <2>2. ASSUME NEW i \in DOMAIN stack, stack[i].what # "decode"
        PROVE  stack[i].class \in stack[i - 1].allowed_set
    <3>1. StackOK(stack, home, classes) /\ stack \in Seq(Activations)
      BY DEF ClassInv, StackOK, Activations
    <3>2. i \in 1 .. Len(stack)
      BY <3>1, LenProperties
    <3>3. ActivationOK(stack, i, home, classes)
      BY <3>1, <3>2 DEF StackOK
    <3>4. QED
      BY <2>2, <3>3, Kinds DEF ActivationOK, CalledBy
  <2>3. QED
    BY <2>1, <2>2 DEF ClassesByPolicy, AnswerByPolicy
<1>2. QED
  BY <1>1, ClassAlways, PTL

(* Native serialization finds the state it left before a decode, and user  *)
(* code during one never that of the program around it.                    *)
THEOREM NativeSerializationUndisturbed == ResolveSpec => []NativeContextKept
<1>1. ClassInv => NativeContextKept
  <2> SUFFICES ASSUME ClassInv PROVE NativeContextKept
    OBVIOUS
  <2>1. stack = <<>> => bg = home
    BY DEF ClassInv, ContextOf
  <2>2. InDecode => bg = Top.began
    BY InDecodeSits DEF Sits
  <2>3. InUser => IF Top.what = "legacy" THEN bg = [lock |-> 0, level |-> 1] ELSE bg.lock > 0
    BY InUserSits, Contexts
  <2>4. QED
    BY <2>1, <2>2, <2>3 DEF NativeContextKept
<1>2. QED
  BY <1>1, ClassAlways, PTL
----------------------------------------------------------------------------

(* PinsInv, by what its conjuncts are about: the id table and the frame,   *)
(* the reference counts, the running hook.                                 *)
TableInv ==
  /\ PinsMatchTable
  /\ \A a \in Addr : Walked(a) => \E i \in DOMAIN open : open[i] = a
  /\ OpenArraysPending
  /\ IdsOwned
  /\ BackRefsFaithful

HeapInv ==
  /\ \A a \in Immutable : lives[a] # 0
  /\ EntriesAlive
  /\ CountsBalance
  /\ CopiesHaveOwner

HookInv == (userCode => pinsActive) /\ NewestIdIsHooks

LEMMA Parts == PinsInv <=> PinsTypeOK /\ TableInv /\ HeapInv /\ HookInv
BY DEF PinsInv, TableInv, HeapInv, HookInv

LEMMA PartsNext == PinsInv' <=> PinsTypeOK' /\ TableInv' /\ HeapInv' /\ HookInv'
BY DEF PinsInv, TableInv, HeapInv, HookInv

----------------------------------------------------------------------------
(* Reference counts.                                                       *)

(* The terms of a reference count are numbers.                             *)
LEMMA CountType ==
  ASSUME PinsTypeOK, NEW a \in Addr
  PROVE  /\ prog[a] \in Nat /\ copies[a] \in Nat /\ lives[a] \in Nat
         /\ Refcount(a) \in Nat
         /\ Refcount(a) >= prog[a] /\ Refcount(a) >= copies[a]
         /\ Walked(a) => Refcount(a) >= prog[a] + 1
         /\ a \in pinned => Refcount(a) >= prog[a] + 1
         /\ a \in pinned => Refcount(a) >= copies[a] + 1
<1>1. prog[a] \in Nat /\ copies[a] \in Nat /\ lives[a] \in Nat
  BY DEF PinsTypeOK
<1>2. QED
  BY <1>1 DEF Refcount

(* Letting go of one reference to a: a number is still what lives holds,   *)
(* nobody else's address is touched, and a is freed with its last one.     *)
LEMMA DropRefEffect ==
  ASSUME PinsTypeOK, NEW a \in Addr, DropRef(a)
  PROVE  /\ lives' \in [Addr -> Nat]
         /\ \A b \in Addr : b # a => lives'[b] = lives[b]
         /\ ~ Dies(a) => lives' = lives
         /\ Dies(a) => lives'[a] = 0
BY DEF PinsTypeOK, DropRef

(* A table entry of an ordinary address is pinned once pins are active.    *)
LEMMA EntryPinned ==
  ASSUME TableInv, pinsActive, NEW a \in Addr \ Immutable, InTable(a)
  PROVE  a \in pinned
BY DEF TableInv, PinsMatchTable

(* No hook runs while the encoder does.                                    *)
LEMMA NoHookRuns ==
  ASSUME HookInv, ~ userCode
  PROVE  hook = NoHook
BY DEF HookInv, NewestIdIsHooks

(* What a step that leaves the table alone keeps.                          *)
LEMMA TableAlone ==
  ASSUME PinsInv, UNCHANGED <<tableVars, pinsActive, pinned>>
  PROVE  TableInv'
<1>1. TableInv
  BY Parts
<1>2. QED
  BY <1>1 DEF TableInv, PinsMatchTable, OpenArraysPending, IdsOwned, BackRefsFaithful,
     tableVars, Walked, InTable, HasId

LEMMA HookAlone ==
  ASSUME PinsInv, UNCHANGED <<tableVars, pinsActive>>,
         hook' \in {hook, NoHook}, userCode' => pinsActive, hook' # NoHook => userCode'
  PROVE  HookInv'
<1>1. HookInv
  BY Parts
<1>2. QED
  BY <1>1 DEF HookInv, NewestIdIsHooks, tableVars, InTable

(* A step of user code on the heap: what the table names stays, and the    *)
(* counts balance.                                                         *)
LEMMA HeapStep ==
  ASSUME PinsInv, userCode,
         UNCHANGED <<copies, tableVars, pinsActive, pinned, hook, userCode, encoding>>,
         lives' \in [Addr -> Nat], allocated' \in Nat, prog' \in [Addr -> Nat],
         \A b \in Addr : InTable(b) \/ b \in Immutable => lives'[b] = lives[b],
         CountsBalance'
  PROVE  PinsInv'
<1>1. PinsTypeOK /\ TableInv /\ HeapInv /\ HookInv
  BY Parts
<1>2. PinsTypeOK'
  BY <1>1 DEF PinsTypeOK, tableVars
<1>3. TableInv'
  BY TableAlone
<1>4. HookInv'
  BY <1>1, HookAlone DEF HookInv, NewestIdIsHooks
<1>5. \A b \in Immutable : lives'[b] # 0
  BY <1>1, PinsAssumption DEF HeapInv
<1>6. EntriesAlive'
  BY <1>1 DEF HeapInv, EntriesAlive, InTable, tableVars
<1>7. CopiesHaveOwner'
  BY <1>1 DEF HookInv, CopiesHaveOwner
<1>8. QED
  BY <1>2, <1>3, <1>4, <1>5, <1>6, <1>7, PartsNext DEF HeapInv

LEMMA TakeKeeps ==
  ASSUME PinsInv, NEW a \in Addr, Take(a)
  PROVE  PinsInv'
<1>1. PinsTypeOK /\ HeapInv
  BY Parts
<1>2. prog' \in [Addr -> Nat] /\ lives' \in [Addr -> Nat] /\ allocated' \in Nat
  BY <1>1 DEF Take, PinsTypeOK
<1>3. ASSUME NEW b \in Addr \ Immutable PROVE lives'[b] # 0 <=> Refcount(b)' > 0
  <2>1. b \in Addr /\ prog[b] \in Nat /\ copies[b] \in Nat
    BY <1>1, CountType
  <2>2. lives'[b] = lives[b]
    BY DEF Take
  <2>3. prog'[b] = IF a = b THEN prog[b] + 1 ELSE prog[b]
    BY <1>1 DEF Take, PinsTypeOK
  <2>4. Refcount(b)' = IF a = b THEN Refcount(b) + 1 ELSE Refcount(b)
    BY <2>1, <2>3 DEF Take, Refcount, Walked, tableVars
  <2>5. lives[b] # 0 <=> Refcount(b) > 0
    BY <1>1 DEF HeapInv, CountsBalance
  <2>6. Refcount(b) \in Nat /\ (a = b => lives[b] # 0)
    BY <1>1, <2>1, CountType DEF Take
  <2>7. QED
    BY <2>2, <2>4, <2>5, <2>6
<1>4. QED
  BY <1>2, <1>3, HeapStep DEF Take, CountsBalance

(* What user code drops and the table names has a pin left.                *)
LEMMA DropKeeps ==
  ASSUME PinsInv, NEW a \in Addr, Drop(a)
  PROVE  PinsInv'
<1>1. PinsTypeOK /\ HeapInv /\ TableInv /\ HookInv
  BY Parts
<1>2. prog[a] \in Nat /\ prog[a] > 0
  BY <1>1, CountType DEF Drop
<1>3. prog' \in [Addr -> Nat] /\ allocated' \in Nat
  BY <1>1, <1>2 DEF Drop, PinsTypeOK
<1>4. DropRef(a)
  BY DEF Drop
<1>5. lives' \in [Addr -> Nat]
  BY <1>1, <1>4, DropRefEffect
<1>6. ASSUME NEW b \in Addr, InTable(b) \/ b \in Immutable PROVE lives'[b] = lives[b]
  <2>1. CASE b # a \/ ~ Dies(a)
    BY <1>1, <1>4, <2>1, DropRefEffect
  <2>2. CASE b = a /\ Dies(a)
    <3>1. InTable(a) /\ a \in Addr \ Immutable
      BY <1>6, <2>2 DEF Dies
    <3>2. a \in pinned
      BY <1>1, <3>1, EntryPinned DEF HookInv, Drop
    <3>3. QED
      BY <1>1, <1>2, <2>2, <3>2, CountType DEF Dies
  <2>3. QED
    BY <2>1, <2>2
<1>7. ASSUME NEW b \in Addr \ Immutable PROVE lives'[b] # 0 <=> Refcount(b)' > 0
  <2>1. b \in Addr /\ prog[b] \in Nat /\ copies[b] \in Nat /\ Refcount(b) \in Nat
    BY <1>1, CountType
  <2>2. prog'[b] = IF a = b THEN prog[b] - 1 ELSE prog[b]
    BY <1>1 DEF Drop, PinsTypeOK
  <2>3. Refcount(b)' = IF a = b THEN Refcount(b) - 1 ELSE Refcount(b)
    BY <2>1, <2>2 DEF Drop, Refcount, Walked, tableVars
  <2>4. lives[b] # 0 <=> Refcount(b) > 0
    BY <1>1 DEF HeapInv, CountsBalance
  <2>5. Refcount(b) >= prog[b]
    BY <1>1, CountType
  <2>6. CASE a = b
    <3>1. Dies(a) <=> Refcount(a) = 1
      BY <2>6 DEF Dies
    <3>2. lives'[a] = IF Dies(a) THEN 0 ELSE lives[a]
      BY <1>1, <1>4, DropRefEffect
    <3>3. QED
      BY <1>2, <2>1, <2>3, <2>4, <2>5, <2>6, <3>1, <3>2
  <2>7. CASE a # b
    BY <1>1, <1>4, <2>3, <2>4, <2>7, DropRefEffect
  <2>8. QED
    BY <2>6, <2>7
<1>8. QED
  BY <1>3, <1>5, <1>6, <1>7, HeapStep DEF Drop, CountsBalance

LEMMA AllocateKeeps ==
  ASSUME PinsInv, NEW a \in Addr, Allocate(a)
  PROVE  PinsInv'
<1>1. PinsTypeOK /\ HeapInv
  BY Parts
<1>2. allocated \in Nat /\ lives \in [Addr -> Nat] /\ prog \in [Addr -> Nat]
  BY <1>1 DEF PinsTypeOK
<1>3. prog' \in [Addr -> Nat] /\ lives' \in [Addr -> Nat] /\ allocated' \in Nat
  BY <1>2 DEF Allocate
<1>4. ~ InTable(a) /\ a \notin Immutable
  BY <1>1 DEF HeapInv, EntriesAlive, Allocate
<1>5. ASSUME NEW b \in Addr, InTable(b) \/ b \in Immutable PROVE lives'[b] = lives[b]
  BY <1>2, <1>4, <1>5 DEF Allocate
<1>6. ASSUME NEW b \in Addr \ Immutable PROVE lives'[b] # 0 <=> Refcount(b)' > 0
  <2>1. b \in Addr /\ prog[b] \in Nat /\ copies[b] \in Nat
    BY <1>1, CountType
  <2>2. lives[b] # 0 <=> Refcount(b) > 0
    BY <1>1 DEF HeapInv, CountsBalance
  <2>3. CASE a # b
    <3>1. prog'[b] = prog[b] /\ lives'[b] = lives[b]
      BY <1>2, <2>3 DEF Allocate
    <3>2. QED
      BY <2>2, <3>1 DEF Refcount, Allocate, Walked, tableVars
  <2>4. CASE a = b
    <3>1. prog'[b] = 1 /\ lives'[b] # 0
      BY <1>2, <2>4 DEF Allocate
    <3>2. Refcount(b)' > 0
      BY <2>1, <3>1 DEF Refcount, Allocate, Walked, tableVars
    <3>3. QED
      BY <3>1, <3>2
  <2>5. QED
    BY <2>3, <2>4
<1>7. QED
  BY <1>3, <1>5, <1>6, HeapStep DEF Allocate, CountsBalance

----------------------------------------------------------------------------
(* What the encoder's own steps have in common.                            *)

LEMMA EntrySet ==
  ASSUME PinsTypeOK, NEW a \in Addr, NEW x \in Entry, entry' = [entry EXCEPT ![a] = x]
  PROVE  /\ entry' \in [Addr -> Entry]
         /\ entry'[a] = x
         /\ \A b \in Addr : b # a => entry'[b] = entry[b]
BY DEF PinsTypeOK

LEMMA NewEntry ==
  ASSUME PinsTypeOK, NEW a \in Addr, NEW id \in {Pending, Unshared} \cup Nat
  PROVE  [id |-> id, entity |-> lives[a]] \in Entry
BY CountType DEF Entry

LEMMA NewOwner ==
  ASSUME PinsTypeOK, NEW n \in Nat, owners' = Append(owners, n)
  PROVE  /\ owners' \in Seq(Nat)
         /\ Len(owners) \in Nat
         /\ Len(owners') = Len(owners) + 1
         /\ owners'[Len(owners) + 1] = n
         /\ \A i \in Nat : i < Len(owners) => owners'[i + 1] = owners[i + 1]
<1>1. owners \in Seq(Nat)
  BY DEF PinsTypeOK
<1>2. QED
  BY <1>1

LEMMA WireIds ==
  ASSUME PinsTypeOK, NEW i \in DOMAIN wire
  PROVE  wire[i].id \in Nat /\ wire[i].meant \in Nat
<1>1. wire \in Seq([id : Nat, meant : Nat])
  BY DEF PinsTypeOK
<1>2. wire[i] \in [id : Nat, meant : Nat]
  BY <1>1, ElementOfSeq, LenProperties
<1>3. QED
  BY <1>2

(* An id more leaves what was written before as it was.                    *)
LEMMA OlderBackRefs ==
  ASSUME PinsInv, NEW n \in Nat, owners' = Append(owners, n), wire' = wire
  PROVE  BackRefsFaithful'
<1>1. PinsTypeOK /\ BackRefsFaithful
  BY Parts DEF TableInv
<1>2. ASSUME NEW i \in DOMAIN wire
      PROVE  wire[i].id < Len(owners') /\ owners'[wire[i].id + 1] = wire[i].meant
  <2>1. wire[i].id < Len(owners) /\ owners[wire[i].id + 1] = wire[i].meant
    BY <1>1 DEF BackRefsFaithful
  <2>2. QED
    BY <1>1, <2>1, NewOwner, WireIds
<1>3. QED
  BY <1>2 DEF BackRefsFaithful

LEMMA EntryId ==
  ASSUME PinsTypeOK, NEW a \in Addr
  PROVE  /\ entry[a].id \in {NoEntry, Pending, Unshared} \cup Nat
         /\ HasId(a) => entry[a].id \in Nat
<1>1. entry[a] \in Entry
  BY DEF PinsTypeOK
<1>2. entry[a].id \in {NoEntry, Pending, Unshared} \cup Nat
  BY <1>1 DEF Entry
<1>3. QED
  BY <1>2 DEF HasId, NoEntry, Pending, Unshared

(* Ids name the entity of their entry, after a step that claims at most    *)
(* one, the next, for a.                                                   *)
LEMMA IdsStep ==
  ASSUME PinsInv, NEW a \in Addr, PinsTypeOK',
         \A i \in Nat : i < Len(owners) => owners'[i + 1] = owners[i + 1],
         Len(owners') >= Len(owners),
         \A b \in Addr : HasId(b)' =>
            \/ entry'[b] = entry[b]
            \/ /\ b = a
               /\ entry'[b].id = Len(owners)
               /\ Len(owners') = Len(owners) + 1
               /\ owners'[Len(owners) + 1] = entry'[b].entity
  PROVE  IdsOwned'
<1>1. PinsTypeOK /\ IdsOwned
  BY Parts DEF TableInv
<1>2. Len(owners) \in Nat /\ Len(owners') \in Nat
  BY <1>1 DEF PinsTypeOK
<1> DEFINE Fresh(b) == /\ b = a /\ entry'[b].id = Len(owners)
                       /\ Len(owners') = Len(owners) + 1
                       /\ owners'[Len(owners) + 1] = entry'[b].entity
           Old(b) == entry'[b] = entry[b] /\ HasId(b)
<1>3. \A b \in Addr : HasId(b)' => Old(b) \/ Fresh(b)
  BY DEF HasId
<1>4. \A b \in Addr : Old(b) => /\ entry[b].id \in Nat /\ entry[b].id < Len(owners)
                                /\ owners[entry[b].id + 1] = entry[b].entity
  BY <1>1, EntryId DEF IdsOwned
<1>5. ASSUME NEW b \in Addr, HasId(b)'
      PROVE  entry'[b].id < Len(owners') /\ owners'[entry'[b].id + 1] = entry'[b].entity
  <2>1. CASE Old(b)
    <3>1. entry'[b] = entry[b]
      BY <2>1
    <3>2. /\ entry[b].id \in Nat /\ entry[b].id < Len(owners)
          /\ owners[entry[b].id + 1] = entry[b].entity
      BY <1>4, <2>1
    <3> HIDE DEF Old, Fresh
    <3>3. QED
      BY <1>2, <3>1, <3>2
  <2>2. CASE Fresh(b)
    BY <1>2, <2>2
  <2>3. QED
    BY <1>3, <1>5, <2>1, <2>2
<1>6. ASSUME NEW b \in Addr, NEW c \in Addr, HasId(b)', entry'[b].id = entry'[c].id
      PROVE  b = c
  <2>1. HasId(c)'
    BY <1>6 DEF HasId
  <2>2. CASE Old(b) /\ Old(c)
    BY <1>1, <1>6, <2>2 DEF IdsOwned
  <2>3. CASE Old(b) /\ Fresh(c)
    BY <1>2, <1>4, <1>6, <2>3
  <2>4. CASE Fresh(b) /\ Old(c)
    BY <1>2, <1>4, <1>6, <2>4
  <2>5. QED
    BY <1>3, <1>6, <2>1, <2>2, <2>3, <2>4
<1>7. QED
  BY <1>5, <1>6 DEF IdsOwned, HasId

(* The table says more, and holds more, of what is alive.                  *)
LEMMA HoldMore ==
  ASSUME PinsInv, PinsTypeOK', UNCHANGED <<heapVars, copies, encoding>>,
         pinsActive => pinsActive', pinned \subseteq pinned',
         \A b \in Addr : Walked(b) => Walked(b)',
         \A b \in Addr : InTable(b)' => lives[b] = entry'[b].entity /\ lives[b] # 0,
         \A b \in pinned' : lives[b] # 0
  PROVE  HeapInv'
<1>1. PinsTypeOK /\ HeapInv
  BY Parts
<1>2. (\A b \in Immutable : lives[b] # 0)' /\ EntriesAlive' /\ CopiesHaveOwner'
  BY <1>1 DEF HeapInv, EntriesAlive, CopiesHaveOwner, heapVars
<1>3. ASSUME NEW b \in Addr \ Immutable PROVE lives'[b] # 0 <=> Refcount(b)' > 0
  <2>1. lives[b] # 0 <=> Refcount(b) > 0
    BY <1>1 DEF HeapInv, CountsBalance
  <2>2. b \in Addr /\ prog[b] \in Nat /\ copies[b] \in Nat
    BY <1>1, CountType
  <2>3. lives'[b] = lives[b] /\ prog'[b] = prog[b] /\ copies'[b] = copies[b]
    BY DEF heapVars
  <2>4. Refcount(b) > 0 => Refcount(b)' > 0
    BY <2>2, <2>3 DEF Refcount
  <2>5. Refcount(b)' > 0 => Refcount(b) > 0 \/ lives[b] # 0
    <3>1. Walked(b)' => InTable(b)'
      BY DEF Walked, InTable, Pending, NoEntry
    <3>2. QED
      BY <2>2, <2>3, <3>1 DEF Refcount
  <2>6. QED
    BY <2>1, <2>3, <2>4, <2>5
<1>4. QED
  BY <1>2, <1>3 DEF HeapInv, CountsBalance

(* Everything pinned is in the table.                                      *)
LEMMA PinnedInTable ==
  ASSUME TableInv, NEW b \in pinned
  PROVE  b \in Addr /\ InTable(b) /\ b \notin Immutable
BY DEF TableInv, PinsMatchTable

----------------------------------------------------------------------------
(* The encoder's steps.                                                    *)

LEMMA BackReferenceKeeps ==
  ASSUME PinsInv, NEW a \in Addr, BackReference(a)
  PROVE  PinsInv'
<1>1. PinsTypeOK /\ HeapInv /\ TableInv /\ HookInv
  BY Parts
<1>2. lives[a] \in Nat /\ entry[a].id \in Nat /\ wire \in Seq([id : Nat, meant : Nat])
  BY <1>1, CountType, EntryId DEF PinsTypeOK, BackReference
<1> DEFINE r == [id |-> entry[a].id, meant |-> lives[a]]
<1>3. r \in [id : Nat, meant : Nat] /\ r.id = entry[a].id /\ r.meant = lives[a]
  BY <1>2
<1>4. wire' = Append(wire, r)
  BY DEF BackReference
<1> HIDE DEF r
<1>5. /\ wire' \in Seq([id : Nat, meant : Nat])
      /\ \A i \in DOMAIN wire' : wire'[i] = r \/ (i \in DOMAIN wire /\ wire'[i] = wire[i])
  BY <1>2, <1>3, <1>4
<1>6. PinsTypeOK'
  BY <1>1, <1>5 DEF PinsTypeOK, BackReference, heapVars
<1>7. r.id < Len(owners) /\ owners[r.id + 1] = r.meant
  <2>1. InTable(a)
    BY DEF BackReference, HasId, InTable, NoEntry
  <2>2. lives[a] = entry[a].entity
    BY <1>1, <2>1 DEF HeapInv, EntriesAlive
  <2>3. QED
    BY <1>1, <1>3, <2>2 DEF TableInv, IdsOwned, BackReference
<1>8. BackRefsFaithful'
  BY <1>1, <1>5, <1>7 DEF TableInv, BackRefsFaithful, BackReference
<1>9. TableInv'
  BY <1>1, <1>8 DEF TableInv, PinsMatchTable, OpenArraysPending, IdsOwned,
     BackReference, Walked, InTable, HasId
<1>10. HookInv'
  BY <1>1, NoHookRuns DEF HookInv, NewestIdIsHooks, BackReference, Reaches
<1>11. HeapInv'
  BY <1>1 DEF HeapInv, EntriesAlive, CountsBalance, CopiesHaveOwner, BackReference,
     heapVars, InTable, Walked, Refcount
<1>12. QED
  BY <1>6, <1>9, <1>10, <1>11, PartsNext

LEMMA VisitTrackedKeeps ==
  ASSUME PinsInv, NEW a \in Addr, VisitTracked(a)
  PROVE  PinsInv'
<1>1. PinsTypeOK /\ HeapInv /\ TableInv /\ HookInv
  BY Parts
<1>2. lives[a] \in Nat /\ lives[a] # 0 /\ ~ InTable(a) /\ Len(owners) \in Nat
  BY <1>1, CountType DEF VisitTracked, Reaches, PinsTypeOK
<1> DEFINE e == [id |-> Len(owners), entity |-> lives[a]]
<1>3. e \in Entry /\ e.id = Len(owners) /\ e.entity = lives[a]
  BY <1>1, <1>2, NewEntry
<1>4. entry' = [entry EXCEPT ![a] = e] /\ owners' = Append(owners, lives[a])
  BY DEF VisitTracked, EntryFor, NewId, TakeId
<1> HIDE DEF e
<1>5. /\ entry' \in [Addr -> Entry] /\ entry'[a] = e
      /\ \A b \in Addr : b # a => entry'[b] = entry[b]
  BY <1>1, <1>3, <1>4, EntrySet
<1>6. /\ owners' \in Seq(Nat) /\ Len(owners') = Len(owners) + 1
      /\ owners'[Len(owners) + 1] = lives[a]
      /\ \A i \in Nat : i < Len(owners) => owners'[i + 1] = owners[i + 1]
  BY <1>1, <1>2, <1>4, NewOwner
<1>7. pinned' = IF pinsActive THEN pinned \cup ({a} \ Immutable) ELSE pinned
  BY DEF VisitTracked, PinIfActive
<1>8. PinsTypeOK'
  BY <1>1, <1>5, <1>6, <1>7 DEF PinsTypeOK, VisitTracked, heapVars
<1>9. \A b \in Addr : InTable(b)' <=> InTable(b) \/ b = a
  BY <1>2, <1>3, <1>5 DEF InTable, NoEntry
<1>10. \A b \in Addr : Walked(b)' <=> Walked(b)
  BY <1>2, <1>3, <1>5 DEF InTable, Walked, NoEntry, Pending
<1>11. HeapInv'
  <2>1. \A b \in pinned' : lives[b] # 0
    BY <1>1, <1>2, <1>7, PinnedInTable DEF HeapInv, EntriesAlive
  <2>2. \A b \in Addr : InTable(b)' => lives[b] = entry'[b].entity /\ lives[b] # 0
    BY <1>1, <1>2, <1>3, <1>5, <1>9 DEF HeapInv, EntriesAlive
  <2>3. QED
    BY <1>7, <1>8, <1>10, <2>1, <2>2, HoldMore DEF VisitTracked
<1>12. TableInv'
  <2>1. PinsMatchTable'
    BY <1>1, <1>7, <1>9 DEF TableInv, PinsMatchTable, VisitTracked
  <2>2. (\A b \in Addr : Walked(b) => \E i \in DOMAIN open : open[i] = b)' /\ OpenArraysPending'
    BY <1>1, <1>10 DEF TableInv, OpenArraysPending, VisitTracked, PinsTypeOK
  <2>3. IdsOwned'
    BY <1>2, <1>3, <1>5, <1>6, <1>8, IdsStep
  <2>4. BackRefsFaithful'
    BY <1>2, <1>4, OlderBackRefs DEF VisitTracked
  <2>5. QED
    BY <2>1, <2>2, <2>3, <2>4 DEF TableInv
<1>13. HookInv'
  BY <1>1, NoHookRuns DEF HookInv, NewestIdIsHooks, VisitTracked, Reaches
<1>14. QED
  BY <1>8, <1>11, <1>12, <1>13, PartsNext

LEMMA VisitUniqueKeeps ==
  ASSUME PinsInv, NEW a \in Addr, VisitUnique(a)
  PROVE  PinsInv'
<1>1. PinsTypeOK /\ HeapInv /\ TableInv /\ HookInv
  BY Parts
<1>2. lives[a] \in Nat /\ Len(owners) \in Nat
  BY <1>1, CountType DEF PinsTypeOK
<1>3. owners' = Append(owners, lives[a]) /\ entry' = entry
  BY DEF VisitUnique, TakeId
<1>4. /\ owners' \in Seq(Nat) /\ Len(owners') = Len(owners) + 1
      /\ \A i \in Nat : i < Len(owners) => owners'[i + 1] = owners[i + 1]
  BY <1>1, <1>2, <1>3, NewOwner
<1>5. PinsTypeOK'
  BY <1>1, <1>4 DEF PinsTypeOK, VisitUnique, heapVars
<1>6. IdsOwned'
  BY <1>2, <1>3, <1>4, <1>5, IdsStep
<1>7. BackRefsFaithful'
  BY <1>2, <1>3, OlderBackRefs DEF VisitUnique
<1>8. TableInv'
  BY <1>1, <1>6, <1>7 DEF TableInv, PinsMatchTable, OpenArraysPending, VisitUnique,
     Walked, InTable
<1>9. HookInv'
  BY <1>1, NoHookRuns DEF HookInv, NewestIdIsHooks, VisitUnique, Reaches
<1>10. HeapInv'
  BY <1>1 DEF HeapInv, EntriesAlive, CountsBalance, CopiesHaveOwner, VisitUnique,
     heapVars, InTable, Walked, Refcount
<1>11. QED
  BY <1>5, <1>8, <1>9, <1>10, PartsNext

LEMMA ArrayBeginKeeps ==
  ASSUME PinsInv, NEW a \in Addr, ArrayBegin(a)
  PROVE  PinsInv'
<1>1. PinsTypeOK /\ HeapInv /\ TableInv /\ HookInv
  BY Parts
<1>2. lives[a] \in Nat /\ lives[a] # 0 /\ ~ Walked(a) /\ Len(owners) \in Nat
  BY <1>1, CountType DEF ArrayBegin, Reaches, Walked, NoEntry, Pending, Unshared, PinsTypeOK
<1> DEFINE e == [id |-> Pending, entity |-> lives[a]]
<1>3. e \in Entry /\ e.id = Pending /\ e.entity = lives[a]
  BY <1>1, NewEntry
<1>4. entry' = [entry EXCEPT ![a] = e] /\ owners' = owners /\ open' = Append(open, a)
  BY DEF ArrayBegin, EntryFor
<1> HIDE DEF e
<1>5. /\ entry' \in [Addr -> Entry] /\ entry'[a] = e
      /\ \A b \in Addr : b # a => entry'[b] = entry[b]
  BY <1>1, <1>3, <1>4, EntrySet
<1>6. open \in Seq(Addr)
  BY <1>1 DEF PinsTypeOK
<1>7. /\ open' \in Seq(Addr) /\ open'[Len(open) + 1] = a
      /\ \A i \in DOMAIN open : i \in DOMAIN open' /\ open'[i] = open[i]
      /\ \A i \in DOMAIN open' : i = Len(open) + 1 \/ (i \in DOMAIN open /\ open'[i] = open[i])
      /\ Len(open) + 1 \in DOMAIN open'
  BY <1>4, <1>6
<1>8. pinned' = IF pinsActive THEN pinned \cup ({a} \ Immutable) ELSE pinned
  BY DEF ArrayBegin, PinIfActive
<1>9. PinsTypeOK'
  BY <1>1, <1>5, <1>7, <1>8 DEF PinsTypeOK, ArrayBegin, heapVars
<1>10. \A b \in Addr : InTable(b)' <=> InTable(b) \/ b = a
  BY <1>3, <1>5 DEF InTable, NoEntry, Pending
<1>11. \A b \in Addr : Walked(b)' <=> Walked(b) \/ b = a
  BY <1>3, <1>5 DEF Walked
<1>12. HeapInv'
  <2>1. \A b \in pinned' : lives[b] # 0
    BY <1>1, <1>2, <1>8, PinnedInTable DEF HeapInv, EntriesAlive
  <2>2. \A b \in Addr : InTable(b)' => lives[b] = entry'[b].entity /\ lives[b] # 0
    BY <1>1, <1>2, <1>3, <1>5, <1>10 DEF HeapInv, EntriesAlive
  <2>3. QED
    BY <1>8, <1>9, <1>11, <2>1, <2>2, HoldMore DEF ArrayBegin
<1>13. TableInv'
  <2>1. PinsMatchTable'
    BY <1>1, <1>8, <1>10 DEF TableInv, PinsMatchTable, ArrayBegin
  <2>2. \A b \in Addr : Walked(b)' => \E i \in DOMAIN open' : open'[i] = b
    BY <1>1, <1>7, <1>11 DEF TableInv
  <2>3. OpenArraysPending'
    <3>1. \A i \in DOMAIN open : open[i] \in Addr /\ Walked(open[i])
      BY <1>1, <1>6, ElementOfSeq, LenProperties DEF TableInv, OpenArraysPending
    <3>2. \A i \in DOMAIN open : open[i] # a
      BY <1>2, <3>1
    <3>3. \A i, j \in DOMAIN open : open[i] = open[j] => i = j
      BY <1>1 DEF TableInv, OpenArraysPending
    <3>4. \A i \in DOMAIN open' : entry'[open'[i]].id = Pending
      BY <1>3, <1>5, <1>7, <3>1 DEF Walked
    <3>5. \A i, j \in DOMAIN open' : open'[i] = open'[j] => i = j
      BY <1>7, <3>2, <3>3
    <3>6. QED
      BY <3>4, <3>5 DEF OpenArraysPending, Walked
  <2>4. IdsOwned'
    <3>1. \A b \in Addr : HasId(b)' => entry'[b] = entry[b]
      BY <1>3, <1>5 DEF HasId, Pending
    <3>2. QED
      BY <1>2, <1>4, <1>9, <3>1, IdsStep
  <2>5. BackRefsFaithful'
    BY <1>1 DEF TableInv, BackRefsFaithful, ArrayBegin
  <2>6. QED
    BY <2>1, <2>2, <2>3, <2>4, <2>5 DEF TableInv, Walked
<1>14. HookInv'
  BY <1>1, NoHookRuns DEF HookInv, NewestIdIsHooks, ArrayBegin, Reaches
<1>15. QED
  BY <1>9, <1>12, <1>13, <1>14, PartsNext

(* An array that is walked is not freed by the end of its walk: before     *)
(* pins are active the graph still has it, afterwards its entry does.      *)
LEMMA WalkedArrayStays ==
  ASSUME PinsInv, encoding, NEW a \in Addr, Walked(a)
  PROVE  lives[a] # 0 /\ ~ Dies(a)
<1>1. PinsTypeOK /\ HeapInv /\ TableInv /\ HookInv
  BY Parts
<1>2. InTable(a)
  BY DEF Walked, InTable, Pending, NoEntry
<1>3. lives[a] # 0
  BY <1>1, <1>2 DEF HeapInv, EntriesAlive
<1>4. CASE ~ pinsActive
  <2>1. prog[a] > 0 /\ prog[a] \in Nat /\ Refcount(a) \in Nat /\ Refcount(a) >= prog[a] + 1
    BY <1>1, <1>3, <1>4, CountType DEF HeapInv, CopiesHaveOwner
  <2>2. QED
    BY <1>3, <2>1 DEF Dies
<1>5. CASE pinsActive /\ a \notin Immutable
  <2>1. a \in pinned
    BY <1>1, <1>2, <1>5, EntryPinned
  <2>2. prog[a] \in Nat /\ copies[a] \in Nat
    BY <1>1, CountType
  <2>3. Refcount(a) >= 2
    BY <2>1, <2>2 DEF Refcount
  <2>4. QED
    BY <1>3, <2>3 DEF Dies
<1>6. QED
  BY <1>3, <1>4, <1>5 DEF Dies

LEMMA ArrayEndKeeps ==
  ASSUME PinsInv, NEW shareable \in BOOLEAN, ArrayEnd(shareable)
  PROVE  PinsInv'
<1>1. PinsTypeOK /\ HeapInv /\ TableInv /\ HookInv
  BY Parts
<1>2. open \in Seq(Addr) /\ owners \in Seq(Nat) /\ Len(owners) \in Nat /\ open # <<>>
  BY <1>1 DEF PinsTypeOK, ArrayEnd
<1> DEFINE n == Len(open)
<1>3. n \in Nat /\ n > 0 /\ n \in DOMAIN open /\ DOMAIN open = 1 .. n
  BY <1>2
<1>4. PICK a \in Addr : a = open[n] /\ Walked(a)
  BY <1>1, <1>2, <1>3, ElementOfSeq DEF TableInv, OpenArraysPending
<1> DEFINE e == [id |-> IF shareable THEN Len(owners) ELSE Unshared, entity |-> entry[a].entity]
<1>5. /\ open' = SubSeq(open, 1, n - 1)
      /\ entry' = [entry EXCEPT ![a].id = IF shareable THEN Len(owners) ELSE Unshared]
      /\ owners' = IF shareable THEN Append(owners, lives[a]) ELSE owners
      /\ DropRef(a)
      /\ encoding /\ ~ userCode
      /\ UNCHANGED <<allocated, prog, copies, pinsActive, pinned, wire, hook, userCode, encoding>>
  BY <1>4 DEF ArrayEnd, NewId
<1>6. /\ open' \in Seq(Addr) /\ DOMAIN open' = 1 .. n - 1
      /\ \A i \in 1 .. n - 1 : open'[i] = open[i]
  BY <1>2, <1>3, <1>5
<1> HIDE DEF n
<1>7. entry[a] \in Entry /\ entry \in [Addr -> Entry] /\ entry[a].id = Pending
  BY <1>1, <1>4 DEF PinsTypeOK, Walked
<1>8. e \in Entry /\ e.entity = entry[a].entity
      /\ e.id = IF shareable THEN Len(owners) ELSE Unshared
  BY <1>2, <1>7 DEF Entry
<1>9. entry' = [entry EXCEPT ![a] = e]
  <2>1. [entry[a] EXCEPT !.id = IF shareable THEN Len(owners) ELSE Unshared] = e
    BY <1>7 DEF Entry
  <2>2. QED
    BY <1>5, <1>7, <2>1
<1> HIDE DEF e
<1>10. /\ entry' \in [Addr -> Entry] /\ entry'[a] = e
       /\ \A b \in Addr : b # a => entry'[b] = entry[b]
  BY <1>1, <1>4, <1>8, <1>9, EntrySet
<1>11. lives' = lives /\ lives[a] # 0 /\ ~ Dies(a)
  BY <1>1, <1>4, <1>5, WalkedArrayStays, DropRefEffect
<1>12. InTable(a) /\ lives[a] = entry[a].entity /\ lives[a] \in Nat
  BY <1>1, <1>4, CountType DEF Walked, InTable, Pending, NoEntry, HeapInv, EntriesAlive
<1>13. /\ owners' \in Seq(Nat) /\ Len(owners') >= Len(owners)
       /\ \A i \in Nat : i < Len(owners) => owners'[i + 1] = owners[i + 1]
       /\ shareable => Len(owners') = Len(owners) + 1 /\ owners'[Len(owners) + 1] = lives[a]
  <2>1. CASE shareable
    BY <1>1, <1>2, <1>5, <1>12, <2>1, NewOwner
  <2>2. CASE ~ shareable
    BY <1>2, <1>5, <2>2
  <2>3. QED
    BY <2>1, <2>2
<1>14. PinsTypeOK'
  BY <1>1, <1>5, <1>6, <1>10, <1>11, <1>13 DEF PinsTypeOK
<1>15. \A b \in Addr : InTable(b)' <=> InTable(b)
  BY <1>2, <1>8, <1>10, <1>12 DEF InTable, NoEntry, Unshared
<1>16. \A b \in Addr : Walked(b)' <=> Walked(b) /\ b # a
  BY <1>2, <1>8, <1>10 DEF Walked, Pending, Unshared
<1>17. HeapInv'
  <2>1. (\A b \in Immutable : lives[b] # 0)' /\ EntriesAlive' /\ CopiesHaveOwner'
    BY <1>1, <1>5, <1>8, <1>10, <1>11, <1>15 DEF HeapInv, EntriesAlive, CopiesHaveOwner
  <2>2. ASSUME NEW b \in Addr \ Immutable PROVE lives'[b] # 0 <=> Refcount(b)' > 0
    <3>1. prog[b] \in Nat /\ copies[b] \in Nat /\ Refcount(b) \in Nat
      BY <1>1, CountType
    <3>2. lives[b] # 0 <=> Refcount(b) > 0
      BY <1>1 DEF HeapInv, CountsBalance
    <3>3. Refcount(b)' = IF a = b THEN Refcount(b) - 1 ELSE Refcount(b)
      BY <1>4, <1>5, <1>16, <3>1 DEF Refcount
    <3>4. a = b => Refcount(b) # 1
      BY <1>11 DEF Dies
    <3>5. QED
      BY <1>11, <3>1, <3>2, <3>3, <3>4
  <2>3. QED
    BY <2>1, <2>2 DEF HeapInv, CountsBalance
<1>18. TableInv'
  <2>1. PinsMatchTable'
    BY <1>1, <1>5, <1>15 DEF TableInv, PinsMatchTable
  <2>2. \A i, j \in 1 .. n : open[i] = open[j] => i = j
    BY <1>1, <1>3 DEF TableInv, OpenArraysPending, n
  <2>3. \A b \in Addr : Walked(b)' => \E i \in DOMAIN open' : open'[i] = b
    <3> SUFFICES ASSUME NEW b \in Addr, Walked(b), b # a
                 PROVE  \E i \in DOMAIN open' : open'[i] = b
      BY <1>16
    <3>1. PICK i \in 1 .. n : open[i] = b
      BY <1>1, <1>3 DEF TableInv, n
    <3>2. i # n
      BY <1>4, <3>1
    <3>3. QED
      BY <1>3, <1>6, <3>1, <3>2
  <2>4. OpenArraysPending'
    <3>1. \A i \in 1 .. n - 1 : open[i] \in Addr /\ open[i] # a /\ Walked(open[i])
      BY <1>1, <1>2, <1>3, <1>4, <2>2, ElementOfSeq DEF TableInv, OpenArraysPending, n
    <3>2. \A i \in DOMAIN open' : entry'[open'[i]].id = Pending
      BY <1>6, <1>10, <3>1 DEF Walked
    <3>3. \A i, j \in DOMAIN open' : open'[i] = open'[j] => i = j
      BY <1>3, <1>6, <2>2 DEF n
    <3>4. QED
      BY <3>2, <3>3 DEF OpenArraysPending, Walked
  <2>5. IdsOwned'
    <3>1. shareable => entry'[a].id = Len(owners) /\ owners'[Len(owners) + 1] = entry'[a].entity
      BY <1>8, <1>10, <1>12, <1>13
    <3>2. ~ shareable => ~ HasId(a)'
      BY <1>8, <1>10 DEF HasId, Unshared
    <3>3. QED
      BY <1>4, <1>10, <1>13, <1>14, <3>1, <3>2, IdsStep
  <2>6. BackRefsFaithful'
    <3>1. CASE shareable
      BY <1>5, <1>12, <3>1, OlderBackRefs
    <3>2. CASE ~ shareable
      BY <1>1, <1>5, <3>2 DEF TableInv, BackRefsFaithful
    <3>3. QED
      BY <3>1, <3>2
  <2>7. QED
    BY <2>1, <2>3, <2>4, <2>5, <2>6 DEF TableInv, Walked
<1>19. HookInv'
  BY <1>1, <1>5, NoHookRuns DEF HookInv, NewestIdIsHooks
<1>20. QED
  BY <1>14, <1>17, <1>18, <1>19, PartsNext

LEMMA CopyKeeps ==
  ASSUME PinsInv, NEW a \in Addr, Copy(a)
  PROVE  PinsInv'
<1>1. PinsTypeOK /\ HeapInv /\ TableInv /\ HookInv
  BY Parts
<1>2. copies \in [Addr -> Nat]
  BY <1>1 DEF PinsTypeOK
<1>3. /\ copies' \in [Addr -> Nat]
      /\ \A b \in Addr : copies'[b] = IF a = b THEN copies[b] + 1 ELSE copies[b]
  BY <1>2 DEF Copy
<1>4. PinsTypeOK'
  BY <1>1, <1>3 DEF PinsTypeOK, Copy, heapVars, tableVars
<1>5. TableInv' /\ HookInv'
  BY <1>1, NoHookRuns, TableAlone, HookAlone DEF Copy, Reaches
<1>6. (\A b \in Immutable : lives[b] # 0)' /\ EntriesAlive' /\ CopiesHaveOwner'
  BY <1>1 DEF HeapInv, EntriesAlive, CopiesHaveOwner, Copy, heapVars, tableVars, InTable
<1>7. ASSUME NEW b \in Addr \ Immutable PROVE lives'[b] # 0 <=> Refcount(b)' > 0
  <2>1. prog[b] \in Nat /\ copies[b] \in Nat /\ Refcount(b) \in Nat
    BY <1>1, CountType
  <2>2. lives[b] # 0 <=> Refcount(b) > 0
    BY <1>1 DEF HeapInv, CountsBalance
  <2>3. Refcount(b)' = IF a = b THEN Refcount(b) + 1 ELSE Refcount(b)
    BY <1>3, <2>1 DEF Refcount, Walked, Copy, heapVars, tableVars
  <2>4. lives'[b] = lives[b] /\ lives[a] # 0
    BY DEF Copy, heapVars, Reaches
  <2>5. QED
    BY <2>1, <2>2, <2>3, <2>4
<1>8. QED
  BY <1>4, <1>5, <1>6, <1>7, PartsNext DEF HeapInv, CountsBalance

(* Without pins the program still holds what is copied, so that the count  *)
(* can go down by one and no more; with pins only what no entry names can  *)
(* be freed.                                                               *)
LEMMA ReleaseCopyKeeps ==
  ASSUME PinsInv, NEW a \in Addr, ReleaseCopy(a)
  PROVE  PinsInv'
<1>1. PinsTypeOK /\ HeapInv /\ TableInv /\ HookInv
  BY Parts
<1>2. copies \in [Addr -> Nat] /\ copies[a] > 0 /\ copies[a] \in Nat /\ lives \in [Addr -> Nat]
  BY <1>1 DEF PinsTypeOK, ReleaseCopy
<1>3. /\ copies' \in [Addr -> Nat]
      /\ \A b \in Addr : copies'[b] = IF a = b THEN copies[b] - 1 ELSE copies[b]
  BY <1>2 DEF ReleaseCopy
<1>4. lives' \in [Addr -> Nat] /\ (\A b \in Addr : b # a => lives'[b] = lives[b])
  <2>1. CASE pinsActive
    BY <1>1, <2>1, DropRefEffect DEF ReleaseCopy
  <2>2. CASE ~ pinsActive
    BY <1>2, <2>2 DEF ReleaseCopy
  <2>3. QED
    BY <2>1, <2>2
<1>5. lives'[a] = IF pinsActive /\ Dies(a) THEN 0 ELSE lives[a]
  BY <1>1, DropRefEffect DEF ReleaseCopy
<1>6. PinsTypeOK'
  BY <1>1, <1>3, <1>4 DEF PinsTypeOK, ReleaseCopy, tableVars
<1>7. TableInv' /\ HookInv'
  <2>1. hook = NoHook
    BY <1>1, NoHookRuns DEF ReleaseCopy
  <2>2. userCode' => pinsActive
    BY DEF ReleaseCopy
  <2>3. UNCHANGED <<tableVars, pinsActive, pinned, hook>>
    BY DEF ReleaseCopy
  <2>4. QED
    BY <2>1, <2>2, <2>3, TableAlone, HookAlone
<1>8. (InTable(a) \/ a \in Immutable) /\ pinsActive => ~ Dies(a)
  <2> SUFFICES ASSUME InTable(a), a \notin Immutable, pinsActive PROVE ~ Dies(a)
    BY DEF Dies
  <2>1. a \in pinned
    BY <1>1, EntryPinned
  <2>2. Refcount(a) >= copies[a] + 1 /\ Refcount(a) \in Nat
    BY <1>1, <2>1, CountType
  <2>3. QED
    BY <1>2, <2>2 DEF Dies
<1>9. (\A b \in Immutable : lives[b] # 0)'
  BY <1>1, <1>4, <1>5, <1>8, PinsAssumption DEF HeapInv
<1>10. EntriesAlive'
  BY <1>1, <1>4, <1>5, <1>8 DEF HeapInv, EntriesAlive, InTable, ReleaseCopy, tableVars
<1>11. CopiesHaveOwner'
  BY <1>1 DEF HeapInv, CopiesHaveOwner, ReleaseCopy
<1>12. ASSUME NEW b \in Addr \ Immutable PROVE lives'[b] # 0 <=> Refcount(b)' > 0
  <2>1. prog[b] \in Nat /\ copies[b] \in Nat /\ Refcount(b) \in Nat
    BY <1>1, CountType
  <2>2. lives[b] # 0 <=> Refcount(b) > 0
    BY <1>1 DEF HeapInv, CountsBalance
  <2>3. Refcount(b)' = IF a = b THEN Refcount(b) - 1 ELSE Refcount(b)
    BY <1>3, <2>1 DEF Refcount, Walked, ReleaseCopy, tableVars
  <2>4. CASE a # b
    BY <1>4, <2>2, <2>3, <2>4
  <2>5. CASE a = b /\ pinsActive
    <3>1. Dies(b) <=> Refcount(b) = 1
      BY DEF Dies
    <3>2. Refcount(b) >= copies[b]
      BY <1>1, CountType
    <3>3. QED
      BY <1>2, <1>5, <2>1, <2>2, <2>3, <2>5, <3>1, <3>2
  <2>6. CASE a = b /\ ~ pinsActive
    <3>1. Refcount(b) >= copies[b]
      BY <1>1, CountType
    <3>2. lives[b] # 0
      BY <1>2, <2>1, <2>2, <2>6, <3>1
    <3>3. prog[b] > 0
      BY <1>1, <2>6, <3>2 DEF HeapInv, CopiesHaveOwner, ReleaseCopy
    <3>4. Refcount(b) >= prog[b] + copies[b]
      BY <2>1 DEF Refcount
    <3>5. QED
      BY <1>2, <1>5, <2>1, <2>3, <2>6, <3>2, <3>3, <3>4
  <2>7. QED
    BY <2>4, <2>5, <2>6
<1>13. QED
  BY <1>6, <1>7, <1>9, <1>10, <1>11, <1>12, PartsNext DEF HeapInv, CountsBalance

----------------------------------------------------------------------------
(* Hooks.                                                                  *)

LEMMA CallHookKeeps ==
  ASSUME PinsInv, NEW a \in Addr, NEW tracked \in BOOLEAN, CallHook(a, tracked)
  PROVE  PinsInv'
<1>1. PinsTypeOK /\ HeapInv /\ TableInv /\ HookInv
  BY Parts
<1>2. lives[a] \in Nat /\ lives[a] # 0 /\ ~ InTable(a) /\ Len(owners) \in Nat
  BY <1>1, CountType DEF CallHook, Reaches, PinsTypeOK
<1> DEFINE e == [id |-> Len(owners), entity |-> lives[a]]
<1>3. e \in Entry /\ e.id = Len(owners) /\ e.entity = lives[a]
  BY <1>1, <1>2, NewEntry
<1>4. /\ entry' = IF tracked THEN [entry EXCEPT ![a] = e] ELSE entry
      /\ owners' = Append(owners, lives[a])
      /\ pinsActive' = TRUE
      /\ pinned' = ({b \in Addr : InTable(b)} \cup (IF tracked THEN {a} ELSE {})) \ Immutable
  BY DEF CallHook, EntryFor, NewId, TakeId, Activate
<1> HIDE DEF e
<1>5. /\ entry' \in [Addr -> Entry] /\ (tracked => entry'[a] = e)
      /\ \A b \in Addr : b # a \/ ~ tracked => entry'[b] = entry[b]
  <2>1. CASE tracked
    BY <1>1, <1>3, <1>4, <2>1, EntrySet
  <2>2. CASE ~ tracked
    BY <1>1, <1>4, <2>2 DEF PinsTypeOK
  <2>3. QED
    BY <2>1, <2>2
<1>6. /\ owners' \in Seq(Nat) /\ Len(owners') = Len(owners) + 1
      /\ owners'[Len(owners) + 1] = lives[a]
      /\ \A i \in Nat : i < Len(owners) => owners'[i + 1] = owners[i + 1]
  BY <1>1, <1>2, <1>4, NewOwner
<1>7. hook' = a /\ a \notin Immutable /\ userCode' = TRUE
  BY DEF CallHook
<1>8. PinsTypeOK'
  BY <1>1, <1>4, <1>5, <1>6, <1>7 DEF PinsTypeOK, CallHook, heapVars
<1>9. \A b \in Addr : InTable(b)' <=> InTable(b) \/ (tracked /\ b = a)
  BY <1>2, <1>3, <1>5 DEF InTable, NoEntry
<1>10. \A b \in Addr : Walked(b)' <=> Walked(b)
  BY <1>2, <1>3, <1>5 DEF InTable, Walked, NoEntry, Pending
<1>11. HeapInv'
  <2>1. \A b \in Addr : InTable(b)' => lives[b] = entry'[b].entity /\ lives[b] # 0
    <3>1. ASSUME NEW b \in Addr, InTable(b), b # a
          PROVE  lives[b] = entry'[b].entity /\ lives[b] # 0
      BY <1>1, <1>5, <3>1 DEF HeapInv, EntriesAlive
    <3>2. tracked => lives[a] = entry'[a].entity
      BY <1>3, <1>5
    <3>3. QED
      BY <1>2, <1>9, <3>1, <3>2
  <2>2. \A b \in pinned' : b \in Addr /\ InTable(b)'
    BY <1>4, <1>9
  <2>3. pinned \subseteq pinned'
    BY <1>1, <1>4, PinnedInTable
  <2>4. \A b \in pinned' : lives[b] # 0
    BY <2>1, <2>2
  <2>5. QED
    BY <1>4, <1>8, <1>10, <2>1, <2>3, <2>4, HoldMore DEF CallHook
<1>12. TableInv'
  <2>1. PinsMatchTable'
    BY <1>4, <1>9 DEF PinsMatchTable
  <2>2. (\A b \in Addr : Walked(b) => \E i \in DOMAIN open : open[i] = b)' /\ OpenArraysPending'
    BY <1>1, <1>10 DEF TableInv, OpenArraysPending, CallHook, PinsTypeOK
  <2>3. IdsOwned'
    <3>1. tracked => entry'[a].id = Len(owners) /\ owners'[Len(owners) + 1] = entry'[a].entity
      BY <1>3, <1>5, <1>6
    <3>2. QED
      BY <1>2, <1>5, <1>6, <1>8, <3>1, IdsStep
  <2>4. BackRefsFaithful'
    BY <1>2, <1>4, OlderBackRefs DEF CallHook
  <2>5. QED
    BY <2>1, <2>2, <2>3, <2>4 DEF TableInv
<1>13. HookInv'
  <2>1. \A b \in Addr : entry[b].id # Len(owners)
    BY <1>1, <1>2 DEF TableInv, IdsOwned, HasId
  <2>2. \A b \in Addr : entry'[b].id = Len(owners) => b = a
    BY <1>5, <2>1
  <2>3. InTable(a)' => entry'[a].id = Len(owners)
    BY <1>2, <1>3, <1>5, <1>9
  <2>4. \A i \in DOMAIN wire' : wire'[i].id # Len(owners)
    BY <1>1, <1>2 DEF TableInv, BackRefsFaithful, CallHook
  <2>5. Len(owners') - 1 = Len(owners)
    BY <1>2, <1>6
  <2>6. NewestIdIsHooks'
    BY <1>2, <1>6, <1>7, <2>2, <2>3, <2>4, <2>5 DEF NewestIdIsHooks, InTable
  <2>7. QED
    BY <1>4, <2>6 DEF HookInv
<1>14. QED
  BY <1>8, <1>11, <1>12, <1>13, PartsNext

(* Nothing changes but whose turn it is.                                   *)
LEMMA TurnKeeps ==
  ASSUME PinsInv, Resume \/ HookReturns
  PROVE  PinsInv'
<1>1. PinsTypeOK /\ HeapInv /\ TableInv /\ HookInv
  BY Parts
<1>2. /\ UNCHANGED <<heapVars, copies, tableVars, pinsActive, pinned, encoding>>
      /\ userCode' = FALSE /\ hook' = NoHook
  BY DEF Resume, HookReturns
<1>3. PinsTypeOK'
  BY <1>1, <1>2 DEF PinsTypeOK, heapVars, tableVars
<1>4. TableInv' /\ HookInv'
  BY <1>2, TableAlone, HookAlone
<1>5. HeapInv'
  BY <1>1, <1>2 DEF HeapInv, EntriesAlive, CountsBalance, CopiesHaveOwner, InTable,
     Walked, Refcount, heapVars, tableVars
<1>6. QED
  BY <1>3, <1>4, <1>5, PartsNext

(* The hook's object gives back the newest id, which no entry but its own  *)
(* and no back-reference names, and its pin, which only the table holds.   *)
LEMMA HookFailsKeeps ==
  ASSUME PinsInv, HookFails
  PROVE  PinsInv'
<1>1. PinsTypeOK /\ HeapInv /\ TableInv /\ HookInv
  BY Parts
<1> DEFINE n == Len(owners)
           tracked == InTable(hook)
<1>2. /\ hook \in Addr \ Immutable /\ owners \in Seq(Nat) /\ n \in Nat /\ n > 0
      /\ entry \in [Addr -> Entry]
  BY <1>1 DEF PinsTypeOK, HookFails, HookInv, NewestIdIsHooks
<1>3. /\ owners' = SubSeq(owners, 1, n - 1)
      /\ entry' = IF tracked THEN [entry EXCEPT ![hook] = Vacant] ELSE entry
      /\ pinned' = IF tracked THEN pinned \ {hook} ELSE pinned
      /\ IF tracked THEN DropRef(hook) ELSE UNCHANGED lives
      /\ hook' = NoHook
      /\ UNCHANGED <<allocated, prog, copies, open, pinsActive, wire, userCode, encoding>>
  BY DEF HookFails, Unvisit
<1>4. /\ userCode /\ pinsActive
      /\ tracked => entry[hook].id = n - 1
      /\ \A b \in Addr : entry[b].id = n - 1 => b = hook
      /\ \A i \in DOMAIN wire : wire[i].id # n - 1
  BY <1>1, <1>3 DEF HookInv, NewestIdIsHooks, HookFails
<1>5. /\ owners' \in Seq(Nat) /\ Len(owners') = n - 1
      /\ \A i \in Nat : i < n - 1 => owners'[i + 1] = owners[i + 1]
  <2>1. n - 1 \in 0 .. n /\ n - 1 - 1 + 1 = n - 1
    BY <1>2
  <2>2. \A i \in Nat : i < n - 1 => i + 1 \in 1 .. n - 1 /\ 1 + (i + 1) - 1 = i + 1
    BY <1>2
  <2>3. \A i \in 1 .. n - 1 : i \in 1 .. n
    BY <1>2
  <2> HIDE DEF n
  <2>4. owners' \in Seq(Nat) /\ Len(owners') = n - 1
    BY <1>2, <1>3, <2>1, SubSeqProperties DEF n
  <2>5. \A i \in 1 .. n - 1 : owners'[i] = owners[i]
    BY <1>2, <1>3 DEF n
  <2>6. QED
    BY <2>2, <2>4, <2>5
<1> HIDE DEF n
<1>6. Vacant \in Entry /\ Vacant.id = NoEntry
  BY DEF Vacant, Entry
<1>7. /\ entry' \in [Addr -> Entry] /\ (tracked => entry'[hook] = Vacant)
      /\ \A b \in Addr : b # hook \/ ~ tracked => entry'[b] = entry[b]
  BY <1>2, <1>3, <1>6
<1>8. \A b \in Addr : entry'[b].id = IF b = hook THEN NoEntry ELSE entry[b].id
  BY <1>2, <1>6, <1>7 DEF InTable
<1>9. /\ tracked => ~ Walked(hook) /\ hook \in pinned
      /\ \A b \in Addr : InTable(b)' <=> InTable(b) /\ b # hook
      /\ \A b \in Addr : Walked(b)' <=> Walked(b)
  <2>1. ~ Walked(hook)
    BY <1>2, <1>4 DEF Walked, InTable, Pending, NoEntry
  <2>2. tracked => hook \in pinned
    BY <1>1, <1>2, <1>4, EntryPinned
  <2>3. \A b \in Addr : InTable(b)' <=> InTable(b) /\ b # hook
    BY <1>8 DEF InTable
  <2>4. \A b \in Addr : Walked(b)' <=> Walked(b)
    BY <1>8, <2>1 DEF Walked, Pending, NoEntry
  <2>5. QED
    BY <2>1, <2>2, <2>3, <2>4
<1>10. /\ lives' \in [Addr -> Nat]
       /\ \A b \in Addr : b # hook => lives'[b] = lives[b]
       /\ lives'[hook] = IF tracked /\ Dies(hook) THEN 0 ELSE lives[hook]
  <2>1. CASE tracked
    BY <1>1, <1>2, <1>3, <2>1, DropRefEffect
  <2>2. CASE ~ tracked
    BY <1>1, <1>3, <2>2 DEF PinsTypeOK
  <2>3. QED
    BY <2>1, <2>2
<1>11. PinsTypeOK'
  BY <1>1, <1>3, <1>5, <1>7, <1>10 DEF PinsTypeOK
<1>12. HeapInv'
  <2>1. (\A b \in Immutable : lives[b] # 0)'
    BY <1>1, <1>2, <1>10, PinsAssumption DEF HeapInv
  <2>2. EntriesAlive'
    BY <1>1, <1>7, <1>9, <1>10 DEF HeapInv, EntriesAlive
  <2>3. CopiesHaveOwner'
    BY <1>3, <1>4 DEF CopiesHaveOwner
  <2>4. ASSUME NEW b \in Addr \ Immutable PROVE lives'[b] # 0 <=> Refcount(b)' > 0
    <3>1. prog[b] \in Nat /\ copies[b] \in Nat /\ Refcount(b) \in Nat
      BY <1>1, CountType
    <3>2. lives[b] # 0 <=> Refcount(b) > 0
      BY <1>1 DEF HeapInv, CountsBalance
    <3>3. Refcount(b)' = IF b = hook /\ tracked THEN Refcount(b) - 1 ELSE Refcount(b)
      <4>1. b \in pinned' <=> b \in pinned /\ ~ (b = hook /\ tracked)
        BY <1>3
      <4>2. b = hook /\ tracked => b \in pinned
        BY <1>9
      <4>3. prog'[b] = prog[b] /\ copies'[b] = copies[b] /\ (Walked(b)' <=> Walked(b))
        BY <1>3, <1>9
      <4>4. Refcount(b)' = prog[b] + copies[b] + (IF Walked(b) THEN 1 ELSE 0)
                             + (IF b \in pinned' THEN 1 ELSE 0)
        BY <4>3 DEF Refcount
      <4>5. CASE b = hook /\ tracked
        BY <3>1, <4>1, <4>2, <4>4, <4>5 DEF Refcount
      <4>6. CASE ~ (b = hook /\ tracked)
        BY <3>1, <4>1, <4>4, <4>6 DEF Refcount
      <4>7. QED
        BY <4>5, <4>6
    <3>4. b = hook /\ tracked => lives[b] # 0
      BY <1>1 DEF HeapInv, EntriesAlive
    <3>5. b = hook => (Dies(hook) <=> Refcount(b) = 1)
      BY DEF Dies
    <3>6. QED
      BY <1>10, <3>1, <3>2, <3>3, <3>4, <3>5
  <2>5. QED
    BY <2>1, <2>2, <2>3, <2>4 DEF HeapInv, CountsBalance
<1>13. TableInv'
  <2>1. PinsMatchTable'
    <3>1. pinned = {b \in Addr : InTable(b)} \ Immutable
      BY <1>1, <1>4 DEF TableInv, PinsMatchTable
    <3>2. pinned' = {b \in Addr : InTable(b)'} \ Immutable
      BY <1>3, <1>9, <3>1
    <3>3. QED
      BY <1>3, <1>4, <3>2 DEF PinsMatchTable, InTable
  <2>2. \A b \in Addr : Walked(b)' => \E i \in DOMAIN open' : open'[i] = b
    BY <1>1, <1>3, <1>9 DEF TableInv
  <2>3. OpenArraysPending'
    <3>1. \A i \in DOMAIN open : open[i] \in Addr
      BY <1>1, ElementOfSeq, LenProperties DEF PinsTypeOK
    <3>2. \A i \in DOMAIN open : entry'[open[i]].id = Pending
      BY <1>1, <1>9, <3>1 DEF TableInv, OpenArraysPending, Walked
    <3>3. QED
      BY <1>1, <1>3, <3>2 DEF TableInv, OpenArraysPending, Walked
  <2>4. IdsOwned'
    <3>1. ASSUME NEW b \in Addr, HasId(b)'
          PROVE  /\ b # hook /\ entry'[b] = entry[b] /\ HasId(b)
                 /\ entry[b].id \in Nat /\ entry[b].id < n - 1
                 /\ owners[entry[b].id + 1] = entry[b].entity
      <4>1. b # hook
        BY <1>8, <3>1 DEF HasId, NoEntry
      <4>2. entry'[b] = entry[b] /\ HasId(b)
        BY <1>7, <3>1, <4>1 DEF HasId
      <4>3. entry[b].id \in Nat /\ entry[b].id < n /\ owners[entry[b].id + 1] = entry[b].entity
        BY <1>1, <4>2, EntryId DEF TableInv, IdsOwned, n
      <4>4. entry[b].id # n - 1
        BY <1>4, <4>1
      <4>5. QED
        BY <1>2, <4>1, <4>2, <4>3, <4>4
    <3>2. \A b, c \in Addr : HasId(b)' /\ entry'[b].id = entry'[c].id => b = c
      <4> SUFFICES ASSUME NEW b \in Addr, NEW c \in Addr, HasId(b)', entry'[b].id = entry'[c].id
                   PROVE  b = c
        OBVIOUS
      <4>1. HasId(c)'
        BY DEF HasId
      <4>2. entry[b].id = entry[c].id /\ HasId(b)
        BY <3>1, <4>1
      <4>3. QED
        BY <1>1, <4>2 DEF TableInv, IdsOwned
    <3>3. \A b \in Addr : HasId(b)' => /\ entry'[b].id < Len(owners')
                                       /\ owners'[entry'[b].id + 1] = entry'[b].entity
      BY <1>5, <3>1
    <3>4. QED
      BY <3>2, <3>3 DEF IdsOwned, HasId
  <2>5. BackRefsFaithful'
    <3>1. ASSUME NEW i \in DOMAIN wire
          PROVE  wire[i].id < n - 1 /\ owners'[wire[i].id + 1] = wire[i].meant
      <4>1. wire[i].id \in Nat /\ wire[i].id < n /\ owners[wire[i].id + 1] = wire[i].meant
        BY <1>1, WireIds DEF TableInv, BackRefsFaithful, n
      <4>2. wire[i].id < n - 1
        BY <1>2, <1>4, <4>1
      <4>3. QED
        BY <1>5, <4>1, <4>2
    <3>2. QED
      BY <1>3, <1>5, <3>1 DEF BackRefsFaithful
  <2>6. QED
    BY <2>1, <2>2, <2>3, <2>4, <2>5 DEF TableInv, Walked
<1>14. HookInv'
  BY <1>3, <1>4 DEF HookInv, NewestIdIsHooks
<1>15. QED
  BY <1>11, <1>12, <1>13, <1>14, PartsNext

----------------------------------------------------------------------------
(* enc_ctx_destroy: nothing is open and no copy is left, so that an        *)
(* address is held by the program, or by its pin, or by nobody.            *)
LEMMA FinishKeeps ==
  ASSUME PinsInv, Finish
  PROVE  PinsInv'
<1>1. PinsTypeOK /\ HeapInv /\ TableInv /\ HookInv
  BY Parts
<1>2. /\ hook = NoHook /\ ~ userCode /\ open = <<>>
      /\ entry' = [a \in Addr |-> Vacant] /\ pinned' = {} /\ encoding' = FALSE
      /\ \A a \in Addr : copies[a] = 0
      /\ UNCHANGED <<allocated, prog, copies, open, pinsActive, owners, wire, hook, userCode>>
  BY <1>1, NoHookRuns DEF Finish
<1>3. lives' = [a \in Addr |-> IF a \in pinned /\ Dies(a) THEN 0 ELSE lives[a]]
  BY DEF Finish
<1>4. lives' \in [Addr -> Nat]
  BY <1>1, <1>3 DEF PinsTypeOK
<1>5. Vacant \in Entry /\ Vacant.id = NoEntry
  BY DEF Vacant, Entry
<1>6. \A a \in Addr : entry'[a].id = NoEntry
  BY <1>2, <1>5
<1>7. PinsTypeOK'
  BY <1>1, <1>2, <1>4, <1>5 DEF PinsTypeOK
<1>8. TableInv'
  BY <1>1, <1>2, <1>6 DEF TableInv, PinsMatchTable, OpenArraysPending, IdsOwned,
     BackRefsFaithful, Walked, InTable, HasId, NoEntry, Pending
<1>9. HookInv'
  BY <1>1, <1>2 DEF HookInv, NewestIdIsHooks
<1>10. (\A b \in Immutable : lives[b] # 0)'
  BY <1>1, <1>3, PinsAssumption DEF HeapInv, Dies
<1>11. EntriesAlive' /\ CopiesHaveOwner'
  BY <1>2, <1>6 DEF EntriesAlive, CopiesHaveOwner, InTable
<1>12. ASSUME NEW b \in Addr \ Immutable PROVE lives'[b] # 0 <=> Refcount(b)' > 0
  <2>1. prog[b] \in Nat /\ copies[b] = 0
    BY <1>1, <1>2, CountType
  <2>2. lives[b] # 0 <=> Refcount(b) > 0
    BY <1>1 DEF HeapInv, CountsBalance
  <2>3. ~ Walked(b) /\ ~ Walked(b)'
    BY <1>1, <1>2, <1>6 DEF TableInv, Walked, Pending, NoEntry
  <2>4. Refcount(b) = prog[b] + (IF b \in pinned THEN 1 ELSE 0)
    BY <2>1, <2>3 DEF Refcount
  <2>5. Refcount(b)' = prog[b]
    BY <1>2, <2>1, <2>3 DEF Refcount
  <2>6. lives'[b] = IF b \in pinned /\ Refcount(b) = 1 THEN 0 ELSE lives[b]
    BY <1>3 DEF Dies
  <2>7. QED
    BY <2>1, <2>2, <2>4, <2>5, <2>6
<1>13. QED
  BY <1>7, <1>8, <1>9, <1>10, <1>11, <1>12, PartsNext DEF HeapInv, CountsBalance

----------------------------------------------------------------------------
LEMMA InitPins == Init => PinsInv
<1> SUFFICES ASSUME Init PROVE PinsInv
  OBVIOUS
<1>1. Vacant \in Entry /\ Vacant.id = NoEntry
  BY DEF Vacant, Entry
<1>2. \A a \in Addr : entry[a].id = NoEntry
  BY <1>1 DEF Init
<1>3. PinsTypeOK
  <2>1. allocated \in Nat /\ lives \in [Addr -> Nat] /\ prog \in [Addr -> Nat]
    BY PinsAssumption DEF Init
  <2>2. entry \in [Addr -> Entry]
    BY <1>1 DEF Init
  <2>3. open \in Seq(Addr) /\ owners \in Seq(Nat) /\ wire \in Seq([id : Nat, meant : Nat])
    BY DEF Init
  <2>4. copies \in [Addr -> Nat]
    BY DEF Init
  <2>5. QED
    BY <2>1, <2>2, <2>3, <2>4 DEF Init, PinsTypeOK
<1>4. TableInv
  BY <1>2 DEF Init, TableInv, PinsMatchTable, OpenArraysPending, IdsOwned,
     BackRefsFaithful, Walked, InTable, HasId, NoEntry, Pending
<1>5. HeapInv
  <2>1. \A a \in Addr : prog[a] > 0 <=> lives[a] # 0
    BY DEF Init
  <2>2. \A a \in Addr : Refcount(a) = prog[a]
    <3> SUFFICES ASSUME NEW a \in Addr PROVE Refcount(a) = prog[a]
      OBVIOUS
    <3>1. copies[a] = 0 /\ a \notin pinned /\ ~ Walked(a) /\ prog[a] \in Nat
      BY <1>2, <1>3, CountType DEF Init, Walked, Pending, NoEntry
    <3>2. QED
      BY <3>1 DEF Refcount
  <2>3. QED
    BY <1>2, <2>1, <2>2 DEF Init, HeapInv, EntriesAlive, CountsBalance, CopiesHaveOwner, InTable
<1>6. HookInv
  BY DEF Init, HookInv, NewestIdIsHooks
<1>7. QED
  BY <1>3, <1>4, <1>5, <1>6, Parts

LEMMA NextPins == PinsInv /\ [Next]_vars => PinsInv'
<1> SUFFICES ASSUME PinsInv, [Next]_vars PROVE PinsInv'
  OBVIOUS
<1>1. ASSUME NEW a \in Addr, UserStep(a) PROVE PinsInv'
  BY <1>1, TakeKeeps, DropKeeps, AllocateKeeps DEF UserStep
<1>2. ASSUME NEW a \in Addr, EncoderStep(a) PROVE PinsInv'
  <2>1. CASE BackReference(a) \/ VisitTracked(a) \/ VisitUnique(a)
    BY <2>1, BackReferenceKeeps, VisitTrackedKeeps, VisitUniqueKeeps
  <2>2. CASE ArrayBegin(a) \/ Copy(a) \/ ReleaseCopy(a)
    BY <2>2, ArrayBeginKeeps, CopyKeeps, ReleaseCopyKeeps
  <2>3. ASSUME NEW tracked \in BOOLEAN, CallHook(a, tracked) PROVE PinsInv'
    BY <2>3, CallHookKeeps
  <2>4. QED
    BY <1>2, <2>1, <2>2, <2>3 DEF EncoderStep
<1>3. ASSUME NEW shareable \in BOOLEAN, ArrayEnd(shareable) PROVE PinsInv'
  BY <1>3, ArrayEndKeeps
<1>4. CASE Resume \/ HookReturns
  BY <1>4, TurnKeeps
<1>5. CASE HookFails
  BY <1>5, HookFailsKeeps
<1>6. CASE Finish
  BY <1>6, FinishKeeps
<1>7. CASE UNCHANGED vars
  <2>1. UNCHANGED <<heapVars, tableVars, copies, pinsActive, pinned, hook, userCode, encoding>>
    BY <1>7 DEF vars, heapVars, tableVars
  <2>2. QED
    BY <2>1, PartsNext, Parts DEF PinsTypeOK, TableInv, HeapInv, HookInv, PinsMatchTable,
       OpenArraysPending, IdsOwned, BackRefsFaithful, EntriesAlive, CountsBalance,
       CopiesHaveOwner, NewestIdIsHooks, InTable, HasId, Walked, Refcount, heapVars, tableVars
<1>8. QED
  BY <1>1, <1>2, <1>3, <1>4, <1>5, <1>6, <1>7 DEF Next

(* The id table, the reference counts and the frame agree in every state,  *)
(* whatever hooks and destructors do between two steps of the encoder      *)
(* (enc_pins_activate, enc_release_copy_zval, enc_unvisit_last).           *)
THEOREM PinsInvariant == Spec => []PinsInv
<1>1. QED
  BY InitPins, NextPins, PTL DEF Spec

(* A TAG_REF names the entity it was written for, even where a hook freed  *)
(* objects and allocated others at their addresses in between.             *)
THEOREM BackReferencesAreFaithful == Spec => []BackRefsFaithful
<1>1. PinsInv => BackRefsFaithful
  BY DEF PinsInv
<1>2. QED
  BY <1>1, PinsInvariant, PTL

(* Before pins are active the program still holds whatever lives: a bare   *)
(* GC_DELREF in enc_release_copy_zval never drops the last reference.      *)
THEOREM CopiesKeepTheirOwner == Spec => []CopiesHaveOwner
<1>1. PinsInv => CopiesHaveOwner
  BY DEF PinsInv
<1>2. QED
  BY <1>1, PinsInvariant, PTL

(* An entity lives exactly as long as the program, the encoder or a pin    *)
(* holds it: the encoder neither frees too early nor leaves one behind.    *)
THEOREM EntitiesLiveWhileHeld == Spec => []CountsBalance
<1>1. PinsInv => CountsBalance
  BY DEF PinsInv
<1>2. QED
  BY <1>1, PinsInvariant, PTL
=============================================================================
