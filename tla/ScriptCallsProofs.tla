-------------------------- MODULE ScriptCallsProofs --------------------------
(***************************************************************************)
(* Proofs about what a runner does with its script, for methods of any     *)
(* name and texts of any length.                                           *)
(***************************************************************************)
EXTENDS ScriptCalls, SequenceTheorems, WellFoundedInduction, TLAPS

-----------------------------------------------------------------------------
(* The loop over the methods.                                              *)

CallTypes ==
  /\ lang \in Languages
  /\ callMethods \in Texts
  /\ step \in {"load", "call", "finally", "reported"}
  /\ i \in Nat
  /\ result \in BOOLEAN
  /\ outcomes \in Seq(Outcomes)
  /\ jobs \in BOOLEAN

(* The counter is behind by one when a call has failed. *)
CounterInv ==
  /\ step = "load" => outcomes = <<>> /\ i = 0
  /\ step = "call" => Len(outcomes) = i
  /\ Len(outcomes) \in {i, i + 1}

(* What the local variable says at any time is what the last method that   *)
(* returned has made of it; a later failure does not take it back, except  *)
(* in Python, whose loop ends in a success only behind the last method.    *)
ResultInv ==
  /\ result =>
       /\ i >= 2
       /\ \/ outcomes[i] = "true"
          \/ lang = "python" /\ outcomes[i] = "other"
  /\ result /\ lang = "python" /\ step \in {"finally", "reported"} =>
       ~Failed /\ i = Len(methods) + 1

JobsInv ==
  /\ jobs => lang = "javascript"
  /\ jobs /\ step \in {"finally", "reported"} => Failed \/ outcomes = <<>>

CallInv == CallTypes /\ CounterInv /\ ResultInv /\ JobsInv

LEMMA CallInit == Init => CallInv
<1> SUFFICES ASSUME Init PROVE CallInv
  OBVIOUS
<1>1. outcomes \in Seq(Outcomes) /\ Len(outcomes) = 0
  BY EmptySeq DEF Init
<1> QED
  BY <1>1 DEF Init, CallInv, CallTypes, CounterInv, ResultInv, JobsInv, Failed

(* An outcome is added behind the others. *)
LEMMA OutcomeAdded ==
  ASSUME CallInv, NEW o \in Outcomes, outcomes' = Append(outcomes, o)
  PROVE  /\ outcomes' \in Seq(Outcomes)
         /\ outcomes' # <<>>
         /\ Len(outcomes) \in Nat
         /\ Len(outcomes') = Len(outcomes) + 1
         /\ \A n \in 1 .. Len(outcomes) : outcomes'[n] = outcomes[n]
         /\ outcomes'[Len(outcomes) + 1] = o
  BY AppendProperties, LenProperties DEF CallInv, CallTypes

(* A call that is accepted, and one that ends the runner.                  *)
LEMMA GoOnStep ==
  ASSUME CallInv, step = "call", NEW o \in Outcomes, NEW value \in BOOLEAN,
         GoOn(o, value),
         value => o = "true" \/ (lang = "python" /\ o = "other"),
         jobs' \in BOOLEAN, jobs' => lang = "javascript"
  PROVE  CallInv'
<1>1. /\ Len(outcomes) = i /\ i \in Nat
      /\ outcomes' \in Seq(Outcomes)
      /\ Len(outcomes') = i + 1 /\ outcomes'[i + 1] = o
      /\ i' = i + 1 /\ step' = "call" /\ lang' = lang /\ callMethods' = callMethods
      /\ result' = IF i = 0 THEN result ELSE value
  BY OutcomeAdded DEF GoOn, CallInv, CounterInv, CallTypes
<1>2. i = 0 => ~result
  BY DEF CallInv, ResultInv
<1>3. CallTypes'
  BY <1>1 DEF CallInv, CallTypes
<1>4. CounterInv'
  BY <1>1 DEF CounterInv
<1>5. ResultInv'
  BY <1>1, <1>2 DEF ResultInv
<1>6. JobsInv'
  BY <1>1 DEF JobsInv
<1> QED  BY <1>3, <1>4, <1>5, <1>6 DEF CallInv

LEMMA GiveUpStep ==
  ASSUME CallInv, step = "call", NEW o \in Outcomes, NEW value \in BOOLEAN,
         GiveUp(o, value),
         value => result /\ lang # "python",
         jobs' \in BOOLEAN, jobs' => lang = "javascript"
  PROVE  CallInv'
<1>1. /\ Len(outcomes) = i /\ i \in Nat
      /\ outcomes' \in Seq(Outcomes)
      /\ Len(outcomes') = i + 1
      /\ \A n \in 1 .. i : outcomes'[n] = outcomes[n]
      /\ i' = i /\ step' = "finally" /\ lang' = lang /\ callMethods' = callMethods
      /\ result' = value
  BY OutcomeAdded DEF GiveUp, CallInv, CounterInv, CallTypes
<1>2. result => i >= 2 /\ outcomes'[i] = outcomes[i]
  BY <1>1 DEF CallInv, ResultInv
<1>3. CallTypes'
  BY <1>1 DEF CallInv, CallTypes
<1>4. CounterInv'
  BY <1>1 DEF CounterInv
<1>5. ResultInv'
  BY <1>1, <1>2 DEF CallInv, ResultInv
<1>6. Failed'
  BY <1>1 DEF Failed
<1>7. JobsInv'
  BY <1>1, <1>6 DEF JobsInv
<1> QED  BY <1>3, <1>4, <1>5, <1>7 DEF CallInv

LEMMA CallStep == CallInv /\ [Next]_vars => CallInv'
<1> SUFFICES ASSUME CallInv, [Next]_vars PROVE CallInv'
  OBVIOUS
<1>1. CASE Load
  <2>1. /\ outcomes = <<>> /\ i = 0 /\ ~result /\ Len(outcomes) = 0
        /\ UNCHANGED <<lang, callMethods, i, result, outcomes>>
        /\ step' \in {"call", "finally"}
    BY <1>1, EmptySeq DEF Load, CallInv, CounterInv, ResultInv
  <2>2. jobs' \in BOOLEAN /\ (jobs' => lang = "javascript")
    BY <1>1 DEF Load
  <2>3. CallTypes'
    BY <2>1, <2>2 DEF CallInv, CallTypes
  <2>4. CounterInv' /\ ResultInv'
    BY <2>1 DEF CounterInv, ResultInv
  <2>5. JobsInv'
    BY <2>1, <2>2 DEF JobsInv
  <2> QED  BY <2>3, <2>4, <2>5 DEF CallInv
<1>2. CASE CallLua
  <2>1. /\ step = "call" /\ lang = "lua" /\ jobs' = jobs
        /\ jobs \in BOOLEAN /\ ~jobs /\ result \in BOOLEAN
    BY <1>2 DEF CallLua, Calling, CallInv, CallTypes, JobsInv
  <2>2. PICK o \in Outcomes : GoOn(o, o = "true") \/ GiveUp(o, result)
    BY <1>2 DEF CallLua
  <2>3. CASE GoOn(o, o = "true")  BY <2>1, <2>3, GoOnStep
  <2>4. CASE GiveUp(o, result)  BY <2>1, <2>4, GiveUpStep
  <2> QED  BY <2>2, <2>3, <2>4
<1>3. CASE CallJavaScript
  <2>1. /\ step = "call" /\ lang = "javascript"
        /\ jobs' \in BOOLEAN /\ result \in BOOLEAN
    BY <1>3 DEF CallJavaScript, Calling, CallInv, CallTypes
  <2>2. PICK o \in Outcomes : GoOn(o, o = "true") \/ GiveUp(o, result)
    BY <1>3 DEF CallJavaScript
  <2>3. CASE GoOn(o, o = "true")  BY <2>1, <2>3, GoOnStep
  <2>4. CASE GiveUp(o, result)  BY <2>1, <2>4, GiveUpStep
  <2> QED  BY <2>2, <2>3, <2>4
<1>4. CASE CallPython
  <2>1. /\ step = "call" /\ lang = "python" /\ jobs' = jobs
        /\ jobs \in BOOLEAN /\ ~jobs
    BY <1>4 DEF CallPython, Calling, CallInv, CallTypes, JobsInv
  <2>2. PICK o \in Outcomes : \/ o \in {"true", "other"} /\ GoOn(o, TRUE)
                             \/ GoOn(o, FALSE)
                             \/ GiveUp(o, FALSE)
    BY <1>4 DEF CallPython
  <2>3. CASE o \in {"true", "other"} /\ GoOn(o, TRUE)  BY <2>1, <2>3, GoOnStep
  <2>4. CASE GoOn(o, FALSE)  BY <2>1, <2>4, GoOnStep
  <2>5. CASE GiveUp(o, FALSE)  BY <2>1, <2>5, GiveUpStep
  <2> QED  BY <2>2, <2>3, <2>4, <2>5
<1>5. CASE Return \/ ExecuteJobs
  <2>0. jobs' \in BOOLEAN /\ ~jobs'
    <3>1. jobs \in BOOLEAN /\ (jobs => lang = "javascript")
      BY DEF CallInv, CallTypes, JobsInv
    <3>2. CASE Return  BY <3>1, <3>2 DEF Return
    <3>3. CASE ExecuteJobs  BY <3>3 DEF ExecuteJobs
    <3> QED  BY <1>5, <3>2, <3>3
  <2>1. CallTypes' /\ CounterInv' /\ JobsInv'
    BY <1>5, <2>0 DEF Return, ExecuteJobs, CallInv, CallTypes, CounterInv, JobsInv
  <2>2. ~Failed'
    BY <1>5 DEF Return, ExecuteJobs, CallInv, CallTypes, CounterInv, Failed
  <2>3. i' = Len(methods') + 1 /\ UNCHANGED <<i, lang, result, outcomes>>
    BY <1>5 DEF Return, ExecuteJobs, methods
  <2>4. ResultInv'
    BY <2>2, <2>3 DEF CallInv, ResultInv
  <2> QED  BY <2>1, <2>4 DEF CallInv
<1>6. CASE Report
  BY <1>6 DEF Report, CallInv, CallTypes, CounterInv, ResultInv, JobsInv, Failed, methods
<1>7. CASE UNCHANGED vars
  BY <1>7 DEF vars, CallInv, CallTypes, CounterInv, ResultInv, JobsInv, Failed, methods
<1> QED  BY <1>1, <1>2, <1>3, <1>4, <1>5, <1>6, <1>7 DEF Next

LEMMA CallAlways == Spec => []CallInv
  BY CallInit, CallStep, PTL DEF Spec

(* A success in the result packet is the value of the last method that     *)
(* returned, and in Python of the last of all.                             *)
THEOREM SuccessTrue == Spec => []SuccessExplained
<1>1. CallInv => SuccessExplained
  BY DEF CallInv, ResultInv, SuccessExplained, SuccessIsLastMethods, PythonSuccessIsComplete
<1> QED  BY <1>1, CallAlways, PTL

(* No JavaScript job of a script that did not fail is left behind. *)
THEOREM JobsDone == Spec => []JobsExecuted
<1>1. CallInv => JobsExecuted
  BY DEF CallInv, JobsInv, JobsExecuted
<1> QED  BY <1>1, CallAlways, PTL
-----------------------------------------------------------------------------
(* callMethods taken apart.  The recursion of stringSplitAscii and the one *)
(* of Joined go through the text from the front; what they compute is      *)
(* shown from its end, by looking at the last position where it would be   *)
(* otherwise.                                                              *)

(* A set of natural numbers that is not empty has a least element: the     *)
(* induction on the length of a text.                                      *)
LEMMA LeastNumber ==
  ASSUME NEW T, T \subseteq Nat, T # {}
  PROVE  \E m \in T : \A k \in T : m <= k
<1> DEFINE R == OpToRel(<, Nat)
<1>1. \A k, m \in Nat : k < m => <<k, m>> \in R
  BY DEF OpToRel
<1> HIDE DEF R
<1>2. PICK m \in T : \A k \in T : <<k, m>> \notin R
  BY WFMin, NatLessThanWellFounded DEF R
<1>3. \A k \in T : ~(k < m)
  BY <1>1, <1>2
<1>4. \A k \in T : m <= k
  BY <1>3
<1> QED  BY <1>4

Letters == Names \cup {Comma}

Found(str, last) == {p \in Commas(str) : p >= last}
First(str, last) == CHOOSE p \in Found(str, last) : \A q \in Found(str, last) : p <= q

(* One turn of the loop in stringSplitAscii, and the function of its turns. *)
SplitAt(g, str, last) ==
  IF Found(str, last) = {} THEN <<SubSeq(str, last, Len(str))>>
  ELSE <<SubSeq(str, last, First(str, last) - 1)>> \o g[First(str, last) + 1]

Pieces(str) == CHOOSE g : g = [last \in 1 .. Len(str) + 1 |-> SplitAt(g, str, last)]

LEMMA SplitIsPieces == \A str : stringSplitAscii(str) = Pieces(str)[1]
  BY DEF stringSplitAscii, Pieces, SplitAt, Found, First

(* find() returns the first comma from a position on. *)
LEMMA FirstComma ==
  ASSUME NEW str \in Seq(Letters), NEW last \in 1 .. Len(str) + 1, Found(str, last) # {}
  PROVE  /\ First(str, last) \in last .. Len(str)
         /\ str[First(str, last)] = Comma
         /\ \A n \in last .. First(str, last) - 1 : str[n] # Comma
<1>1. Len(str) \in Nat /\ DOMAIN str = 1 .. Len(str)
  BY LenProperties
<1>2. /\ Found(str, last) \subseteq 1 .. Len(str)
      /\ \A q \in 1 .. Len(str) : q \in Found(str, last) <=> str[q] = Comma /\ q >= last
  BY <1>1 DEF Found, Commas
<1>3. Found(str, last) \subseteq Nat
  BY <1>1, <1>2
<1>4. \E p \in Found(str, last) : \A q \in Found(str, last) : p <= q
  BY <1>3, LeastNumber
<1> DEFINE p == First(str, last)
<1>5. p \in Found(str, last) /\ \A q \in Found(str, last) : p <= q
  BY <1>4 DEF First
<1> HIDE DEF p
<1>6. p \in last .. Len(str) /\ str[p] = Comma
  BY <1>1, <1>2, <1>5
<1>7. ASSUME NEW n \in last .. p - 1, str[n] = Comma PROVE FALSE
  <2>1. n \in 1 .. Len(str) /\ n >= last /\ ~(p <= n)
    BY <1>1, <1>6
  <2>2. n \in Found(str, last)
    BY <2>1, <1>2, <1>7
  <2> QED  BY <2>1, <2>2, <1>5
<1> QED  BY <1>6, <1>7 DEF p

(* The recursion is well-founded: each turn looks only behind itself. *)
LEMMA SplitTurns ==
  ASSUME NEW str \in Seq(Letters)
  PROVE  \A last \in 1 .. Len(str) + 1 :
           Pieces(str)[last] = SplitAt(Pieces(str), str, last)
<1> DEFINE n == Len(str)
           Good(g, k) == \A last \in (n + 1 - k) .. (n + 1) : g[last] = SplitAt(g, str, last)
           Bad == {k \in 0 .. n : ~ \E g : Good(g, k)}
<1>0. n \in Nat /\ Bad \subseteq Nat
  BY LenProperties
<1>1. Bad = {}
  <2> SUFFICES ASSUME Bad # {} PROVE FALSE
    OBVIOUS
  <2>1. PICK k \in Bad : \A m \in Bad : k <= m
    BY <1>0, LeastNumber
  <2>2. k \in 0 .. n /\ ~ \E g : Good(g, k)
    OBVIOUS
  <2> DEFINE d == n + 1 - k
  <2>3. d \in 1 .. n + 1
    BY <2>2, <1>0
  <2>4. \E g : \A last \in (d + 1) .. (n + 1) : g[last] = SplitAt(g, str, last)
    <3>1. CASE k = 0
      <4>1. \A last \in (d + 1) .. (n + 1) : FALSE
        BY <3>1, <1>0
      <4> QED  BY <4>1
    <3>2. CASE k # 0
      <4>0. k - 1 \in 0 .. n /\ ~(k <= k - 1)
        BY <2>2, <3>2, <1>0
      <4>1. k - 1 \in 0 .. n /\ k - 1 \notin Bad
        BY <2>1, <4>0
      <4>2. \E g : Good(g, k - 1)
        BY <4>1
      <4>3. n + 1 - (k - 1) = d + 1
        BY <2>2, <1>0
      <4> QED  BY <4>2, <4>3
    <3> QED  BY <3>1, <3>2
  <2>5. PICK g : \A last \in (d + 1) .. (n + 1) : g[last] = SplitAt(g, str, last)
    BY <2>4
  <2> DEFINE h == [last \in 1 .. n + 1 |-> IF last = d THEN SplitAt(g, str, last) ELSE g[last]]
  <2> HIDE DEF d, n
  <2>6. ASSUME NEW last \in d .. (n + 1) PROVE SplitAt(h, str, last) = SplitAt(g, str, last)
    <3>1. last \in 1 .. n + 1
      BY <2>3, <1>0
    <3>2. CASE Found(str, last) = {}  BY <3>2 DEF SplitAt
    <3>3. CASE Found(str, last) # {}
      <4>1. First(str, last) + 1 \in (d + 1) .. (n + 1)
        <5>1. First(str, last) \in last .. n
          BY <3>1, <3>3, FirstComma DEF n
        <5> QED  BY <5>1, <2>3, <1>0
      <4>2. h[First(str, last) + 1] = g[First(str, last) + 1]
        <5>1. First(str, last) + 1 \in 1 .. n + 1 /\ First(str, last) + 1 # d
          BY <4>1, <2>3, <1>0
        <5> QED  BY <5>1
      <4> HIDE DEF h
      <4> QED  BY <4>2 DEF SplitAt
    <3> QED  BY <3>2, <3>3
  <2>7. \A last \in d .. (n + 1) : h[last] = SplitAt(g, str, last)
    BY <2>3, <2>5, <1>0
  <2> HIDE DEF h
  <2>8. Good(h, k)
    BY <2>6, <2>7 DEF d
  <2> QED  BY <2>2, <2>8
<1>2. \E g : Good(g, n)
  BY <1>0, <1>1
<1>3. PICK g : Good(g, n)
  BY <1>2
<1> DEFINE f == [last \in 1 .. n + 1 |-> g[last]]
<1>4. \A last \in 1 .. n + 1 : SplitAt(f, str, last) = SplitAt(g, str, last)
  <2> SUFFICES ASSUME NEW last \in 1 .. n + 1, Found(str, last) # {}
               PROVE  SplitAt(f, str, last) = SplitAt(g, str, last)
    BY DEF SplitAt
  <2>1. First(str, last) + 1 \in 1 .. n + 1
    BY FirstComma, <1>0
  <2>2. f[First(str, last) + 1] = g[First(str, last) + 1]
    BY <2>1
  <2> HIDE DEF f
  <2> QED  BY <2>2 DEF SplitAt
<1>5. \A last \in 1 .. n + 1 : g[last] = SplitAt(g, str, last)
  BY <1>3, <1>0
<1>6. f = [last \in 1 .. n + 1 |-> SplitAt(f, str, last)]
  BY <1>4, <1>5
<1> HIDE DEF f
<1>7. Pieces(str) = [last \in 1 .. n + 1 |-> SplitAt(Pieces(str), str, last)]
  BY <1>6 DEF Pieces
<1> QED  BY <1>7

-----------------------------------------------------------------------------
(* Joining pieces.                                                         *)

Joins(p) == p \in Seq(Seq(Letters)) /\ p # <<>>

JoinAt(g, p, n) == IF n = Len(p) THEN p[n] ELSE p[n] \o <<Comma>> \o g[n + 1]

Texts_(p) == CHOOSE g : g = [n \in 1 .. Len(p) |-> JoinAt(g, p, n)]

LEMMA JoinedIsTexts == \A p : Joined(p) = Texts_(p)[1]
  BY DEF Joined, Texts_, JoinAt

(* The recursion of Joined is well-founded, too. *)
LEMMA JoinTurns ==
  ASSUME NEW p, Joins(p)
  PROVE  \A n \in 1 .. Len(p) : Texts_(p)[n] = JoinAt(Texts_(p), p, n)
<1> DEFINE l == Len(p)
           Good(g, k) == \A n \in (l - k) .. l : g[n] = JoinAt(g, p, n)
           Bad == {k \in 0 .. l - 1 : ~ \E g : Good(g, k)}
<1>0. l \in Nat /\ l >= 1 /\ Bad \subseteq Nat
  BY EmptySeq, LenProperties DEF Joins
<1>1. Bad = {}
  <2> SUFFICES ASSUME Bad # {} PROVE FALSE
    OBVIOUS
  <2>1. PICK k \in Bad : \A m \in Bad : k <= m
    BY <1>0, LeastNumber
  <2>2. k \in 0 .. l - 1 /\ ~ \E g : Good(g, k)
    OBVIOUS
  <2> DEFINE d == l - k
  <2>3. d \in 1 .. l
    BY <2>2, <1>0
  <2>4. \E g : \A n \in (d + 1) .. l : g[n] = JoinAt(g, p, n)
    <3>1. CASE k = 0
      <4>1. \A n \in (d + 1) .. l : FALSE
        BY <3>1, <1>0
      <4> QED  BY <4>1
    <3>2. CASE k # 0
      <4>1. k - 1 \in 0 .. l - 1 /\ ~(k <= k - 1)
        BY <2>2, <3>2, <1>0
      <4>2. k - 1 \in 0 .. l - 1 /\ k - 1 \notin Bad
        BY <2>1, <4>1
      <4>3. \E g : Good(g, k - 1)
        BY <4>2
      <4>4. l - (k - 1) = d + 1
        BY <2>2, <1>0
      <4> QED  BY <4>3, <4>4
    <3> QED  BY <3>1, <3>2
  <2>5. PICK g : \A n \in (d + 1) .. l : g[n] = JoinAt(g, p, n)
    BY <2>4
  <2> DEFINE h == [n \in 1 .. l |-> IF n = d THEN JoinAt(g, p, n) ELSE g[n]]
  <2> HIDE DEF d, l
  <2>6. ASSUME NEW n \in d .. l PROVE JoinAt(h, p, n) = JoinAt(g, p, n)
    <3>1. CASE n = l  BY <3>1 DEF JoinAt, l
    <3>2. CASE n # l
      <4>1. n + 1 \in (d + 1) .. l /\ n + 1 \in 1 .. l /\ n + 1 # d
        BY <3>2, <2>3, <1>0
      <4>2. h[n + 1] = g[n + 1]
        BY <4>1
      <4> HIDE DEF h
      <4> QED  BY <4>2 DEF JoinAt
    <3> QED  BY <3>1, <3>2
  <2>7. \A n \in d .. l : h[n] = JoinAt(g, p, n)
    BY <2>3, <2>5, <1>0
  <2> HIDE DEF h
  <2>8. Good(h, k)
    BY <2>6, <2>7 DEF d
  <2> QED  BY <2>2, <2>8
<1>2. \E g : Good(g, l - 1)
  <2>1. l - 1 \in 0 .. l - 1
    BY <1>0
  <2> HIDE DEF Good, l
  <2>2. l - 1 \notin Bad
    BY <1>1
  <2> QED  BY <2>1, <2>2
<1>3. PICK g : Good(g, l - 1)
  BY <1>2
<1>4. \A n \in 1 .. l : g[n] = JoinAt(g, p, n)
  <2>1. l - (l - 1) = 1
    BY <1>0
  <2> QED  BY <1>3, <2>1
<1> DEFINE f == [n \in 1 .. l |-> g[n]]
<1>5. \A n \in 1 .. l : JoinAt(f, p, n) = JoinAt(g, p, n)
  <2> SUFFICES ASSUME NEW n \in 1 .. l, n # l PROVE JoinAt(f, p, n) = JoinAt(g, p, n)
    BY DEF JoinAt
  <2>1. n + 1 \in 1 .. l
    BY <1>0
  <2>2. f[n + 1] = g[n + 1]
    BY <2>1
  <2> HIDE DEF f
  <2> QED  BY <2>2 DEF JoinAt
<1>6. f = [n \in 1 .. l |-> JoinAt(f, p, n)]
  BY <1>4, <1>5
<1> HIDE DEF f
<1>7. Texts_(p) = [n \in 1 .. l |-> JoinAt(Texts_(p), p, n)]
  BY <1>6 DEF Texts_
<1> QED  BY <1>7

(* One piece is its own text. *)
LEMMA JoinOne ==
  ASSUME NEW x \in Seq(Letters)
  PROVE  Joined(<<x>>) = x
<1>1. Joins(<<x>>) /\ Len(<<x>>) = 1 /\ 1 \in 1 .. Len(<<x>>)
  BY DEF Joins
<1>2. Texts_(<<x>>)[1] = JoinAt(Texts_(<<x>>), <<x>>, 1)
  BY <1>1, JoinTurns
<1> QED  BY <1>1, <1>2, JoinedIsTexts DEF JoinAt

(* A piece in front comes, with a comma, before the text of the others. *)
LEMMA JoinMore ==
  ASSUME NEW x \in Seq(Letters), NEW t, Joins(t)
  PROVE  /\ Joins(<<x>> \o t)
         /\ Joined(<<x>> \o t) = x \o <<Comma>> \o Joined(t)
<1> DEFINE s == <<x>> \o t
<1>1. <<x>> \in Seq(Seq(Letters)) /\ Len(<<x>>) = 1 /\ <<x>>[1] = x
  OBVIOUS
<1>2. Len(t) \in Nat /\ Len(t) >= 1
  BY EmptySeq, LenProperties DEF Joins
<1>3. /\ s \in Seq(Seq(Letters)) /\ Len(s) = Len(t) + 1
      /\ s[1] = x /\ \A n \in 1 .. Len(t) : s[n + 1] = t[n]
  BY <1>1, <1>2, ConcatProperties DEF Joins
<1> HIDE DEF s
<1>a. Len(s) = Len(t) + 1
  BY <1>3
<1>b. s[1] = x
  BY <1>3
<1>4. Joins(s)
  BY <1>2, <1>3, EmptySeq DEF Joins
<1> DEFINE l == Len(t)
           Bad == {k \in 0 .. l - 1 : Texts_(s)[l - k + 1] # Texts_(t)[l - k]}
<1>5. Bad \subseteq Nat
  BY <1>2
<1>6. Bad = {}
  <2> SUFFICES ASSUME Bad # {} PROVE FALSE
    OBVIOUS
  <2>1. PICK k \in Bad : \A m \in Bad : k <= m
    BY <1>5, LeastNumber
  <2>2. k \in 0 .. l - 1 /\ Texts_(s)[l - k + 1] # Texts_(t)[l - k]
    OBVIOUS
  <2> DEFINE n == l - k
  <2>0. k \in 0 .. Len(t) - 1
    BY <2>2
  <2>3. n \in 1 .. Len(t) /\ n + 1 \in 1 .. Len(s)
    BY <2>0, <1>2, <1>a
  <2>4. /\ Texts_(s)[n + 1] = JoinAt(Texts_(s), s, n + 1)
        /\ Texts_(t)[n] = JoinAt(Texts_(t), t, n)
        /\ s[n + 1] = t[n]
    BY <2>3, <1>3, <1>4, JoinTurns
  <2>5. CASE k = 0
    <3>1. n = Len(t) /\ n + 1 = Len(s)
      BY <2>5, <1>2, <1>3
    <3> QED  BY <2>2, <2>4, <3>1 DEF JoinAt
  <2>6. CASE k # 0
    <3>1. k - 1 \in 0 .. Len(t) - 1 /\ ~(k <= k - 1)
      BY <2>0, <2>6, <1>2
    <3>2. k - 1 \in 0 .. l - 1 /\ k - 1 \notin Bad
      BY <2>1, <3>1
    <3>3. Texts_(s)[l - (k - 1) + 1] = Texts_(t)[l - (k - 1)]
      BY <3>2
    <3>4. Len(t) - (k - 1) = n + 1 /\ n # Len(t) /\ n + 1 # Len(s)
      BY <2>0, <2>6, <1>2, <1>a
    <3> QED  BY <2>2, <2>4, <3>3, <3>4 DEF JoinAt
  <2> QED  BY <2>5, <2>6
<1>7. Texts_(s)[2] = Texts_(t)[1]
  <2>1. l - 1 \in 0 .. l - 1 /\ l - (l - 1) = 1
    BY <1>2
  <2>2. Texts_(s)[l - (l - 1) + 1] = Texts_(t)[l - (l - 1)]
    BY <1>6, <2>1
  <2> QED  BY <2>1, <2>2
<1>8. Texts_(s)[1] = JoinAt(Texts_(s), s, 1) /\ 1 # Len(s)
  BY <1>2, <1>3, <1>4, JoinTurns
<1>9. Joined(s) = x \o <<Comma>> \o Joined(t)
  <2>1. Joined(s) = Texts_(s)[1] /\ Joined(t) = Texts_(t)[1]
    BY JoinedIsTexts
  <2>a. 1 + 1 = 2
    OBVIOUS
  <2>b. Texts_(s)[1] = s[1] \o <<Comma>> \o Texts_(s)[1 + 1]
    BY <1>8 DEF JoinAt
  <2>2. Texts_(s)[1] = s[1] \o <<Comma>> \o Texts_(s)[2]
    BY <2>a, <2>b
  <2>3. Texts_(s)[1] = x \o <<Comma>> \o Texts_(t)[1]
    BY <1>b, <1>7, <2>2
  <2> QED  BY <2>1, <2>3
<1> QED  BY <1>4, <1>9 DEF s

NoComma(p) == \A n \in 1 .. Len(p) : Commas(p[n]) = {}

LEMMA OneWithout ==
  ASSUME NEW x \in Seq(Letters), Commas(x) = {}
  PROVE  NoComma(<<x>>)
  BY DEF NoComma

LEMMA MoreWithout ==
  ASSUME NEW x \in Seq(Letters), Commas(x) = {}, NEW t, Joins(t), NoComma(t)
  PROVE  NoComma(<<x>> \o t)
<1>1. <<x>> \in Seq(Seq(Letters)) /\ Len(<<x>>) = 1 /\ <<x>>[1] = x
  OBVIOUS
<1>2. Len(t) \in Nat /\ t \in Seq(Seq(Letters))
  BY LenProperties DEF Joins
<1> DEFINE s == <<x>> \o t
<1>3. /\ Len(s) = Len(t) + 1
      /\ s[1] = x /\ \A n \in 2 .. Len(t) + 1 : s[n] = t[n - 1]
  BY <1>1, <1>2, ConcatProperties
<1> HIDE DEF s
<1>4. ASSUME NEW n \in 1 .. Len(s) PROVE Commas(s[n]) = {}
  <2>1. CASE n = 1  BY <2>1, <1>3
  <2>2. CASE n # 1
    <3>1. n \in 2 .. Len(t) + 1 /\ n - 1 \in 1 .. Len(t)
      BY <2>2, <1>2, <1>3
    <3> QED  BY <3>1, <1>3 DEF NoComma
  <2> QED  BY <2>1, <2>2
<1> QED  BY <1>4 DEF NoComma, s

(* A stretch of the text without a comma is a piece. *)
LEMMA Stretch ==
  ASSUME NEW str \in Seq(Letters), NEW last \in 1 .. Len(str) + 1,
         NEW stop \in last - 1 .. Len(str),
         \A n \in last .. stop : str[n] # Comma
  PROVE  SubSeq(str, last, stop) \in Seq(Letters) /\ Commas(SubSeq(str, last, stop)) = {}
<1>0. Len(str) \in Nat /\ last \in Int /\ stop \in Int
  BY LenProperties
<1>1. \A n \in last .. stop : str[n] \in Letters
  <2> TAKE n \in last .. stop
  <2>1. n \in 1 .. Len(str)
    BY <1>0
  <2> QED  BY <2>1, ElementOfSeq
<1> DEFINE x == SubSeq(str, last, stop)
<1>2. /\ x \in Seq(Letters)
      /\ Len(x) = IF last <= stop THEN stop - last + 1 ELSE 0
      /\ \A n \in 1 .. stop - last + 1 : x[n] = str[last + n - 1]
  BY <1>0, <1>1, SubSeqProperties
<1> HIDE DEF x
<1>3. ASSUME NEW n \in DOMAIN x PROVE x[n] # Comma
  <2>1. n \in 1 .. Len(x)
    BY <1>2, LenProperties
  <2>2. n \in 1 .. stop - last + 1 /\ last + n - 1 \in last .. stop
    BY <2>1, <1>0, <1>2
  <2> QED  BY <2>2, <1>2
<1>4. Commas(x) = {}
  BY <1>3 DEF Commas
<1> QED  BY <1>2, <1>4 DEF x

(* What the loop makes of the text from last on. *)
Undone(str, last) ==
  /\ Joins(Pieces(str)[last])
  /\ NoComma(Pieces(str)[last])
  /\ Joined(Pieces(str)[last]) = SubSeq(str, last, Len(str))

(* Behind the last comma the rest is the one piece. *)
LEMMA UndoneLast ==
  ASSUME NEW str \in Seq(Letters), NEW last \in 1 .. Len(str) + 1, Found(str, last) = {}
  PROVE  Undone(str, last)
<1>0. Len(str) \in Nat /\ DOMAIN str = 1 .. Len(str)
  BY LenProperties
<1>1. ASSUME NEW n \in last .. Len(str), str[n] = Comma PROVE FALSE
  <2>1. n \in DOMAIN str /\ n >= last
    BY <1>0
  <2>2. n \in Found(str, last)
    BY <2>1, <1>1 DEF Found, Commas
  <2> QED  BY <2>2
<1>2. Len(str) \in last - 1 .. Len(str)
  BY <1>0
<1> DEFINE x == SubSeq(str, last, Len(str))
<1>3. x \in Seq(Letters) /\ Commas(x) = {}
  BY <1>1, <1>2, Stretch
<1>4. Pieces(str)[last] = <<x>>
  BY SplitTurns DEF SplitAt
<1> HIDE DEF x
<1>5. Joins(<<x>>)
  BY <1>3 DEF Joins
<1>6. Joined(<<x>>) = x
  BY <1>3, JoinOne
<1>7. NoComma(<<x>>)
  BY <1>3, OneWithout
<1> QED  BY <1>4, <1>5, <1>6, <1>7 DEF Undone, x

(* Otherwise it is right if it is right behind the comma. *)
LEMMA UndoneMore ==
  ASSUME NEW str \in Seq(Letters), NEW last \in 1 .. Len(str) + 1, Found(str, last) # {},
         Undone(str, First(str, last) + 1)
  PROVE  Undone(str, last)
<1>0. Len(str) \in Nat
  BY LenProperties
<1> DEFINE pos == First(str, last)
           x == SubSeq(str, last, pos - 1)
           t == Pieces(str)[pos + 1]
<1>1. pos \in last .. Len(str) /\ str[pos] = Comma /\ \A n \in last .. pos - 1 : str[n] # Comma
  BY FirstComma
<1>2. Pieces(str)[last] = <<x>> \o t
  BY SplitTurns DEF SplitAt
<1>3. Joins(t) /\ NoComma(t) /\ Joined(t) = SubSeq(str, pos + 1, Len(str))
  BY DEF Undone
<1> HIDE DEF pos
<1>4. pos - 1 \in last - 1 .. Len(str)
  BY <1>0, <1>1
<1>5. x \in Seq(Letters) /\ Commas(x) = {}
  BY <1>1, <1>4, Stretch
<1> HIDE DEF t
<1>6. x \o <<Comma>> \o Joined(t) = SubSeq(str, last, Len(str))
  <2>1. last \in 1 .. Len(str) /\ pos \in last .. Len(str)
    BY <1>0, <1>1
  <2>2. SubSeq(str, last, pos) = x \o <<Comma>>
    BY <2>1, <1>1, SubSeqRecursiveSecond
  <2>3. pos \in last - 1 .. Len(str) /\ Len(str) \in pos .. Len(str)
    BY <2>1, <1>0
  <2>4. SubSeq(str, last, pos) \o SubSeq(str, pos + 1, Len(str)) = SubSeq(str, last, Len(str))
    BY <2>1, <2>3, ConcatAdjacentSubSeq
  <2> QED  BY <2>2, <2>4, <1>3
<1> HIDE DEF x
<1>7. Joins(<<x>> \o t) /\ Joined(<<x>> \o t) = x \o <<Comma>> \o Joined(t)
  BY <1>3, <1>5, JoinMore
<1>8. NoComma(<<x>> \o t)
  BY <1>3, <1>5, MoreWithout
<1> QED  BY <1>2, <1>6, <1>7, <1>8 DEF Undone

(* Of the positions where the loop would do anything else the last one     *)
(* would have a comma before it and be right behind that.                  *)
LEMMA UndoneAnywhere ==
  ASSUME NEW str \in Seq(Letters)
  PROVE  \A last \in 1 .. Len(str) + 1 : Undone(str, last)
<1> DEFINE n == Len(str)
           Wrong == {k \in 0 .. n : ~Undone(str, n + 1 - k)}
<1>0. n \in Nat /\ Wrong \subseteq Nat
  BY LenProperties
<1>1. Wrong = {}
  <2> SUFFICES ASSUME Wrong # {} PROVE FALSE
    OBVIOUS
  <2>1. PICK k \in Wrong : \A m \in Wrong : k <= m
    BY <1>0, LeastNumber
  <2>2. k \in 0 .. n /\ ~Undone(str, n + 1 - k)
    OBVIOUS
  <2> DEFINE d == n + 1 - k
  <2>3. d \in 1 .. n + 1
    BY <2>2, <1>0
  <2>4. Found(str, d) # {}
    <3> HIDE DEF d
    <3> QED  BY <2>2, <2>3, UndoneLast DEF d
  <2> DEFINE behind == First(str, d) + 1
             m == n + 1 - behind
  <2>5. behind \in d + 1 .. n + 1
    <3> HIDE DEF d
    <3>1. First(str, d) \in d .. n
      BY <2>3, <2>4, FirstComma
    <3> QED  BY <3>1, <2>3, <1>0
  <2>6. ~Undone(str, behind)
    <3> HIDE DEF d
    <3> QED  BY <2>2, <2>3, <2>4, UndoneMore DEF d
  <2> HIDE DEF behind
  <2>7. m \in 0 .. n /\ n + 1 - m = behind /\ ~(k <= m)
    BY <2>2, <2>5, <1>0
  <2> HIDE DEF m
  <2>8. m \in Wrong
    BY <2>6, <2>7
  <2> QED  BY <2>1, <2>7, <2>8
<1>2. ASSUME NEW last \in 1 .. n + 1 PROVE Undone(str, last)
  <2> DEFINE k == n + 1 - last
  <2>1. k \in 0 .. n /\ n + 1 - k = last
    BY <1>0
  <2> HIDE DEF k
  <2>2. k \notin Wrong
    BY <1>1
  <2> QED  BY <2>1, <2>2
<1> QED  BY <1>2

LEMMA TextsAreSequences == Texts \subseteq Seq(Letters)
<1> SUFFICES ASSUME NEW str \in Texts PROVE str \in Seq(Letters)
  OBVIOUS
<1>1. PICK m \in 0 .. MaxText : str \in [1 .. m -> Letters]
  BY DEF Texts, BoundedSeq, SeqOf, Letters
<1>2. m \in Nat
  BY TextAssumption
<1> QED  BY <1>1, <1>2, IsASeq

(* stringSplitAscii takes every text apart at its commas, and only there:  *)
(* the methods a runner calls, put together again, are the packet's        *)
(* callMethods.                                                            *)
THEOREM SplitRight == Spec => []SplitUndone
<1>1. CallInv => SplitUndone
  <2> SUFFICES ASSUME CallInv PROVE SplitUndone
    OBVIOUS
  <2>1. callMethods \in Seq(Letters)
    BY TextsAreSequences DEF CallInv, CallTypes
  <2>2. 1 \in 1 .. Len(callMethods) + 1
    BY <2>1, LenProperties
  <2>3. Undone(callMethods, 1)
    BY <2>1, <2>2, UndoneAnywhere
  <2>4. methods = Pieces(callMethods)[1]
    BY SplitIsPieces DEF methods
  <2>5. Joins(methods) /\ NoComma(methods)
    BY <2>3, <2>4 DEF Undone
  <2>6. Joined(methods) = callMethods
    BY <2>1, <2>3, <2>4, SubSeqFull DEF Undone
  <2>7. DOMAIN methods = 1 .. Len(methods)
    BY <2>5, LenProperties DEF Joins
  <2> QED  BY <2>5, <2>6, <2>7 DEF SplitUndone, Joins, NoComma
<1> QED  BY <1>1, CallAlways, PTL
==============================================================================
