------------------------ MODULE RunControllerProofs -------------------------
(***************************************************************************)
(* Theorems about the window that follows a Run, for any number of Runs    *)
(* and events, any size of a page and any capacity of the wire: it shows   *)
(* exactly the first events of its Run, and no outcome but the committed   *)
(* one.                                                                    *)
(*                                                                         *)
(* The argument: logs only grow, and not beyond a final event; whatever    *)
(* hands an event to the window, an emission or a page, hands it one that  *)
(* it has or the next one.  A page begins behind the cursor of its call,   *)
(* and the cursor behind what the window has, as long as the window still  *)
(* follows the Run of the call; and it never follows a Run again.          *)
(***************************************************************************)
EXTENDS RunController, WellFoundedInduction, TLAPS

LEMMA LeastNumber ==
  ASSUME NEW T, T \subseteq Nat, T # {}
  PROVE  \E n \in T : \A m \in T : n <= m
<1>1. PICK n \in T : \A m \in T : <<m, n>> \notin OpToRel(<, Nat)
  BY NatLessThanWellFounded, WFMin, Zenon
<1>2. ASSUME NEW m \in T PROVE n <= m
  <2>1. m \in Nat /\ n \in Nat
    OBVIOUS
  <2>2. m < n => <<m, n>> \in OpToRel(<, Nat)
    BY <2>1 DEF OpToRel
  <2>3. ~(m < n)
    BY <1>1, <2>2, Zenon
  <2> QED BY <2>1, <2>3
<1> QED BY <1>2

----------------------------------------------------------------------------
(* Logs: what the order of a Run's events is good for.                     *)

Ended(l) == l # <<>> /\ Last(l) \in Finals

\* An end is the last event; the outcome of a node follows its start and comes
\* right before the end, a success before the success of the Run.
WellOrdered(l) ==
  /\ l \in Seq(Kinds)
  /\ \A i \in 1 .. Len(l) :
       /\ l[i] \in Finals => i = Len(l)
       /\ l[i] \in {"node_succeeded", "node_failed"} =>
            /\ i > 1 /\ l[i - 1] = "node_started"
            /\ i < Len(l) => l[i + 1] \in Finals
       /\ l[i] = "run_succeeded" => i > 1 /\ l[i - 1] = "node_succeeded"
       /\ l[i] = "run_failed" => i > 1 /\ l[i - 1] = "node_failed"

\* m continues l, but for a log that has ended.
Continues(l, m) ==
  /\ Len(l) <= Len(m) /\ \A i \in 1 .. Len(l) : m[i] = l[i]
  /\ Ended(l) => m = l

LEMMA AdmissionIsOrdered == WellOrdered(<<"run_queued">>) /\ Continues(<<>>, <<"run_queued">>)
BY DEF WellOrdered, Continues, Ended, Kinds, Finals

LEMMA OneMore ==
  ASSUME DeliveryAssumption, NEW l, WellOrdered(l), l # <<>>, NEW kind \in Follows(Last(l))
  PROVE  WellOrdered(l \o <<kind>>) /\ Continues(l, l \o <<kind>>)
<1> DEFINE m == l \o <<kind>>
<1>1. l \in Seq(Kinds) /\ Len(l) \in Nat \ {0} /\ Last(l) = l[Len(l)] /\ Last(l) \in Kinds
  BY DEF WellOrdered, Last
<1>2. kind \in Kinds /\ Last(l) \notin Finals
  BY <1>1 DEF Follows, Kinds, Finals, DeliveryAssumption
<1>3. /\ m \in Seq(Kinds) /\ Len(m) = Len(l) + 1 /\ m[Len(m)] = kind
      /\ \A i \in 1 .. Len(l) : m[i] = l[i]
  BY <1>1, <1>2
<1>4. kind \in {"node_succeeded", "node_failed"} => Last(l) = "node_started"
  BY <1>1 DEF Follows, Kinds, Finals, DeliveryAssumption
<1>5. Last(l) \in {"node_succeeded", "node_failed"} => kind \in Finals
  BY <1>1 DEF Follows, Finals, DeliveryAssumption
<1>6. /\ kind = "run_succeeded" => Last(l) = "node_succeeded"
      /\ kind = "run_failed" => Last(l) = "node_failed"
  BY <1>1 DEF Follows, Finals, Kinds, DeliveryAssumption
<1> HIDE DEF m
<1>7. ASSUME NEW i \in 1 .. Len(m)
      PROVE  /\ m[i] \in Finals => i = Len(m)
             /\ m[i] \in {"node_succeeded", "node_failed"} =>
                  /\ i > 1 /\ m[i - 1] = "node_started"
                  /\ i < Len(m) => m[i + 1] \in Finals
             /\ m[i] = "run_succeeded" => i > 1 /\ m[i - 1] = "node_succeeded"
             /\ m[i] = "run_failed" => i > 1 /\ m[i - 1] = "node_failed"
  <2>1. CASE i = Len(m)
    <3>1. i - 1 = Len(l) /\ i > 1 /\ m[i - 1] = Last(l) /\ m[i] = kind
      BY <1>1, <1>3, <2>1
    <3> QED BY <1>3, <1>4, <1>6, <2>1, <3>1
  <2>2. CASE i = Len(l)
    <3>1. /\ m[i] = Last(l) /\ m[i] = l[i] /\ m[i + 1] = kind /\ (i > 1 => m[i - 1] = l[i - 1])
          /\ i \in 1 .. Len(l)
      BY <1>1, <1>3, <2>2
    <3>2. l[i] \notin Finals
      BY <1>2, <3>1
    <3>3. l[i] # "run_succeeded" /\ l[i] # "run_failed"
      BY <3>2 DEF Finals
    <3>4. l[i] \in {"node_succeeded", "node_failed"} => i > 1 /\ l[i - 1] = "node_started"
      BY <3>1 DEF WellOrdered
    <3> QED BY <1>5, <3>1, <3>2, <3>3, <3>4
  <2>3. CASE i < Len(l)
    <3>1. /\ i \in 1 .. Len(l) /\ i # Len(l) /\ m[i] = l[i] /\ m[i + 1] = l[i + 1]
          /\ i > 1 => m[i - 1] = l[i - 1]
      <4>1. i \in 1 .. Len(l) /\ i + 1 \in 1 .. Len(l) /\ (i > 1 => i - 1 \in 1 .. Len(l))
        BY <1>1, <2>3
      <4>2. i # Len(l)
        BY <1>1, <2>3
      <4> QED BY <1>3, <4>1, <4>2, Zenon
    <3> QED BY <2>3, <3>1 DEF WellOrdered
  <2> QED BY <1>1, <1>3, <2>1, <2>2, <2>3
<1>8. WellOrdered(m)
  BY <1>3, <1>7 DEF WellOrdered
<1>9. Continues(l, m)
  BY <1>1, <1>2, <1>3 DEF Continues, Ended
<1> QED BY <1>8, <1>9 DEF m

LEMMA CancellationContinues ==
  ASSUME NEW r, WellOrdered(log[r]), log[r] # <<>>, ~Over(r)
  PROVE  /\ CancellationEvents(r) # <<>>
         /\ WellOrdered(log[r] \o CancellationEvents(r))
         /\ Continues(log[r], log[r] \o CancellationEvents(r))
         /\ Ended(log[r] \o CancellationEvents(r))
         /\ Last(log[r] \o CancellationEvents(r)) = "run_cancelled"
<1> DEFINE l == log[r]
           m == l \o CancellationEvents(r)
<1>1. l \in Seq(Kinds) /\ Len(l) \in Nat \ {0} /\ Last(l) = l[Len(l)] /\ Last(l) \notin Finals
  BY DEF WellOrdered, Last, Over
<1>2. CASE Last(l) \in {"node_succeeded", "node_failed"}
  <2>1. CancellationEvents(r) = <<"run_cancelled">>
    BY <1>2 DEF CancellationEvents
  <2>2. /\ m \in Seq(Kinds) /\ Len(m) = Len(l) + 1 /\ m[Len(m)] = "run_cancelled"
        /\ \A i \in 1 .. Len(l) : m[i] = l[i]
    BY <1>1, <2>1 DEF Kinds, Finals
  <2> HIDE DEF m
  <2>3. ASSUME NEW i \in 1 .. Len(m)
        PROVE  /\ m[i] \in Finals => i = Len(m)
               /\ m[i] \in {"node_succeeded", "node_failed"} =>
                    /\ i > 1 /\ m[i - 1] = "node_started"
                    /\ i < Len(m) => m[i + 1] \in Finals
               /\ m[i] = "run_succeeded" => i > 1 /\ m[i - 1] = "node_succeeded"
               /\ m[i] = "run_failed" => i > 1 /\ m[i - 1] = "node_failed"
    <3>1. CASE i = Len(m)
      BY <2>2, <3>1
    <3>2. CASE i # Len(m)
      <4>1. i \in 1 .. Len(l) /\ (i > 1 => i - 1 \in 1 .. Len(l))
            /\ (i = Len(l) \/ i + 1 \in 1 .. Len(l))
        BY <1>1, <2>2, <3>2
      <4>2. m[i] = l[i] /\ (i > 1 => m[i - 1] = l[i - 1]) /\ (i # Len(l) => m[i + 1] = l[i + 1])
        BY <1>1, <2>2, <4>1
      <4>3. l[i] \notin Finals
        BY <1>1, <4>1 DEF WellOrdered
      <4>4. l[i] \in {"node_succeeded", "node_failed"} => i > 1 /\ l[i - 1] = "node_started"
        BY <4>1 DEF WellOrdered
      <4>5. l[i] \in {"node_succeeded", "node_failed"} => m[i + 1] \in Finals
        <5>1. CASE i = Len(l)
          BY <2>2, <5>1 DEF Finals
        <5>2. CASE i # Len(l)
          <6>1. i < Len(l)
            BY <1>1, <4>1, <5>2
          <6> QED BY <4>1, <4>2, <5>2, <6>1 DEF WellOrdered
        <5> QED BY <5>1, <5>2
      <4>6. l[i] # "run_succeeded" /\ l[i] # "run_failed"
        BY <4>3 DEF Finals
      <4> QED BY <4>2, <4>3, <4>4, <4>5, <4>6
    <3> QED BY <3>1, <3>2
  <2>4. WellOrdered(m)
    BY <2>2, <2>3 DEF WellOrdered
  <2>5. Continues(l, m) /\ Ended(m) /\ Last(m) = "run_cancelled"
    BY <1>1, <2>2 DEF Continues, Ended, Finals, Last
  <2> QED BY <2>1, <2>4, <2>5 DEF m
<1>3. CASE Last(l) \notin {"node_succeeded", "node_failed"}
  <2>1. CancellationEvents(r) = <<"node_cancelled", "run_cancelled">>
    BY <1>3 DEF CancellationEvents
  <2>2. /\ m \in Seq(Kinds) /\ Len(m) = Len(l) + 2 /\ m[Len(m)] = "run_cancelled"
        /\ m[Len(l) + 1] = "node_cancelled" /\ \A i \in 1 .. Len(l) : m[i] = l[i]
    BY <1>1, <2>1 DEF Kinds, Finals
  <2> HIDE DEF m
  <2>3. ASSUME NEW i \in 1 .. Len(m)
        PROVE  /\ m[i] \in Finals => i = Len(m)
               /\ m[i] \in {"node_succeeded", "node_failed"} =>
                    /\ i > 1 /\ m[i - 1] = "node_started"
                    /\ i < Len(m) => m[i + 1] \in Finals
               /\ m[i] = "run_succeeded" => i > 1 /\ m[i - 1] = "node_succeeded"
               /\ m[i] = "run_failed" => i > 1 /\ m[i - 1] = "node_failed"
    <3>1. CASE i > Len(l)
      <4>1. i = Len(m) \/ i = Len(l) + 1
        BY <1>1, <2>2, <3>1
      <4> QED BY <2>2, <4>1 DEF Finals
    <3>2. CASE ~(i > Len(l))
      <4>1. i \in 1 .. Len(l) /\ (i > 1 => i - 1 \in 1 .. Len(l))
            /\ (i = Len(l) \/ i + 1 \in 1 .. Len(l))
        BY <1>1, <2>2, <3>2
      <4> QED BY <1>1, <1>3, <2>2, <4>1 DEF WellOrdered, Finals
    <3> QED BY <3>1, <3>2
  <2>4. WellOrdered(m)
    BY <2>2, <2>3 DEF WellOrdered
  <2>5. Continues(l, m) /\ Ended(m) /\ Last(m) = "run_cancelled"
    BY <1>1, <2>2 DEF Continues, Ended, Finals, Last
  <2> QED BY <2>1, <2>4, <2>5 DEF m
<1> QED BY <1>2, <1>3

----------------------------------------------------------------------------
(* What the window shows, when it has the first events of its Run.         *)

Screens ==
  [request : Requests \cup {None}, active : Runs \cup {None}, listening : BOOLEAN,
   seen : SUBSET Nat, last : Nat, shown : {"none", "running", "done", "error"},
   status : Statuses]
Applied(u, kind) == \E n \in 1 .. u.last : log[u.request][n] = kind
\* ShowsPrefix and OutcomeIsCommitted, of any state of the controller.
ShowsFirst(u) ==
  u.request # None =>
    /\ u.last <= Len(log[u.request]) /\ u.seen = 1 .. u.last
    /\ (u.shown = "done") <=> Applied(u, "node_succeeded")
    /\ u.active # None => /\ (u.shown = "error") <=> Applied(u, "node_failed")
                          /\ (u.shown = "none") <=>
                               ~(Applied(u, "node_started") \/ Applied(u, "node_cancelled"))
TellsTheEnd(u) ==
  \A kind \in Finals :
    u.status = Outcome(kind) =>
      u.request # None /\ Over(u.request) /\ Last(log[u.request]) = kind
WindowFits(u) ==
  u \in Screens /\ u.active \in {None, u.request} /\ ShowsFirst(u) /\ TellsTheEnd(u)

\* What an event says of those before it.
LEMMA EventsBefore ==
  ASSUME NEW r \in Runs, WellOrdered(log[r]), NEW u, u.last \in Nat, u.request = r,
         u.last + 1 \in 1 .. Len(log[r])
  PROVE  LET kind == log[r][u.last + 1]
         IN /\ kind \in Kinds
            /\ Applied(u, "node_succeeded") \/ Applied(u, "node_failed") => kind \in Finals
            /\ kind = "run_succeeded" => Applied(u, "node_succeeded")
            /\ kind = "run_failed" => ~Applied(u, "node_succeeded")
            /\ kind \in {"node_succeeded", "node_failed"} => Applied(u, "node_started")
            /\ kind \in Finals => Over(r) /\ Last(log[r]) = kind
<1> DEFINE l == log[r]
           n == u.last + 1
<1>1. l \in Seq(Kinds) /\ Len(l) \in Nat /\ n \in 1 .. Len(l) /\ l[n] \in Kinds
  BY DEF WellOrdered
<1>2. n > 1 => u.last \in 1 .. u.last /\ n - 1 = u.last
  OBVIOUS
<1>3. ASSUME NEW i \in 1 .. u.last, l[i] \in {"node_succeeded", "node_failed"}
      PROVE  l[n] \in Finals /\ i = n - 1
  <2>1. i \in 1 .. Len(l) /\ i + 1 \in 1 .. Len(l) /\ i < Len(l)
    BY <1>1
  <2>2. l[i + 1] \in Finals
    BY <1>3, <2>1 DEF WellOrdered
  <2>3. i + 1 = Len(l)
    BY <2>1, <2>2 DEF WellOrdered
  <2> QED BY <1>1, <2>2, <2>3
<1>4. l[n] \in {"run_succeeded", "node_succeeded", "node_failed", "run_failed"} => n > 1
  BY <1>1 DEF WellOrdered
<1>5. l[n] = "run_succeeded" => Applied(u, "node_succeeded")
  BY <1>1, <1>2, <1>4 DEF WellOrdered, Applied
<1>6. l[n] \in {"node_succeeded", "node_failed"} => Applied(u, "node_started")
  BY <1>1, <1>2, <1>4 DEF WellOrdered, Applied
<1>7. l[n] = "run_failed" => l[n - 1] = "node_failed"
  BY <1>1 DEF WellOrdered
<1>8. l[n] \in Finals => Over(r) /\ Last(l) = l[n]
  BY <1>1 DEF WellOrdered, Over, Last
<1> HIDE DEF l, n
<1>9. Applied(u, "node_succeeded") \/ Applied(u, "node_failed") => l[n] \in Finals
  BY <1>3 DEF Applied, l
<1>10. l[n] = "run_failed" => ~Applied(u, "node_succeeded")
  BY <1>3, <1>7 DEF Applied, l
<1> QED BY <1>1, <1>5, <1>6, <1>8, <1>9, <1>10 DEF l, n

\* An event that the window has, or the next one, leaves it with the first
\* events of its Run.
LEMMA AcceptFits ==
  ASSUME NEW r \in Runs, WellOrdered(log[r]), NEW u, WindowFits(u),
         NEW n \in 1 .. Len(log[r]), u.request = r => n <= u.last + 1
  PROVE  /\ WindowFits(Accept(u, r, n))
         /\ Accept(u, r, n).request = u.request
         /\ u.request # r => Accept(u, r, n) = u
         /\ u.request = r => Accept(u, r, n).last = Larger(u.last, n)
<1>1. u \in Screens /\ r # None /\ Len(log[r]) \in Nat
  BY DEF WindowFits, WellOrdered, Runs, None
<1>2. CASE u.request # r \/ n \in u.seen
  <2>1. Accept(u, r, n) = u
    BY <1>2 DEF Accept
  <2>2. u.request = r => n \in 1 .. u.last /\ u.last \in Nat
    BY <1>1, <1>2 DEF WindowFits, ShowsFirst, Screens
  <2>3. u.request = r => Larger(u.last, n) = u.last
    BY <2>2 DEF Larger
  <2> QED BY <2>1, <2>3
<1>3. CASE u.request = r /\ n \notin u.seen
  <2> DEFINE kind == log[r][n]
             w == [u EXCEPT !.seen = @ \cup {n}, !.last = Larger(@, n)]
             v == Show(w, kind)
  <2>1. u.last \in Nat /\ u.seen = 1 .. u.last /\ n = u.last + 1
    BY <1>1, <1>3 DEF WindowFits, ShowsFirst, Screens
  <2>2. Accept(u, r, n) = v /\ n <= Len(log[r])
    BY <1>1, <1>3 DEF Accept
  <2>3. /\ w \in Screens /\ w.request = r /\ w.last = n /\ w.seen = 1 .. n
        /\ w.active = u.active /\ w.shown = u.shown /\ w.status = u.status
    <3>1. Larger(u.last, n) = n /\ u.seen \cup {n} = 1 .. n /\ n \in Nat /\ 1 .. n \in SUBSET Nat
      BY <2>1 DEF Larger
    <3>2. w = [u EXCEPT !.seen = 1 .. n, !.last = n]
      BY <3>1
    <3> HIDE DEF w
    <3> QED BY <1>1, <1>3, <3>1, <3>2 DEF Screens
  <2>4. /\ kind \in Kinds
        /\ Applied(u, "node_succeeded") \/ Applied(u, "node_failed") => kind \in Finals
        /\ kind = "run_succeeded" => Applied(u, "node_succeeded")
        /\ kind = "run_failed" => ~Applied(u, "node_succeeded")
        /\ kind \in {"node_succeeded", "node_failed"} => Applied(u, "node_started")
        /\ kind \in Finals => Over(r) /\ Last(log[r]) = kind
    BY <1>3, <2>1, EventsBefore
  <2> HIDE DEF w, kind
  <2>5. /\ (u.shown = "done") <=> Applied(u, "node_succeeded")
        /\ u.active # None => /\ (u.shown = "error") <=> Applied(u, "node_failed")
                              /\ (u.shown = "none") <=>
                                   ~(Applied(u, "node_started") \/ Applied(u, "node_cancelled"))
    BY <1>1, <1>3 DEF WindowFits, ShowsFirst
  <2>6. \A k : Applied(w, k) <=> Applied(u, k) \/ k = kind
    <3>1. 1 .. n = 1 .. u.last \cup {n}
      BY <2>1
    <3> QED BY <1>3, <2>3, <3>1 DEF Applied, kind
  <2>7. /\ v \in Screens /\ v.request = r /\ v.last = n /\ v.seen = 1 .. n
        /\ v.active \in {None, u.active}
        /\ \A k : Applied(v, k) <=> Applied(w, k)
    <3>1. /\ v \in Screens /\ v.request = w.request /\ v.last = w.last /\ v.seen = w.seen
          /\ v.active \in {None, w.active}
      <4>1. CASE kind \in {"node_started", "node_succeeded", "node_failed", "node_cancelled"}
        <5>1. ShownAfter(kind) \in {"running", "done", "error"} /\ "running" \in Statuses
          BY <4>1 DEF ShownAfter, Statuses
        <5> QED BY <2>3, <4>1, <5>1 DEF Show, Screens
      <4>2. CASE kind \in Finals
        <5>1. Outcome(kind) \in {"succeeded", "failed", "cancelled"} /\ Outcome(kind) \in Statuses
          BY <4>2 DEF Outcome, Finals, Statuses
        <5>2. SettleNode(w.shown, Outcome(kind)) \in {"none", "running", "done", "error"}
          BY <2>3, <5>1 DEF SettleNode, Screens
        <5>3. v = Settle(w, Outcome(kind))
          BY <4>2 DEF Show, Finals
        <5> QED BY <2>3, <5>1, <5>2, <5>3 DEF Settle, Screens
      <4>3. CASE kind \in {"run_queued", "run_started"}
        BY <2>3, <4>3 DEF Show, Finals
      <4> QED BY <2>4, <4>1, <4>2, <4>3 DEF Kinds
    <3> QED BY <2>3, <3>1 DEF Applied
  <2>8. ASSUME kind \in {"run_queued", "run_started"}
        PROVE  ShowsFirst(v) /\ TellsTheEnd(v)
    <3>1. v = w
      BY <2>8 DEF Show, Finals
    <3>2. TellsTheEnd(v)
      BY <1>3, <2>3, <3>1 DEF WindowFits, TellsTheEnd
    <3>3. ShowsFirst(v)
      BY <2>2, <2>3, <2>5, <2>6, <2>8, <3>1 DEF ShowsFirst
    <3> QED BY <3>2, <3>3
  <2>9. ASSUME kind \in {"node_started", "node_cancelled", "node_succeeded", "node_failed"}
        PROVE  ShowsFirst(v) /\ TellsTheEnd(v)
    <3>1. v.shown = ShownAfter(kind) /\ v.status = "running" /\ v.active = u.active
      BY <2>3, <2>9 DEF Show, Screens
    <3>2. TellsTheEnd(v)
      BY <3>1 DEF TellsTheEnd, Outcome, Finals
    <3>3. ~Applied(u, "node_succeeded") /\ ~Applied(u, "node_failed")
      BY <2>4, <2>9 DEF Finals
    <3>4. ShowsFirst(v)
      BY <2>2, <2>4, <2>6, <2>7, <2>9, <3>1, <3>3 DEF ShowsFirst, ShownAfter
    <3> QED BY <3>2, <3>4
  <2>10. ASSUME kind \in Finals PROVE ShowsFirst(v) /\ TellsTheEnd(v)
    <3>1. v.active = None /\ v.status = Outcome(kind) /\ v.shown = SettleNode(u.shown, Outcome(kind))
      BY <2>3, <2>10 DEF Show, Settle, Screens, Finals
    <3>2. TellsTheEnd(v)
      BY <1>1, <2>4, <2>7, <2>10, <3>1 DEF TellsTheEnd, Outcome, Finals
    <3>3. (v.shown = "done") <=> Applied(u, "node_succeeded")
      BY <2>4, <2>5, <2>10, <3>1 DEF SettleNode, Outcome, Finals
    <3>4. Applied(v, "node_succeeded") <=> Applied(u, "node_succeeded")
      BY <2>6, <2>7, <2>10 DEF Finals
    <3>5. ShowsFirst(v)
      BY <2>2, <2>7, <3>1, <3>3, <3>4 DEF ShowsFirst
    <3> QED BY <3>2, <3>5
  <2>11. ShowsFirst(v) /\ TellsTheEnd(v)
    BY <2>4, <2>8, <2>9, <2>10 DEF Kinds
  <2>12. v.active \in {None, v.request}
    BY <1>3, <2>7 DEF WindowFits
  <2> HIDE DEF v
  <2>13. Larger(u.last, n) = n
    BY <2>1 DEF Larger
  <2> QED BY <1>3, <2>2, <2>7, <2>11, <2>12, <2>13 DEF WindowFits
<1> QED BY <1>2, <1>3

\* AcceptPage unfolds: what it has accepted up to each event of the page.
AreAccepted(f, u, r, from, to) ==
  f = [n \in from - 1 .. to |-> IF n < from THEN u ELSE Accept(f[n - 1], r, n)]

LEMMA AcceptedDefined ==
  ASSUME NEW u, NEW r, NEW from \in Nat \ {0}, NEW to \in Nat, from - 1 <= to
  PROVE  \E f : AreAccepted(f, u, r, from, to)
<1> DEFINE Fits(f, k) == AreAccepted(f, u, r, from, k)
           bad == {k \in Nat : from - 1 <= k /\ ~\E f : Fits(f, k)}
<1> SUFFICES ASSUME bad # {} PROVE FALSE
  OBVIOUS
<1>1. PICK k \in bad : \A m \in bad : k <= m
  <2> HIDE DEF Fits
  <2>1. bad \subseteq Nat
    OBVIOUS
  <2> HIDE DEF bad
  <2> QED BY <2>1, LeastNumber
<1>2. k # from - 1
  <2>1. Fits([i \in from - 1 .. from - 1 |-> u], from - 1)
    BY DEF AreAccepted
  <2> QED BY <2>1
<1>3. k \in Nat /\ k - 1 \in Nat /\ k - 1 < k /\ from - 1 <= k - 1
  BY <1>2
<1>4. k - 1 \notin bad
  <2> HIDE DEF bad
  <2> QED BY <1>1, <1>3
<1>5. PICK f : Fits(f, k - 1)
  BY <1>3, <1>4
<1> DEFINE g == [i \in from - 1 .. k |-> IF i = k THEN Accept(f[k - 1], r, k) ELSE f[i]]
<1>6. Fits(g, k)
  <2>1. ASSUME NEW i \in from - 1 .. k
        PROVE  g[i] = IF i < from THEN u ELSE Accept(g[i - 1], r, i)
    <3>1. CASE i = k
      BY <1>3, <3>1
    <3>2. CASE i # k
      <4>1. i \in from - 1 .. k - 1
        BY <1>3, <3>2
      <4>2. f[i] = IF i < from THEN u ELSE Accept(f[i - 1], r, i)
        BY <1>5, <4>1 DEF AreAccepted
      <4>3. ~(i < from) => g[i - 1] = f[i - 1]
        BY <1>3, <4>1
      <4> QED BY <3>2, <4>2, <4>3
    <3> QED BY <3>1, <3>2
  <2>2. g = [i \in from - 1 .. k |-> g[i]]
    OBVIOUS
  <2> HIDE DEF g
  <2> QED BY <2>1, <2>2 DEF AreAccepted
<1>7. k \notin bad
  BY <1>6
<1> QED BY <1>1, <1>7

\* A page that begins no later than behind what the window has leaves it with
\* the first events of its Run, those of the page among them.
LEMMA PageFits ==
  ASSUME NEW r \in Runs, WellOrdered(log[r]), NEW u, WindowFits(u),
         NEW page, page.from \in Nat \ {0}, page.to \in Nat, page.from - 1 <= page.to,
         page.to <= Len(log[r]), u.request = r => page.from <= u.last + 1
  PROVE  /\ WindowFits(AcceptPage(u, r, page))
         /\ AcceptPage(u, r, page).request = u.request
         /\ u.request # r => AcceptPage(u, r, page) = u
         /\ u.request = r => /\ AcceptPage(u, r, page).last >= u.last
                             /\ AcceptPage(u, r, page).last >= page.to
<1> DEFINE from == page.from
           to == page.to
           accepted == CHOOSE f : AreAccepted(f, u, r, from, to)
           Fits(k) == /\ WindowFits(accepted[k]) /\ accepted[k].request = u.request
                      /\ u.request # r => accepted[k] = u
                      /\ u.request = r => accepted[k].last >= u.last /\ accepted[k].last >= k
           bad == {k \in from - 1 .. to : ~Fits(k)}
<1>1. AcceptPage(u, r, page) = accepted[to]
  BY DEF AcceptPage, AreAccepted
<1>2. u.last \in Nat /\ Len(log[r]) \in Nat
  BY DEF WindowFits, Screens, WellOrdered
<1>3. AreAccepted(accepted, u, r, from, to)
  BY AcceptedDefined
<1> HIDE DEF accepted
<1>4. ASSUME bad # {} PROVE FALSE
  <2>1. bad \subseteq Nat
    OBVIOUS
  <2>2. PICK k \in bad : \A m \in bad : k <= m
    <3> HIDE DEF bad
    <3> QED BY <1>4, <2>1, LeastNumber
  <2>3. k \in from - 1 .. to /\ accepted[k] = IF k < from THEN u ELSE Accept(accepted[k - 1], r, k)
    BY <1>3 DEF AreAccepted
  <2>4. CASE k < from
    BY <1>2, <2>2, <2>3, <2>4
  <2>5. CASE ~(k < from)
    <3>1. k - 1 \in from - 1 .. to /\ k - 1 \in Nat /\ k \in 1 .. Len(log[r]) /\ k - 1 < k
      BY <1>2, <2>3, <2>5
    <3>2. k - 1 \notin bad
      <4> HIDE DEF bad
      <4> QED BY <2>2, <3>1
    <3>3. Fits(k - 1)
      BY <3>1, <3>2
    <3> DEFINE a == accepted[k - 1]
               b == Accept(a, r, k)
    <3>4. WindowFits(a) /\ (a.request = r => a.last \in Nat /\ k <= a.last + 1)
      BY <3>1, <3>3 DEF WindowFits, Screens
    <3>5. /\ WindowFits(b) /\ b.request = a.request /\ (a.request # r => b = a)
          /\ a.request = r => b.last = Larger(a.last, k)
      <4> HIDE DEF a
      <4> QED BY <3>1, <3>4, AcceptFits
    <3>6. accepted[k] = b
      BY <2>3, <2>5
    <3>7. a.request = r => b.last >= a.last /\ b.last >= k /\ b.last \in Nat
      <4> HIDE DEF a, b
      <4> QED BY <3>1, <3>4, <3>5 DEF Larger
    <3>8. a.request = u.request /\ (u.request # r => a = u) /\ (u.request = r => a.last >= u.last)
      BY <3>3
    <3>9. u.request = r => b.last >= u.last
      <4> HIDE DEF a, b
      <4> QED BY <1>2, <3>4, <3>7, <3>8
    <3>10. Fits(k)
      <4> HIDE DEF a, b
      <4> QED BY <3>5, <3>6, <3>7, <3>8, <3>9
    <3> QED BY <2>2, <3>10
  <2> QED BY <2>4, <2>5
<1>5. Fits(to)
  BY <1>4
<1> QED BY <1>1, <1>5

----------------------------------------------------------------------------
(* The inductive invariant.                                                *)

Started == {"none", "observing", "admitting", "admitted"}
CallRows ==
  [pc : {"none", "observing", "admitting", "admitted", "reading", "reply", "done"},
   cursor : Nat, page : PageType]
GapRows ==
  [pc : {"none", "reading", "reply", "broken"}, run : Runs \cup {None}, cursor : Nat,
   page : PageType]
Answers == {"none", "asked", "cancelled", "refused", "answered"}

\* What was emitted was committed.
DeliveryFits ==
  /\ DeliveryType /\ \A r \in Runs : WellOrdered(log[r])
  /\ \A i \in 1 .. Len(wire) : wire[i].sequence \in 1 .. Len(log[wire[i].run])

PageIs(page, cursor, r) ==
  page.from = cursor + 1 /\ cursor <= page.to /\ page.to <= Len(log[r])

\* A request shows nothing before it is admitted, and is made once; what it
\* reads begins behind what the window has, if the window still follows it.
CallFits(q) ==
  /\ call[q] \in CallRows
  /\ call[q].pc \in {"none", "observing", "admitting"} => log[q] = <<>>
  /\ call[q].pc \in {"admitted", "reading", "reply"} => log[q] # <<>>
  /\ call[q].pc = "none" => ui.request # q
  /\ call[q].pc \in Started /\ ui.request = q =>
       ui.active = None /\ ui.last = 0 /\ ui.shown = "none"
  /\ call[q].pc \in {"reading", "reply"} =>
       call[q].cursor <= Len(log[q]) /\ (ui.request = q => call[q].cursor <= ui.last)
  /\ call[q].pc = "reply" => PageIs(call[q].page, call[q].cursor, q)

\* A repair holds back the emission that it is for, and its last page has it.
GapFits ==
  /\ gap \in GapRows
  /\ gap.pc \in {"reading", "reply"} =>
       /\ wire # <<>> /\ Head(wire).run = gap.run /\ gap.run \in Runs
       /\ call[gap.run].pc \notin Started
       /\ gap.cursor <= Len(log[gap.run]) /\ (ui.request = gap.run => gap.cursor <= ui.last)
  /\ gap.pc = "reply" =>
       /\ PageIs(gap.page, gap.cursor, gap.run)
       /\ ~gap.page.more => Head(wire).sequence <= gap.page.to

CancelFits(r) ==
  /\ cancelling[r] \in Answers
  /\ cancelling[r] # "none" => log[r] # <<>>
  /\ cancelling[r] = "cancelled" => Over(r) /\ Last(log[r]) = "run_cancelled"

ActiveFits == ui.active # None => log[ui.active] # <<>>

WindowInvariant ==
  /\ DeliveryFits /\ WindowFits(ui) /\ ActiveFits /\ GapFits
  /\ call = [q \in Requests |-> call[q]] /\ \A q \in Requests : CallFits(q)
  /\ cancelling = [r \in Runs |-> cancelling[r]] /\ \A r \in Runs : CancelFits(r)
  /\ troubles \in 0 .. MaxTroubles

LEMMA InitFits == Init => WindowInvariant
<1> SUFFICES ASSUME Init PROVE WindowInvariant
  OBVIOUS
<1> USE DEF Init, InitDelivery
<1>1. DeliveryFits
  BY DeliveryAssumption DEF DeliveryFits, DeliveryType, WellOrdered, DeliveryAssumption
<1>2. WindowFits(ui) /\ ActiveFits
  BY DEF WindowFits, ActiveFits, ShowsFirst, TellsTheEnd, Blank, Screens, Statuses, Outcome,
         Finals, None
<1>3. GapFits
  BY DEF GapFits, GapRows, NoGap, PageType, NoPage, None
<1>4. call = [q \in Requests |-> call[q]] /\ \A q \in Requests : CallFits(q)
  BY DEF CallFits, CallRows, Call, PageType, NoPage, Blank, None, Runs, Requests
<1>5. cancelling = [r \in Runs |-> cancelling[r]] /\ \A r \in Runs : CancelFits(r)
  BY DEF CancelFits, Answers
<1>6. troubles \in 0 .. MaxTroubles
  BY WindowAssumption DEF WindowAssumption
<1> QED BY <1>1, <1>2, <1>3, <1>4, <1>5, <1>6 DEF WindowInvariant

----------------------------------------------------------------------------
(* Steps of the backend.                                                   *)

\* Every log goes on or stays, and at most one event of it is emitted.
Grows ==
  /\ log' \in [Runs -> Seq(Kinds)]
  /\ \A r \in Runs : WellOrdered(log'[r]) /\ Continues(log[r], log'[r])
Emits ==
  \/ wire' = wire
  \/ \E e \in Events :
       /\ Len(wire) < MaxWire /\ wire' = Append(wire, e)
       /\ e.sequence \in 1 .. Len(log'[e.run])

LEMMA EmptyOrNot ==
  ASSUME NEW r \in Runs, WellOrdered(log[r])
  PROVE  Len(log[r]) \in Nat /\ (log[r] # <<>> <=> Len(log[r]) > 0)
BY DEF WellOrdered

LEMMA GrowthFits ==
  ASSUME WindowInvariant, Grows, Emits, UNCHANGED <<ui, gap>>,
         delivered' \in [Runs -> Nat], \A r \in Runs : delivered'[r] <= Len(log'[r]),
         \A q \in Requests : call[q].pc \notin Started => call'[q].pc \notin Started
  PROVE  /\ DeliveryFits' /\ WindowFits(ui)' /\ ActiveFits' /\ GapFits'
         /\ \A q \in Requests : call'[q] = call[q] /\ (log[q] = <<>> => log'[q] = <<>>) => CallFits(q)'
         /\ \A r \in Runs : cancelling'[r] = cancelling[r] => CancelFits(r)'
<1> USE DEF Requests
<1>1. \A r \in Runs : /\ Len(log[r]) \in Nat /\ Len(log'[r]) \in Nat
                       /\ Len(log[r]) <= Len(log'[r])
                       /\ \A i \in 1 .. Len(log[r]) : log'[r][i] = log[r][i]
                       /\ log[r] # <<>> => log'[r] # <<>>
  BY DEF WindowInvariant, DeliveryFits, WellOrdered, Grows, Continues, Ended, Over
<1>2. wire \in Seq(Events) /\ Len(wire) <= MaxWire
  BY DEF WindowInvariant, DeliveryFits, DeliveryType
<1>3. /\ wire' \in Seq(Events) /\ Len(wire') <= MaxWire
      /\ \A i \in 1 .. Len(wire') : wire'[i].sequence \in 1 .. Len(log'[wire'[i].run])
      /\ wire # <<>> => wire' # <<>> /\ Head(wire') = Head(wire)
  <2>1. \A i \in 1 .. Len(wire) :
          wire[i].run \in Runs /\ wire[i].sequence \in 1 .. Len(log'[wire[i].run])
    <3>1. TAKE i \in 1 .. Len(wire)
    <3>2. wire[i] \in Events
      BY <1>2
    <3>3. wire[i].run \in Runs /\ wire[i].sequence \in Nat
      BY <3>2 DEF Events
    <3>4. wire[i].sequence \in 1 .. Len(log[wire[i].run])
      BY DEF WindowInvariant, DeliveryFits
    <3> QED BY <1>1, <3>3, <3>4
  <2>2. CASE wire' = wire
    BY <1>2, <2>1, <2>2
  <2>3. CASE wire' # wire
    <3>1. PICK e \in Events : /\ Len(wire) < MaxWire /\ wire' = Append(wire, e)
                              /\ e.sequence \in 1 .. Len(log'[e.run])
      BY <2>3 DEF Emits
    <3>2. /\ wire' \in Seq(Events) /\ Len(wire') = Len(wire) + 1 /\ wire'[Len(wire')] = e
          /\ \A i \in 1 .. Len(wire) : wire'[i] = wire[i]
      BY <1>2, <3>1
    <3>3. Len(wire') <= MaxWire
      BY <1>2, <3>1, <3>2, DeliveryAssumption DEF DeliveryAssumption
    <3>4. \A i \in 1 .. Len(wire') : i \in 1 .. Len(wire) \/ i = Len(wire')
      BY <1>2, <3>2
    <3>5. \A i \in 1 .. Len(wire') : wire'[i].sequence \in 1 .. Len(log'[wire'[i].run])
      BY <2>1, <3>1, <3>2, <3>4
    <3>6. wire # <<>> => wire' # <<>> /\ Head(wire') = Head(wire)
      BY <1>2, <3>2
    <3> QED BY <3>2, <3>3, <3>5, <3>6
  <2> QED BY <2>2, <2>3
<1>4. DeliveryFits'
  BY <1>3 DEF DeliveryFits, DeliveryType, Grows
<1>5. WindowFits(ui) /\ ui' = ui
  BY DEF WindowInvariant
<1>6. ShowsFirst(ui)'
  <2> SUFFICES ASSUME ui.request # None PROVE ShowsFirst(ui)'
    BY <1>5 DEF ShowsFirst
  <2>1. ui.request \in Runs /\ ui.last \in Nat /\ ui.last <= Len(log[ui.request])
    BY <1>5 DEF WindowFits, Screens, ShowsFirst
  <2>2. \A kind : Applied(ui, kind)' <=> Applied(ui, kind)
    <3>1. ASSUME NEW kind, NEW n \in 1 .. ui.last
          PROVE  log'[ui.request][n] = log[ui.request][n]
      <4>1. n \in 1 .. Len(log[ui.request])
        BY <1>1, <2>1
      <4>2. Continues(log[ui.request], log'[ui.request])
        BY <2>1 DEF Grows
      <4> QED BY <4>1, <4>2 DEF Continues
    <3> QED BY <1>5, <3>1 DEF Applied
  <2>3. ui.last <= Len(log'[ui.request])
    BY <1>1, <2>1
  <2> QED BY <1>5, <2>2, <2>3 DEF WindowFits, ShowsFirst
<1>7. TellsTheEnd(ui)'
  <2>1. SUFFICES ASSUME NEW kind \in Finals, ui.status = Outcome(kind)
                 PROVE  ui.request # None /\ Over(ui.request)' /\ Last(log[ui.request])' = kind
    BY <1>5 DEF TellsTheEnd, Outcome
  <2>2. ui.request # None /\ Over(ui.request) /\ Last(log[ui.request]) = kind
    BY <1>5, <2>1 DEF WindowFits, TellsTheEnd
  <2>3. ui.request \in Runs
    BY <1>5, <2>2 DEF WindowFits, Screens
  <2>4. log'[ui.request] = log[ui.request]
    <3>1. Ended(log[ui.request]) /\ Continues(log[ui.request], log'[ui.request])
      BY <2>2, <2>3 DEF Over, Ended, Grows
    <3> QED BY <3>1 DEF Continues
  <2> QED BY <1>5, <2>2, <2>4 DEF Over
<1>8. WindowFits(ui)' /\ ActiveFits'
  BY <1>1, <1>5, <1>6, <1>7 DEF WindowFits, WindowInvariant, ActiveFits, Screens
<1>9. \A page, cursor : \A r \in Runs :
        page.to \in Nat /\ PageIs(page, cursor, r) => PageIs(page, cursor, r)'
  BY <1>1 DEF PageIs
<1>10. GapFits'
  <2>1. GapFits /\ gap' = gap
    BY DEF WindowInvariant
  <2> SUFFICES ASSUME gap.pc \in {"reading", "reply"} PROVE GapFits'
    BY <2>1 DEF GapFits
  <2>2. gap.run \in Runs /\ gap.cursor \in Nat /\ gap.page.to \in Nat
    BY <2>1 DEF GapFits, GapRows, PageType
  <2>3. gap.cursor <= Len(log'[gap.run])
    BY <1>1, <2>1, <2>2 DEF GapFits
  <2>4. call'[gap.run].pc \notin Started
    BY <2>1, <2>2 DEF GapFits
  <2>5. gap.pc = "reply" => PageIs(gap.page, gap.cursor, gap.run)'
    BY <1>9, <2>1, <2>2 DEF GapFits
  <2> QED BY <1>3, <1>5, <2>1, <2>2, <2>3, <2>4, <2>5 DEF GapFits
<1>11. ASSUME NEW q \in Requests, call'[q] = call[q], log[q] = <<>> => log'[q] = <<>>
       PROVE  CallFits(q)'
  <2>1. CallFits(q) /\ call[q].cursor \in Nat /\ call[q].page.to \in Nat
    BY DEF WindowInvariant, CallFits, CallRows, PageType
  <2>2. call[q].cursor <= Len(log[q]) => call[q].cursor <= Len(log'[q])
    BY <1>1, <2>1
  <2>3. PageIs(call[q].page, call[q].cursor, q) => PageIs(call[q].page, call[q].cursor, q)'
    BY <1>9, <1>11, <2>1
  <2> QED BY <1>1, <1>5, <1>11, <2>1, <2>2, <2>3 DEF CallFits
<1>12. ASSUME NEW r \in Runs, cancelling'[r] = cancelling[r] PROVE CancelFits(r)'
  <2>1. CancelFits(r)
    BY DEF WindowInvariant
  <2>2. log[r] # <<>> => log'[r] # <<>>
    BY <1>1
  <2>3. Over(r) => log'[r] = log[r]
    BY DEF Over, Ended, Grows, Continues
  <2> QED BY <1>12, <2>1, <2>2, <2>3 DEF CancelFits, Over
<1> QED BY <1>4, <1>8, <1>10, <1>11, <1>12

LEMMA CommitGrows ==
  ASSUME WindowInvariant, NEW r \in Runs, log[r] # <<>>, NEW kinds, kinds # <<>>,
         kinds \in Seq(Kinds), WellOrdered(log[r] \o kinds), Continues(log[r], log[r] \o kinds),
         CommitEvents(r, kinds)
  PROVE  /\ Grows /\ Emits /\ log'[r] = log[r] \o kinds
         /\ \A q \in Runs : q # r => log'[q] = log[q]
         /\ \A q \in Runs : log[q] = <<>> => log'[q] = <<>>
         /\ \A q \in Runs : delivered[q] <= Len(log'[q])
<1>1. /\ log \in [Runs -> Seq(Kinds)] /\ \A q \in Runs : WellOrdered(log[q])
      /\ \A q \in Runs : delivered[q] \in Nat /\ delivered[q] <= Len(log[q])
  BY DEF WindowInvariant, DeliveryFits, DeliveryType
<1>2. log' = [log EXCEPT ![r] = log[r] \o kinds]
  BY DEF CommitEvents
<1>3. /\ log'[r] = log[r] \o kinds /\ log' \in [Runs -> Seq(Kinds)]
      /\ \A q \in Runs : q # r => log'[q] = log[q]
  BY <1>1, <1>2
<1>4. \A q \in Runs : q # r => Continues(log[q], log'[q])
  BY <1>1, <1>3 DEF Continues
<1>5. Grows
  BY <1>1, <1>3, <1>4 DEF Grows
<1>6. Len(log[r]) + 1 \in 1 .. Len(log'[r])
  BY <1>1, <1>3
<1>7. Emits
  <2>1. CASE UNCHANGED wire
    BY <2>1 DEF Emits
  <2>2. CASE Emit(Event(r, Len(log[r]) + 1))
    <3>1. Event(r, Len(log[r]) + 1) \in Events
      BY <1>1 DEF Event, Events
    <3> QED BY <1>6, <2>2, <3>1 DEF Emits, Emit, Event
  <2> QED BY <2>1, <2>2 DEF CommitEvents
<1>8. \A q \in Runs : delivered[q] <= Len(log'[q])
  <2>1. \A q \in Runs : Len(log[q]) \in Nat /\ Len(log'[q]) \in Nat /\ Len(log[q]) <= Len(log'[q])
    BY <1>1, <1>3, <1>5 DEF Grows, Continues
  <2> QED BY <1>1, <2>1
<1> QED BY <1>3, <1>5, <1>7, <1>8

\* The parts of a step that moves only the backend.
LEMMA BackendFits ==
  ASSUME WindowInvariant, Grows, Emits, UNCHANGED window,
         delivered' \in [Runs -> Nat], \A r \in Runs : delivered'[r] <= Len(log'[r]),
         \A q \in Runs : log[q] = <<>> => log'[q] = <<>>
  PROVE  WindowInvariant'
<1>1. /\ UNCHANGED <<ui, gap>> /\ call' = call /\ cancelling' = cancelling /\ troubles' = troubles
  BY DEF window
<1>2. /\ DeliveryFits' /\ WindowFits(ui)' /\ ActiveFits' /\ GapFits'
      /\ \A q \in Requests : CallFits(q)'
      /\ \A r \in Runs : CancelFits(r)'
  BY <1>1, GrowthFits DEF Requests
<1> QED BY <1>1, <1>2 DEF WindowInvariant

LEMMA BackendKeeps ==
  ASSUME WindowInvariant, Backend PROVE WindowInvariant'
<1>1. UNCHANGED window
  BY DEF Backend
<1>2. PICK r \in Runs : Commits(r) \/ Delivers(r) \/ DeliveryFails(r)
  BY DEF Backend
<1>3. /\ log \in [Runs -> Seq(Kinds)] /\ WellOrdered(log[r]) /\ delivered \in [Runs -> Nat]
      /\ \A q \in Runs : delivered[q] <= Len(log[q])
  BY DEF WindowInvariant, DeliveryFits, DeliveryType
<1>4. CASE Commits(r)
  <2>1. PICK kind \in Follows(Last(log[r])) : CommitEvents(r, <<kind>>)
    BY <1>4 DEF Commits
  <2>2. log[r] # <<>> /\ delivered' = delivered
    BY <1>3, <1>4, DeliveryAssumption DEF Commits, DeliveryAssumption
  <2>3. WellOrdered(log[r] \o <<kind>>) /\ Continues(log[r], log[r] \o <<kind>>)
    BY <1>3, <2>2, OneMore, DeliveryAssumption
  <2>4. kind \in Kinds
    <3>1. (log[r] \o <<kind>>)[Len(log[r]) + 1] = kind /\ Len(log[r] \o <<kind>>) = Len(log[r]) + 1
      BY <1>3
    <3> QED BY <1>3, <2>3, <3>1 DEF WellOrdered
  <2>5. /\ Grows /\ Emits /\ \A q \in Runs : log[q] = <<>> => log'[q] = <<>>
        /\ \A q \in Runs : delivered[q] <= Len(log'[q])
    <3> DEFINE kinds == <<kind>>
    <3>1. kinds # <<>> /\ kinds \in Seq(Kinds)
      BY <2>4
    <3>2. CommitEvents(r, kinds) /\ WellOrdered(log[r] \o kinds) /\ Continues(log[r], log[r] \o kinds)
      BY <2>1, <2>3
    <3> HIDE DEF kinds
    <3> QED BY <2>2, <3>1, <3>2, CommitGrows
  <2> QED BY <1>1, <1>3, <2>2, <2>5, BackendFits
<1>5. ASSUME log' = log PROVE Grows
  BY <1>5 DEF WindowInvariant, DeliveryFits, DeliveryType, Grows, Continues
<1>6. ASSUME log' = log, Undelivered(r), Emit(Event(r, delivered[r] + 1)) PROVE Emits
  <2>1. delivered[r] + 1 \in 1 .. Len(log'[r])
    BY <1>3, <1>6 DEF Undelivered
  <2>2. Event(r, delivered[r] + 1) \in Events
    BY <1>3 DEF Event, Events
  <2> QED BY <1>6, <2>1, <2>2 DEF Emits, Emit, Event
<1>7. CASE Delivers(r)
  <2>1. Grows /\ Emits /\ log' = log
    BY <1>5, <1>6, <1>7 DEF Delivers
  <2>2. delivered' \in [Runs -> Nat] /\ \A q \in Runs : delivered'[q] <= Len(log'[q])
    BY <1>3, <1>7, <2>1 DEF Delivers, RecordDelivery, Undelivered
  <2> QED BY <1>1, <2>1, <2>2, BackendFits
<1>8. CASE DeliveryFails(r)
  <2>1. log' = log /\ delivered' = delivered
    BY <1>3, <1>8 DEF DeliveryFails, RecordDelivery
  <2>2. Emits
    BY <1>6, <1>8, <2>1 DEF DeliveryFails, Emits
  <2> QED BY <1>1, <1>3, <1>5, <2>1, <2>2, BackendFits
<1> QED BY <1>2, <1>4, <1>7, <1>8

LEMMA AdmissionCommitsFits ==
  ASSUME WindowInvariant, NEW q \in Requests, AdmissionCommits(q) PROVE WindowInvariant'
<1> USE DEF Requests
<1>1. /\ call[q].pc = "admitting" /\ log' = [log EXCEPT ![q] = <<"run_queued">>]
      /\ call' = [call EXCEPT ![q] = Call("admitted")]
      /\ UNCHANGED <<delivered, wire, ui, gap, cancelling, troubles>>
  BY DEF AdmissionCommits, Admit, Await
<1>2. /\ log \in [Runs -> Seq(Kinds)] /\ delivered \in [Runs -> Nat]
      /\ \A r \in Runs : WellOrdered(log[r]) /\ delivered[r] <= Len(log[r])
  BY DEF WindowInvariant, DeliveryFits, DeliveryType
<1>3. call = [p \in Runs |-> call[p]] /\ CallFits(q) /\ log[q] = <<>>
  BY <1>1 DEF WindowInvariant, CallFits
<1>4. /\ call'[q] = Call("admitted") /\ call' = [p \in Runs |-> call'[p]]
      /\ \A p \in Runs : p # q => call'[p] = call[p] /\ log'[p] = log[p]
      /\ log'[q] = <<"run_queued">> /\ log' \in [Runs -> Seq(Kinds)]
  <2>1. /\ call'[q] = Call("admitted") /\ call' = [p \in Runs |-> call'[p]]
        /\ \A p \in Runs : p # q => call'[p] = call[p]
    BY <1>1, <1>3
  <2>2. <<"run_queued">> \in Seq(Kinds)
    BY DEF Kinds
  <2>3. /\ \A p \in Runs : p # q => log'[p] = log[p]
        /\ log'[q] = <<"run_queued">> /\ log' \in [Runs -> Seq(Kinds)]
    BY <1>1, <1>2, <2>2
  <2> QED BY <2>1, <2>3
<1>5. \A r \in Runs : WellOrdered(log'[r]) /\ Continues(log[r], log'[r])
  <2>1. TAKE r \in Runs
  <2>2. CASE r = q
    BY <1>3, <1>4, <2>2, AdmissionIsOrdered
  <2>3. CASE r # q
    BY <1>2, <1>4, <2>3 DEF Continues
  <2> QED BY <2>2, <2>3
<1>6. Grows /\ Emits
  BY <1>1, <1>4, <1>5 DEF Grows, Emits
<1>7. \A r \in Runs : delivered'[r] <= Len(log'[r])
  BY <1>1, <1>2, <1>3, <1>4
<1>8. \A p \in Runs : call[p].pc \notin Started => call'[p].pc \notin Started
  BY <1>1, <1>4 DEF Started
<1>9. /\ DeliveryFits' /\ WindowFits(ui)' /\ ActiveFits' /\ GapFits'
      /\ \A p \in Runs : p # q => CallFits(p)'
      /\ \A r \in Runs : CancelFits(r)'
  BY <1>1, <1>2, <1>4, <1>6, <1>7, <1>8, GrowthFits
<1>10. CallFits(q)'
  BY <1>1, <1>3, <1>4 DEF CallFits, Call, CallRows, PageType, NoPage, Started
<1> QED BY <1>1, <1>4, <1>9, <1>10 DEF WindowInvariant

LEMMA CancelCommitsFits ==
  ASSUME WindowInvariant, NEW r \in Runs, CancelCommits(r) PROVE WindowInvariant'
<1>1. /\ cancelling[r] = "asked" /\ UNCHANGED <<delivered, ui, call, gap>>
      /\ \E answer \in {"cancelled", "refused"} : cancelling' = [cancelling EXCEPT ![r] = answer]
      /\ UNCHANGED troubles \/ Trouble
  BY DEF CancelCommits
<1>2. /\ log \in [Runs -> Seq(Kinds)] /\ delivered \in [Runs -> Nat]
      /\ \A q \in Runs : WellOrdered(log[q]) /\ delivered[q] <= Len(log[q])
  BY DEF WindowInvariant, DeliveryFits, DeliveryType
<1>3. /\ cancelling = [q \in Runs |-> cancelling[q]] /\ log[r] # <<>>
      /\ troubles \in 0 .. MaxTroubles
  BY <1>1 DEF WindowInvariant, CancelFits
<1>4. /\ cancelling' = [q \in Runs |-> cancelling'[q]] /\ cancelling'[r] \in {"cancelled", "refused"}
      /\ \A q \in Runs : q # r => cancelling'[q] = cancelling[q]
  BY <1>1, <1>3
<1>5. troubles' \in 0 .. MaxTroubles
  BY <1>1, <1>3, WindowAssumption DEF Trouble, WindowAssumption
<1>6. /\ Grows /\ Emits /\ \A q \in Runs : log[q] = <<>> => log'[q] = <<>>
      /\ \A q \in Runs : delivered[q] <= Len(log'[q])
      /\ cancelling'[r] = "cancelled" => Over(r)' /\ Last(log[r])' = "run_cancelled"
  <2>1. CASE ~Over(r) /\ CommitEvents(r, CancellationEvents(r))
    <3> DEFINE kinds == CancellationEvents(r)
    <3>1. /\ kinds # <<>> /\ WellOrdered(log[r] \o kinds) /\ Continues(log[r], log[r] \o kinds)
          /\ Ended(log[r] \o kinds) /\ Last(log[r] \o kinds) = "run_cancelled"
      BY <1>2, <1>3, <2>1, CancellationContinues
    <3>2. kinds \in Seq(Kinds)
      <4>1. kinds = <<"run_cancelled">> \/ kinds = <<"node_cancelled", "run_cancelled">>
        BY DEF CancellationEvents
      <4>2. <<"run_cancelled">> \in Seq(Kinds) /\ <<"node_cancelled", "run_cancelled">> \in Seq(Kinds)
        BY DEF Kinds, Finals
      <4> HIDE DEF kinds
      <4> QED BY <4>1, <4>2
    <3>3. CommitEvents(r, kinds)
      BY <2>1
    <3> HIDE DEF kinds
    <3>4. /\ Grows /\ Emits /\ log'[r] = log[r] \o kinds
          /\ \A q \in Runs : log[q] = <<>> => log'[q] = <<>>
          /\ \A q \in Runs : delivered[q] <= Len(log'[q])
      BY <1>3, <3>1, <3>2, <3>3, CommitGrows
    <3> QED BY <3>1, <3>4 DEF Over, Ended
  <2>2. CASE cancelling' = [cancelling EXCEPT ![r] = "refused"] /\ UNCHANGED <<log, wire>>
    <3>1. cancelling'[r] = "refused"
      BY <1>3, <2>2
    <3> QED BY <1>2, <2>2, <3>1 DEF Grows, Emits, Continues
  <2> QED BY <2>1, <2>2 DEF CancelCommits
<1>7. /\ DeliveryFits' /\ WindowFits(ui)' /\ ActiveFits' /\ GapFits'
      /\ \A q \in Requests : CallFits(q)'
      /\ \A q \in Runs : q # r => CancelFits(q)'
  BY <1>1, <1>2, <1>4, <1>6, GrowthFits DEF Requests
<1>8. CancelFits(r)'
  <2>1. log'[r] # <<>>
    BY <1>2, <1>3, <1>6 DEF Grows, Continues, WellOrdered
  <2> QED BY <1>4, <1>6, <2>1 DEF CancelFits, Answers
<1> QED BY <1>1, <1>4, <1>5, <1>7, <1>8 DEF WindowInvariant

----------------------------------------------------------------------------
(* Steps of the window.                                                    *)

\* The window goes on with the Run it follows.
GoesOn == ui'.request = ui.request /\ ui'.last >= ui.last

LEMMA CallKeeps ==
  ASSUME WindowInvariant, log' = log, NEW q \in Requests, call'[q] = call[q],
         \/ ui'.request # q
         \/ /\ GoesOn
            /\ call[q].pc \in Started =>
                 ui'.active = ui.active /\ ui'.last = ui.last /\ ui'.shown = ui.shown,
         ui' \in Screens
  PROVE  CallFits(q)'
<1>1. CallFits(q) /\ call[q].cursor \in Nat /\ ui.last \in Nat /\ ui'.last \in Nat
  BY DEF WindowInvariant, CallFits, CallRows, WindowFits, Screens
<1>2. PageIs(call[q].page, call[q].cursor, q) => PageIs(call[q].page, call[q].cursor, q)'
  BY DEF PageIs
<1>3. ui'.request = q => ui.request = q /\ (call[q].cursor <= ui.last => call[q].cursor <= ui'.last)
  BY <1>1 DEF GoesOn
<1> QED BY <1>1, <1>2, <1>3 DEF CallFits

LEMMA GapKeeps ==
  ASSUME WindowInvariant, log' = log, wire' = wire, gap' = gap, ui' \in Screens,
         gap.pc \in {"reading", "reply"} =>
           call'[gap.run].pc \notin Started /\ (ui'.request # gap.run \/ GoesOn)
  PROVE  GapFits'
<1>1. GapFits /\ gap.cursor \in Nat /\ ui.last \in Nat /\ ui'.last \in Nat
  BY DEF WindowInvariant, GapFits, GapRows, WindowFits, Screens
<1>2. PageIs(gap.page, gap.cursor, gap.run) => PageIs(gap.page, gap.cursor, gap.run)'
  BY DEF PageIs
<1>3. gap.pc \in {"reading", "reply"} /\ ui'.request = gap.run =>
        ui.request = gap.run /\ (gap.cursor <= ui.last => gap.cursor <= ui'.last)
  BY <1>1 DEF GoesOn
<1> QED BY <1>1, <1>2, <1>3 DEF GapFits

LEMMA DeliveryKeeps ==
  ASSUME WindowInvariant, UNCHANGED <<log, delivered>>,
         wire' = wire \/ (wire # <<>> /\ wire' = Tail(wire))
  PROVE  DeliveryFits'
<1>1. wire \in Seq(Events) /\ Len(wire) <= MaxWire /\ DeliveryFits /\ DeliveryType
  BY DEF WindowInvariant, DeliveryFits, DeliveryType
<1>2. CASE wire' = wire
  BY <1>1, <1>2 DEF DeliveryFits, DeliveryType
<1>3. CASE wire # <<>> /\ wire' = Tail(wire)
  <2>1. /\ wire' \in Seq(Events) /\ Len(wire') <= MaxWire /\ Len(wire') = Len(wire) - 1
        /\ \A i \in 1 .. Len(wire') : i + 1 \in 1 .. Len(wire) /\ wire'[i] = wire[i + 1]
    BY <1>1, <1>3, DeliveryAssumption DEF DeliveryAssumption
  <2> QED BY <1>1, <2>1 DEF DeliveryFits, DeliveryType
<1> QED BY <1>2, <1>3

\* A window that shows another status, and no outcome, still fits.
LEMMA StatusFits ==
  ASSUME WindowInvariant, log' = log, ui' \in Screens, ui'.active = ui.active,
         ui'.request = ui.request, ui'.seen = ui.seen, ui'.last = ui.last, ui'.shown = ui.shown,
         ui'.status = ui.status \/ \A kind \in Finals : ui'.status # Outcome(kind)
  PROVE  WindowFits(ui)' /\ ActiveFits' /\ GoesOn
<1>1. WindowFits(ui) /\ ui.last \in Nat /\ ActiveFits
  BY DEF WindowInvariant, WindowFits, Screens
<1>2. ShowsFirst(ui)'
  <2>1. \A kind : Applied(ui, kind)' <=> Applied(ui, kind)
    BY DEF Applied
  <2> QED BY <1>1, <2>1 DEF WindowFits, ShowsFirst
<1>3. TellsTheEnd(ui)'
  BY <1>1 DEF WindowFits, TellsTheEnd, Over, Outcome
<1> QED BY <1>1, <1>2, <1>3 DEF WindowFits, ActiveFits, GoesOn

LEMMA TroubleFits ==
  ASSUME WindowInvariant, Trouble PROVE troubles' \in 0 .. MaxTroubles
BY WindowAssumption DEF WindowInvariant, Trouble, WindowAssumption

\* A window that follows no Run, or one that was not asked for before.
LEMMA BlankFits ==
  ASSUME WindowInvariant, UNCHANGED <<log, delivered, wire>>, ui' \in Screens,
         ui'.active = None, ui'.last = 0, ui'.shown = "none", ui'.seen = {},
         \A kind \in Finals : ui'.status # Outcome(kind)
  PROVE  WindowFits(ui)' /\ ActiveFits' /\ DeliveryFits'
<1>1. ui'.request # None => Len(log[ui'.request]) \in Nat
  BY DEF WindowInvariant, DeliveryFits, DeliveryType, Requests, Screens
<1>2. ShowsFirst(ui)'
  <2>1. \A kind : ~Applied(ui, kind)'
    BY DEF Applied
  <2>2. ui'.seen = 1 .. ui'.last
    OBVIOUS
  <2> QED BY <1>1, <2>1, <2>2 DEF ShowsFirst
<1>3. TellsTheEnd(ui)'
  BY DEF TellsTheEnd, Outcome
<1> QED BY <1>2, <1>3, DeliveryKeeps DEF WindowFits, ActiveFits

LEMMA RunPressedFits ==
  ASSUME WindowInvariant, NEW q \in Requests, RunPressed(q) PROVE WindowInvariant'
<1>1. /\ call[q].pc = "none" /\ ui' = [Blank EXCEPT !.request = q, !.status = "running"]
      /\ call' = [call EXCEPT ![q] = Call("observing")]
      /\ UNCHANGED <<log, delivered, wire>> /\ UNCHANGED <<gap, cancelling, troubles>>
  BY DEF RunPressed, UnchangedBackend, backend
<1>2. \A kind \in Finals : "running" # Outcome(kind)
  BY DEF Finals, Outcome
<1>3. /\ ui' \in Screens /\ ui'.request = q /\ ui'.active = None /\ ui'.last = 0
      /\ ui'.shown = "none" /\ WindowFits(ui)' /\ ActiveFits' /\ DeliveryFits'
  <2>1. /\ ui' \in Screens /\ ui'.request = q /\ ui'.active = None /\ ui'.last = 0
        /\ ui'.shown = "none" /\ ui'.seen = {} /\ ui'.status = "running"
    BY <1>1 DEF Blank, Screens, Statuses, Requests, None
  <2> QED BY <1>1, <1>2, <2>1, BlankFits
<1>4. call = [p \in Requests |-> call[p]] /\ CallFits(q)
  BY DEF WindowInvariant
<1>5. /\ call' = [p \in Requests |-> call'[p]] /\ call'[q] = Call("observing")
      /\ \A p \in Requests : p # q => call'[p] = call[p]
  BY <1>1, <1>4
<1>6. \A p \in Requests : p # q => CallFits(p)'
  BY <1>1, <1>3, <1>5, CallKeeps
<1>7. CallFits(q)'
  BY <1>1, <1>3, <1>4, <1>5 DEF CallFits, Call, CallRows, PageType, NoPage, Started
<1>8. GapFits'
  <2>1. gap.pc \in {"reading", "reply"} => gap.run \in Requests /\ call[gap.run].pc \notin Started
    BY DEF WindowInvariant, GapFits, Requests
  <2>2. gap.pc \in {"reading", "reply"} => gap.run # q /\ call'[gap.run].pc \notin Started
    BY <1>1, <1>5, <2>1 DEF Started
  <2> QED BY <1>1, <1>3, <2>2, GapKeeps
<1>9. cancelling' = [r \in Runs |-> cancelling'[r]] /\ \A r \in Runs : CancelFits(r)'
  BY <1>1 DEF WindowInvariant, CancelFits, Over
<1> QED BY <1>1, <1>3, <1>5, <1>6, <1>7, <1>8, <1>9 DEF WindowInvariant

LEMMA EditFits ==
  ASSUME WindowInvariant, Edit PROVE WindowInvariant'
<1>1. ui' = Blank /\ Trouble /\ UNCHANGED <<log, delivered, wire>> /\ UNCHANGED <<call, gap, cancelling>>
  BY DEF Edit, UnchangedBackend, backend
<1>2. \A kind \in Finals : "idle" # Outcome(kind)
  BY DEF Finals, Outcome
<1>3. /\ ui' \in Screens /\ ui'.request = None /\ ui'.active = None /\ ui'.last = 0
      /\ ui'.shown = "none" /\ ui'.seen = {} /\ ui'.status = "idle"
  BY <1>1 DEF Blank, Screens, Statuses, None
<1>4. WindowFits(ui)' /\ ActiveFits' /\ DeliveryFits'
  BY <1>1, <1>2, <1>3, BlankFits
<1>5. \A p \in Requests : CallFits(p)'
  BY <1>1, <1>3, CallKeeps DEF Requests, Runs, None
<1>6. GapFits'
  <2>1. gap.pc \in {"reading", "reply"} => gap.run \in Runs /\ call[gap.run].pc \notin Started
    BY DEF WindowInvariant, GapFits
  <2> QED BY <1>1, <1>3, <2>1, GapKeeps DEF Runs, None
<1>7. \A r \in Runs : CancelFits(r)'
  BY <1>1 DEF WindowInvariant, CancelFits, Over
<1>8. troubles' \in 0 .. MaxTroubles
  BY <1>1, TroubleFits
<1> QED BY <1>1, <1>4, <1>5, <1>6, <1>7, <1>8 DEF WindowInvariant

LEMMA CallsKeep ==
  ASSUME WindowInvariant, NEW q \in Requests, NEW c, call' = [call EXCEPT ![q] = c]
  PROVE  /\ call' = [p \in Requests |-> call'[p]] /\ call'[q] = c
         /\ \A p \in Requests : p # q => call'[p] = call[p]
         /\ c.pc \notin Started =>
              (gap.pc \in {"reading", "reply"} => call'[gap.run].pc \notin Started)
<1>1. call = [p \in Requests |-> call[p]]
  BY DEF WindowInvariant
<1>2. gap.pc \in {"reading", "reply"} => gap.run \in Requests /\ call[gap.run].pc \notin Started
  BY DEF WindowInvariant, GapFits, Requests
<1> QED BY <1>1, <1>2

LEMMA CancelsKeep ==
  ASSUME WindowInvariant, UNCHANGED <<log, cancelling>>
  PROVE  cancelling' = [r \in Runs |-> cancelling'[r]] /\ \A r \in Runs : CancelFits(r)'
BY DEF WindowInvariant, CancelFits, Over

\* Steps of a request that show at most another status.
LEMMA StatusKeeps ==
  ASSUME WindowInvariant, UNCHANGED <<log, delivered, wire, gap, cancelling>>,
         WindowFits(ui)', ActiveFits', GoesOn,
         ui'.active = ui.active, ui'.last = ui.last, ui'.shown = ui.shown,
         NEW q \in Requests, NEW c, call' = [call EXCEPT ![q] = c],
         call[q].pc \in Started \/ c.pc \notin Started, call'[q] = c => CallFits(q)',
         troubles' \in 0 .. MaxTroubles
  PROVE  WindowInvariant'
<1>1. /\ call' = [p \in Requests |-> call'[p]] /\ call'[q] = c
      /\ \A p \in Requests : p # q => call'[p] = call[p]
  BY CallsKeep
<1>2. ui' \in Screens
  BY DEF WindowFits
<1>3. \A p \in Requests : p # q => CallFits(p)'
  BY <1>1, <1>2, CallKeeps
<1>4. gap.pc \in {"reading", "reply"} => call'[gap.run].pc \notin Started
  <2>1. gap.pc \in {"reading", "reply"} => gap.run \in Requests /\ call[gap.run].pc \notin Started
    BY DEF WindowInvariant, GapFits, Requests
  <2> QED BY <1>1, <2>1
<1>5. GapFits' /\ DeliveryFits'
  BY <1>2, <1>4, GapKeeps, DeliveryKeeps
<1> QED BY <1>1, <1>3, <1>5, CancelsKeep DEF WindowInvariant

LEMMA UnchangedFits ==
  ASSUME WindowInvariant, UNCHANGED <<log, ui>>
  PROVE  WindowFits(ui)' /\ ActiveFits' /\ GoesOn
<1>1. ui \in Screens /\ ui.last \in Nat
  BY DEF WindowInvariant, WindowFits, Screens
<1> QED BY <1>1, StatusFits

LEMMA ObserveReturnsFits ==
  ASSUME WindowInvariant, NEW q \in Requests, ObserveReturns(q) PROVE WindowInvariant'
<1>1. /\ call[q].pc = "observing" /\ UNCHANGED <<log, delivered, wire, gap, cancelling, troubles>>
      /\ \/ /\ call' = [call EXCEPT ![q] = Call("admitting")]
            /\ ui' = [ui EXCEPT !.listening = TRUE]
         \/ call' = [call EXCEPT ![q] = Call("done")] /\ UNCHANGED ui
  BY DEF ObserveReturns, UnchangedBackend, backend, Await
<1>2. ui \in Screens /\ CallFits(q) /\ troubles' \in 0 .. MaxTroubles
  BY <1>1 DEF WindowInvariant, WindowFits
<1>3. /\ ui' \in Screens /\ ui'.active = ui.active /\ ui'.request = ui.request
      /\ ui'.seen = ui.seen /\ ui'.last = ui.last /\ ui'.shown = ui.shown /\ ui'.status = ui.status
  BY <1>1, <1>2 DEF Screens
<1>4. WindowFits(ui)' /\ ActiveFits' /\ GoesOn
  BY <1>1, <1>3, StatusFits
<1>5. PICK pc \in {"admitting", "done"} : call' = [call EXCEPT ![q] = Call(pc)]
  BY <1>1
<1>6. call'[q] = Call(pc) => CallFits(q)'
  BY <1>1, <1>2, <1>3 DEF CallFits, Call, CallRows, PageType, NoPage, Started
<1> QED BY <1>1, <1>2, <1>3, <1>4, <1>5, <1>6, StatusKeeps DEF Started

LEMMA AdmissionReturnsFits ==
  ASSUME WindowInvariant, NEW q \in Requests, AdmissionReturns(q) PROVE WindowInvariant'
<1>1. /\ call[q].pc = "admitted" /\ UNCHANGED <<log, delivered, wire, gap, cancelling, troubles>>
  BY DEF AdmissionReturns, UnchangedBackend, backend
<1>2. ui \in Screens /\ CallFits(q) /\ troubles' \in 0 .. MaxTroubles
  BY <1>1 DEF WindowInvariant, WindowFits
<1>3. CASE call' = [call EXCEPT ![q] = Call("done")] /\ UNCHANGED ui
  <2>1. call'[q] = Call("done") => CallFits(q)'
    BY <1>1, <1>2, <1>3 DEF CallFits, Call, CallRows, PageType, NoPage, Started
  <2>2. WindowFits(ui)' /\ ActiveFits' /\ GoesOn
    BY <1>1, <1>3, UnchangedFits
  <2> QED BY <1>1, <1>2, <1>3, <2>1, <2>2, StatusKeeps DEF Started
<1>4. CASE /\ Current(q) /\ call' = [call EXCEPT ![q] = Call("reading")]
           /\ ui' = [ui EXCEPT !.active = q]
  <2>1. /\ ui.request = q /\ ui.last = 0 /\ ui.shown = "none" /\ log[q] # <<>>
    BY <1>1, <1>2, <1>4 DEF Current, CallFits, Started
  <2>2. /\ ui' \in Screens /\ ui'.request = q /\ ui'.active = q /\ ui'.last = 0 /\ ui'.shown = "none"
        /\ ui'.seen = ui.seen /\ ui'.status = ui.status
    BY <1>2, <1>4, <2>1 DEF Screens, Requests
  <2>3. \A kind : ~Applied(ui, kind)' /\ ~Applied(ui, kind)
    BY <2>1, <2>2 DEF Applied
  <2>4. WindowFits(ui)
    BY DEF WindowInvariant
  <2>5. WindowFits(ui)' /\ ActiveFits' /\ GoesOn
    <3>1. ShowsFirst(ui)'
      BY <1>1, <2>1, <2>2, <2>3, <2>4 DEF WindowFits, ShowsFirst
    <3>2. TellsTheEnd(ui)'
      BY <1>1, <2>1, <2>2, <2>4 DEF WindowFits, TellsTheEnd, Over, Outcome
    <3> QED BY <1>1, <2>1, <2>2, <3>1, <3>2 DEF WindowFits, ActiveFits, GoesOn
  <2>6. /\ call' = [p \in Requests |-> call'[p]] /\ call'[q] = Call("reading")
        /\ \A p \in Requests : p # q => call'[p] = call[p]
        /\ gap.pc \in {"reading", "reply"} => call'[gap.run].pc \notin Started
    <3>1. Call("reading").pc \notin Started
      BY DEF Call, Started
    <3> DEFINE c == Call("reading")
    <3> HIDE DEF c
    <3>2. call' = [call EXCEPT ![q] = c]
      BY <1>4 DEF c
    <3>3. c.pc \notin Started
      BY <3>1 DEF c
    <3> QED BY <3>2, <3>3, CallsKeep DEF c
  <2>7. \A p \in Requests : p # q => CallFits(p)'
    BY <1>1, <2>2, <2>6, CallKeeps
  <2>8. CallFits(q)'
    <3>1. Len(log[q]) \in Nat
      BY DEF WindowInvariant, DeliveryFits, DeliveryType, Requests
    <3> QED BY <1>1, <1>2, <2>1, <2>2, <2>6, <3>1
            DEF CallFits, Call, CallRows, PageType, NoPage, Started
  <2>9. GapFits' /\ DeliveryFits'
    BY <1>1, <2>2, <2>5, <2>6, GapKeeps, DeliveryKeeps
  <2> QED BY <1>1, <1>2, <2>5, <2>6, <2>7, <2>8, <2>9, CancelsKeep DEF WindowInvariant
<1> QED BY <1>3, <1>4 DEF AdmissionReturns, Await

LEMMA CallFailsFits ==
  ASSUME WindowInvariant, NEW q \in Requests, CallFails(q) PROVE WindowInvariant'
<1>1. /\ call[q].pc # "none" /\ UNCHANGED <<log, delivered, wire, gap, cancelling>> /\ Trouble
      /\ call' = [call EXCEPT ![q] = Call("done")]
      /\ \/ ui' = [ui EXCEPT !.listening = FALSE, !.status = "call_failed"]
         \/ ui' = ui
  BY DEF CallFails, UnchangedBackend, backend, Await
<1>2. ui \in Screens /\ CallFits(q) /\ troubles' \in 0 .. MaxTroubles
  BY <1>1, TroubleFits DEF WindowInvariant, WindowFits
<1>3. /\ ui' \in Screens /\ ui'.active = ui.active /\ ui'.request = ui.request
      /\ ui'.seen = ui.seen /\ ui'.last = ui.last /\ ui'.shown = ui.shown
      /\ ui'.status = ui.status \/ ui'.status = "call_failed"
  BY <1>1, <1>2 DEF Screens, Statuses
<1>4. \A kind \in Finals : "call_failed" # Outcome(kind)
  BY DEF Finals, Outcome
<1>5. WindowFits(ui)' /\ ActiveFits' /\ GoesOn
  BY <1>1, <1>3, <1>4, StatusFits
<1>6. call'[q] = Call("done") => CallFits(q)'
  BY <1>1, <1>2, <1>3 DEF CallFits, Call, CallRows, PageType, NoPage, Started
<1>7. Call("done").pc \notin Started
  BY DEF Call, Started
<1> QED BY <1>1, <1>2, <1>3, <1>5, <1>6, <1>7, StatusKeeps

\* What a page is read as, and what the window accepts.
LEMMA PageIsRead ==
  ASSUME WindowInvariant, NEW r \in Runs, NEW cursor \in Nat, cursor <= Len(log[r])
  PROVE  /\ Page(r, cursor) \in PageType /\ PageIs(Page(r, cursor), cursor, r)
         /\ ~Page(r, cursor).more => Page(r, cursor).to = Len(log[r])
<1>1. Len(log[r]) \in Nat /\ PageSize \in Nat \ {0}
  BY WindowAssumption DEF WindowInvariant, DeliveryFits, DeliveryType, WindowAssumption
<1> DEFINE to == IF cursor + PageSize < Len(log[r]) THEN cursor + PageSize ELSE Len(log[r])
<1>2. Page(r, cursor) = [from |-> cursor + 1, to |-> to, more |-> to < Len(log[r])]
  BY DEF Page
<1>3. to \in Nat /\ cursor <= to /\ to <= Len(log[r]) /\ cursor + 1 \in Nat
  BY <1>1
<1> HIDE DEF to
<1>4. ~(to < Len(log[r])) => to = Len(log[r])
  BY <1>1, <1>3
<1>5. Page(r, cursor) \in PageType
  BY <1>2, <1>3 DEF PageType
<1>6. Page(r, cursor).from = cursor + 1 /\ Page(r, cursor).to = to
  BY <1>2
<1>7. ASSUME ~Page(r, cursor).more PROVE to = Len(log[r])
  <2>1. CASE to < Len(log[r])
    <3>1. (to < Len(log[r])) = TRUE
      BY <2>1
    <3>2. Page(r, cursor) = [from |-> cursor + 1, to |-> to, more |-> TRUE]
      BY <1>2, <3>1, Zenon
    <3> QED BY <1>7, <3>2
  <2>2. CASE ~(to < Len(log[r]))
    BY <1>4, <2>2
  <2> QED BY <2>1, <2>2
<1> QED BY <1>3, <1>5, <1>6, <1>7 DEF PageIs

LEMMA Carried ==
  ASSUME log' = log, WindowFits(ui') PROVE WindowFits(ui)'
<1>1. ShowsFirst(ui)'
  <2>1. \A kind : Applied(ui, kind)' <=> Applied(ui', kind)
    BY DEF Applied
  <2> QED BY <2>1 DEF WindowFits, ShowsFirst
<1>2. TellsTheEnd(ui)'
  BY DEF WindowFits, TellsTheEnd, Over
<1> QED BY <1>1, <1>2 DEF WindowFits

\* A page that was read, when it arrives.
LEMMA PageArrives ==
  ASSUME WindowInvariant, NEW r \in Runs, log[r] # <<>>, NEW page \in PageType, NEW cursor \in Nat,
         PageIs(page, cursor, r), ui.request = r => cursor <= ui.last
  PROVE  LET v == AcceptPage(ui, r, page)
         IN /\ WindowFits(v) /\ v.request = ui.request /\ v.last >= ui.last
            /\ v.active # None => log[v.active] # <<>>
            /\ ui.request # r => v = ui
            /\ ui.request = r => v.last >= page.to
<1> DEFINE v == AcceptPage(ui, r, page)
<1>1. WellOrdered(log[r]) /\ WindowFits(ui) /\ ui.last \in Nat /\ ActiveFits
  BY DEF WindowInvariant, DeliveryFits, WindowFits, Screens
<1>2. /\ page.from \in Nat \ {0} /\ page.to \in Nat /\ page.from - 1 <= page.to
      /\ page.to <= Len(log[r]) /\ (ui.request = r => page.from <= ui.last + 1)
  BY <1>1 DEF PageIs, PageType
<1>3. /\ WindowFits(v) /\ v.request = ui.request /\ (ui.request # r => v = ui)
      /\ ui.request = r => v.last >= ui.last /\ v.last >= page.to
  BY <1>1, <1>2, PageFits
<1> HIDE DEF v
<1>4. v.last >= ui.last
  BY <1>1, <1>3
<1>5. v.active # None => log[v.active] # <<>>
  BY <1>1, <1>3 DEF WindowFits, ActiveFits
<1> QED BY <1>3, <1>4, <1>5 DEF v

\* When the window changes by what it accepts for r, other calls stay as they are.
LEMMA AcceptedKeeps ==
  ASSUME WindowInvariant, log' = log, NEW r \in Runs, call[r].pc \notin Started,
         WindowFits(ui'), GoesOn, ui.request # r => ui' = ui,
         NEW q \in Requests, call'[q] = call[q]
  PROVE  CallFits(q)'
<1>1. ui' \in Screens
  BY DEF WindowFits
<1>2. call[q].pc \in Started /\ ui'.request = q => ui' = ui
  BY DEF GoesOn
<1> QED BY <1>1, <1>2, CallKeeps

LEMMA PageReadFits ==
  ASSUME WindowInvariant, NEW q \in Requests, PageRead(q) PROVE WindowInvariant'
<1> DEFINE page == Page(q, call[q].cursor)
           c == [call[q] EXCEPT !.pc = "reply", !.page = page]
<1>1. /\ call[q].pc = "reading" /\ UNCHANGED <<log, delivered, wire, ui, gap, cancelling, troubles>>
      /\ call' = [call EXCEPT ![q].pc = "reply", ![q].page = page]
  BY DEF PageRead, UnchangedBackend, backend
<1>2. CallFits(q) /\ call = [p \in Requests |-> call[p]] /\ troubles' \in 0 .. MaxTroubles
  BY <1>1 DEF WindowInvariant
<1>3. /\ call[q] \in CallRows /\ call[q].cursor \in Nat /\ call[q].cursor <= Len(log[q])
  BY <1>1, <1>2 DEF CallFits, CallRows
<1>4. page \in PageType /\ PageIs(page, call[q].cursor, q)
  BY <1>3, PageIsRead DEF Requests
<1>5. call' = [call EXCEPT ![q] = c]
  BY <1>1, <1>2
<1> HIDE DEF page
<1>6. c \in CallRows /\ c.pc = "reply" /\ c.cursor = call[q].cursor /\ c.page = page
  BY <1>3, <1>4 DEF CallRows
<1> HIDE DEF c
<1>7. call'[q] = c => CallFits(q)'
  BY <1>1, <1>2, <1>4, <1>6 DEF CallFits, Started, PageIs
<1>8. WindowFits(ui)' /\ ActiveFits' /\ GoesOn
  BY <1>1, UnchangedFits
<1>9. c.pc \notin Started
  BY <1>6 DEF Started
<1> QED BY <1>1, <1>2, <1>5, <1>7, <1>8, <1>9, StatusKeeps

LEMMA PageReturnsFits ==
  ASSUME WindowInvariant, NEW q \in Requests, PageReturns(q) PROVE WindowInvariant'
<1> DEFINE c == IF call[q].page.more /\ Current(q)
                THEN [Call("reading") EXCEPT !.cursor = call[q].page.to]
                ELSE Call("done")
<1>1. /\ call[q].pc = "reply" /\ UNCHANGED <<log, delivered, wire, gap, cancelling, troubles>>
      /\ ui' = AcceptPage(ui, q, call[q].page) /\ call' = [call EXCEPT ![q] = c]
  BY DEF PageReturns, UnchangedBackend, backend
<1>2. CallFits(q) /\ troubles' \in 0 .. MaxTroubles
  BY <1>1 DEF WindowInvariant
<1>3. /\ call[q].cursor \in Nat /\ call[q].page \in PageType /\ log[q] # <<>>
      /\ PageIs(call[q].page, call[q].cursor, q) /\ (ui.request = q => call[q].cursor <= ui.last)
      /\ call[q].pc \notin Started
  BY <1>1, <1>2 DEF CallFits, CallRows, Started
<1>4. /\ WindowFits(ui') /\ ui'.request = ui.request /\ ui'.last >= ui.last
      /\ ui'.active # None => log[ui'.active] # <<>>
      /\ ui.request # q => ui' = ui
      /\ ui.request = q => ui'.last >= call[q].page.to
  BY <1>1, <1>3, PageArrives DEF Requests
<1>5. WindowFits(ui)' /\ ActiveFits' /\ GoesOn /\ ui' \in Screens
  BY <1>1, <1>4, Carried DEF ActiveFits, GoesOn, WindowFits
<1>6. c \in CallRows /\ (c.pc = "done" \/ (c.pc = "reading" /\ Current(q) /\ c.cursor = call[q].page.to))
  BY <1>3 DEF Call, CallRows, PageType, NoPage
<1> HIDE DEF c
<1>7. c.pc \notin Started
  BY <1>6 DEF Started
<1>8. /\ call' = [p \in Requests |-> call'[p]] /\ call'[q] = c
      /\ \A p \in Requests : p # q => call'[p] = call[p]
      /\ gap.pc \in {"reading", "reply"} => call'[gap.run].pc \notin Started
  BY <1>1, <1>7, CallsKeep
<1>9. \A p \in Requests : p # q => CallFits(p)'
  BY <1>1, <1>3, <1>4, <1>5, <1>8, AcceptedKeeps DEF Requests
<1>10. CallFits(q)'
  BY <1>1, <1>3, <1>4, <1>6, <1>8 DEF CallFits, Started, PageIs, Current
<1>11. GapFits' /\ DeliveryFits'
  BY <1>1, <1>5, <1>8, GapKeeps, DeliveryKeeps
<1> QED BY <1>1, <1>2, <1>5, <1>8, <1>9, <1>10, <1>11, CancelsKeep DEF WindowInvariant

----------------------------------------------------------------------------
(* Cancellation.                                                           *)

LEMMA CallsStay ==
  ASSUME WindowInvariant, UNCHANGED <<log, delivered, wire, call, gap>>,
         WindowFits(ui)', ActiveFits', GoesOn,
         \A q \in Requests : call[q].pc \in Started /\ ui.request = q =>
           ui'.active = ui.active /\ ui'.last = ui.last /\ ui'.shown = ui.shown
  PROVE  /\ DeliveryFits' /\ GapFits' /\ call' = [q \in Requests |-> call'[q]]
         /\ \A q \in Requests : CallFits(q)'
<1>1. ui' \in Screens /\ call' = call
  BY DEF WindowFits
<1>2. \A q \in Requests : CallFits(q)'
  BY <1>1, CallKeeps DEF GoesOn
<1>3. gap.pc \in {"reading", "reply"} => call'[gap.run].pc \notin Started
  BY <1>1 DEF WindowInvariant, GapFits
<1> QED BY <1>1, <1>2, <1>3, GapKeeps, DeliveryKeeps DEF WindowInvariant

LEMMA CancelPressedFits ==
  ASSUME WindowInvariant, CancelPressed PROVE WindowInvariant'
<1>1. /\ ui.active # None /\ UNCHANGED <<log, delivered, wire, call, gap, troubles>>
      /\ cancelling' = [cancelling EXCEPT ![ui.active] = "asked"]
      /\ ui' = [ui EXCEPT !.status = "cancelling"]
  BY DEF CancelPressed, UnchangedBackend, backend
<1>2. /\ ui \in Screens /\ ui.active \in Runs /\ ActiveFits /\ troubles' \in 0 .. MaxTroubles
      /\ cancelling = [r \in Runs |-> cancelling[r]] /\ call' = call
  BY <1>1 DEF WindowInvariant, WindowFits, Screens
<1>3. /\ ui' \in Screens /\ ui'.active = ui.active /\ ui'.request = ui.request
      /\ ui'.seen = ui.seen /\ ui'.last = ui.last /\ ui'.shown = ui.shown
      /\ ui'.status = "cancelling"
  BY <1>1, <1>2 DEF Screens, Statuses
<1>4. \A kind \in Finals : "cancelling" # Outcome(kind)
  BY DEF Finals, Outcome
<1>5. WindowFits(ui)' /\ ActiveFits' /\ GoesOn
  BY <1>1, <1>3, <1>4, StatusFits
<1>6. /\ DeliveryFits' /\ GapFits' /\ call' = [q \in Requests |-> call'[q]]
      /\ \A q \in Requests : CallFits(q)'
  BY <1>1, <1>3, <1>5, CallsStay
<1>7. cancelling' = [r \in Runs |-> cancelling'[r]] /\ \A r \in Runs : CancelFits(r)'
  <2>1. /\ cancelling' = [r \in Runs |-> cancelling'[r]] /\ cancelling'[ui.active] = "asked"
        /\ \A r \in Runs : r # ui.active => cancelling'[r] = cancelling[r]
    BY <1>1, <1>2
  <2> QED BY <1>1, <1>2, <2>1 DEF WindowInvariant, CancelFits, Answers, Over, ActiveFits
<1> QED BY <1>2, <1>5, <1>6, <1>7 DEF WindowInvariant

\* The answer of a cancellation that was committed settles the Run it is of.
LEMMA SettledFits ==
  ASSUME WindowInvariant, log' = log, NEW r \in Runs, cancelling[r] = "cancelled", ui.active = r,
         ui' = Settle(ui, "cancelled")
  PROVE  WindowFits(ui)' /\ ActiveFits' /\ GoesOn
<1>1. /\ WindowFits(ui) /\ ui \in Screens /\ ui.request = r /\ r # None
      /\ Over(r) /\ Last(log[r]) = "run_cancelled"
  BY DEF WindowInvariant, WindowFits, CancelFits, Runs, None
<1>2. SettleNode(ui.shown, "cancelled") = IF ui.shown = "running" THEN "none" ELSE ui.shown
  BY DEF SettleNode
<1>3. /\ ui' \in Screens /\ ui'.active = None /\ ui'.request = r /\ ui'.seen = ui.seen
      /\ ui'.last = ui.last /\ ui'.status = "cancelled"
      /\ ui'.shown = IF ui.shown = "running" THEN "none" ELSE ui.shown
  BY <1>1, <1>2 DEF Settle, Screens, Statuses, None
<1>4. ShowsFirst(ui)'
  <2>1. \A kind : Applied(ui, kind)' <=> Applied(ui, kind)
    BY <1>1, <1>3 DEF Applied
  <2>2. (ui'.shown = "done") <=> (ui.shown = "done")
    BY <1>3
  <2> QED BY <1>1, <1>3, <2>1, <2>2 DEF WindowFits, ShowsFirst
<1>5. TellsTheEnd(ui)'
  BY <1>1, <1>3 DEF TellsTheEnd, Over, Outcome, Finals
<1>6. ui.last \in Nat
  BY <1>1 DEF Screens
<1> QED BY <1>1, <1>3, <1>4, <1>5, <1>6 DEF WindowFits, ActiveFits, GoesOn

LEMMA CancelReturnsFits ==
  ASSUME WindowInvariant, NEW r \in Runs, CancelReturns(r) PROVE WindowInvariant'
<1>1. /\ cancelling[r] \in {"cancelled", "refused"}
      /\ UNCHANGED <<log, delivered, wire, call, gap, troubles>>
      /\ cancelling' = [cancelling EXCEPT ![r] = "answered"]
      /\ \/ ui' = [ui EXCEPT !.status = "cancel_failed"]
         \/ cancelling[r] = "cancelled" /\ ui.active = r /\ ui' = Settle(ui, "cancelled")
         \/ ui' = ui
  BY DEF CancelReturns, UnchangedBackend, backend
<1>2. /\ ui \in Screens /\ troubles' \in 0 .. MaxTroubles
      /\ cancelling = [q \in Runs |-> cancelling[q]]
  BY <1>1 DEF WindowInvariant, WindowFits
<1>3. /\ WindowFits(ui)' /\ ActiveFits' /\ GoesOn
      /\ \A q \in Requests : call[q].pc \in Started /\ ui.request = q =>
           ui'.active = ui.active /\ ui'.last = ui.last /\ ui'.shown = ui.shown
  <2>1. CASE ui' = [ui EXCEPT !.status = "cancel_failed"]
    <3>1. /\ ui' \in Screens /\ ui'.active = ui.active /\ ui'.request = ui.request
          /\ ui'.seen = ui.seen /\ ui'.last = ui.last /\ ui'.shown = ui.shown
          /\ ui'.status = "cancel_failed"
      BY <1>2, <2>1 DEF Screens, Statuses
    <3>2. \A kind \in Finals : "cancel_failed" # Outcome(kind)
      BY DEF Finals, Outcome
    <3> QED BY <1>1, <3>1, <3>2, StatusFits
  <2>2. CASE cancelling[r] = "cancelled" /\ ui.active = r /\ ui' = Settle(ui, "cancelled")
    <3>1. WindowFits(ui)' /\ ActiveFits' /\ GoesOn
      BY <1>1, <2>2, SettledFits
    <3>2. \A q \in Requests : ~(call[q].pc \in Started /\ ui.request = q)
      BY <2>2 DEF WindowInvariant, CallFits, Runs, None
    <3> QED BY <3>1, <3>2
  <2>3. CASE ui' = ui
    BY <1>1, <2>3, UnchangedFits
  <2> QED BY <1>1, <2>1, <2>2, <2>3
<1>4. /\ DeliveryFits' /\ GapFits' /\ call' = [q \in Requests |-> call'[q]]
      /\ \A q \in Requests : CallFits(q)'
  BY <1>1, <1>3, CallsStay
<1>5. cancelling' = [q \in Runs |-> cancelling'[q]] /\ \A q \in Runs : CancelFits(q)'
  <2>1. /\ cancelling' = [q \in Runs |-> cancelling'[q]] /\ cancelling'[r] = "answered"
        /\ \A q \in Runs : q # r => cancelling'[q] = cancelling[q]
    BY <1>1, <1>2
  <2>2. log[r] # <<>>
    BY <1>1 DEF WindowInvariant, CancelFits
  <2> QED BY <1>1, <2>1, <2>2 DEF WindowInvariant, CancelFits, Answers, Over
<1> QED BY <1>2, <1>3, <1>4, <1>5 DEF WindowInvariant

----------------------------------------------------------------------------
(* The chain of emissions.                                                 *)

\* The emission at the head was committed.
LEMMA HeadIsCommitted ==
  ASSUME WindowInvariant, wire # <<>>
  PROVE  Head(wire).run \in Runs /\ Head(wire).sequence \in 1 .. Len(log[Head(wire).run])
<1>1. wire \in Seq(Events) /\ Len(wire) \in Nat /\ 1 \in 1 .. Len(wire) /\ Head(wire) = wire[1]
  BY DEF WindowInvariant, DeliveryFits, DeliveryType
<1>2. wire[1] \in Events /\ wire[1].sequence \in 1 .. Len(log[wire[1].run])
  BY <1>1 DEF WindowInvariant, DeliveryFits
<1> QED BY <1>1, <1>2 DEF Events

LEMMA NoGapFits ==
  ASSUME gap' \in GapRows, gap'.pc \notin {"reading", "reply"} PROVE GapFits'
BY DEF GapFits

LEMMA IgnoreFits ==
  ASSUME WindowInvariant, Ignore PROVE WindowInvariant'
<1>1. /\ wire # <<>> /\ wire' = Tail(wire) /\ gap.pc \in {"none", "broken"}
      /\ UNCHANGED <<log, delivered, ui, call, gap, cancelling, troubles>>
  BY DEF Ignore, Consume, UnchangedLog, window
<1>2. DeliveryFits' /\ WindowFits(ui)' /\ ActiveFits' /\ GoesOn /\ ui' \in Screens
  BY <1>1, DeliveryKeeps, UnchangedFits DEF WindowFits
<1>3. GapFits'
  BY <1>1, NoGapFits DEF WindowInvariant, GapFits
<1>4. \A q \in Requests : CallFits(q)'
  BY <1>1, <1>2, CallKeeps
<1> QED BY <1>1, <1>2, <1>3, <1>4, CancelsKeep DEF WindowInvariant

LEMMA HandleFits ==
  ASSUME WindowInvariant, Handle PROVE WindowInvariant'
<1> DEFINE r == Head(wire).run
           n == Head(wire).sequence
<1>1. /\ wire # <<>> /\ gap.pc = "none" /\ r = ui.active
      /\ UNCHANGED <<log, delivered, call, cancelling, troubles>>
      /\ \/ /\ gap' = [NoGap EXCEPT !.pc = "reading", !.run = r, !.cursor = ui.last]
            /\ UNCHANGED <<ui, wire>>
         \/ /\ ~Skips(n) /\ ui' = Accept(ui, r, n)
            /\ wire' = Tail(wire) /\ UNCHANGED gap
  BY DEF Handle, Consume, UnchangedLog
<1>2. r \in Runs /\ n \in 1 .. Len(log[r])
  BY <1>1, HeadIsCommitted
<1> HIDE DEF r, n
<1>3. /\ WindowFits(ui) /\ ui.request = r /\ ui.last \in Nat /\ WellOrdered(log[r]) /\ log[r] # <<>>
      /\ GapFits /\ call[r].pc \notin Started
  BY <1>1, <1>2 DEF WindowInvariant, WindowFits, Screens, DeliveryFits, ActiveFits, CallFits,
                    Runs, None, Requests
<1>4. CASE /\ gap' = [NoGap EXCEPT !.pc = "reading", !.run = r, !.cursor = ui.last]
           /\ UNCHANGED <<ui, wire>>
  <2>1. gap' \in GapRows /\ gap'.pc = "reading" /\ gap'.run = r /\ gap'.cursor = ui.last
    BY <1>2, <1>3, <1>4 DEF GapRows, NoGap, PageType, NoPage
  <2>2. GapFits'
    BY <1>1, <1>2, <1>3, <1>4, <2>1 DEF GapFits, WindowFits, ShowsFirst, r, Runs, None
  <2>3. WindowFits(ui)' /\ ActiveFits' /\ GoesOn /\ DeliveryFits' /\ ui' \in Screens
    BY <1>1, <1>4, UnchangedFits, DeliveryKeeps DEF WindowFits
  <2>4. \A q \in Requests : CallFits(q)'
    BY <1>1, <1>4, <2>3, CallKeeps
  <2> QED BY <1>1, <2>2, <2>3, <2>4, CancelsKeep DEF WindowInvariant
<1>5. CASE /\ ~Skips(n) /\ ui' = Accept(ui, r, n)
           /\ wire' = Tail(wire) /\ UNCHANGED gap
  <2>1. n <= ui.last + 1 /\ n \in Nat
    BY <1>2, <1>3, <1>5 DEF Skips, WellOrdered
  <2>2. /\ WindowFits(ui') /\ ui'.request = ui.request /\ ui'.last = Larger(ui.last, n)
    BY <1>2, <1>3, <1>5, <2>1, AcceptFits
  <2>3. ui'.last >= ui.last
    BY <1>3, <2>1, <2>2 DEF Larger
  <2>4. WindowFits(ui)' /\ GoesOn /\ ActiveFits'
    BY <1>1, <1>3, <2>2, <2>3, Carried DEF GoesOn, ActiveFits, WindowFits
  <2>5. DeliveryFits'
    BY <1>1, <1>5, DeliveryKeeps
  <2>6. GapFits'
    BY <1>1, <1>3, <1>5, NoGapFits DEF GapFits
  <2>7. \A q \in Requests : CallFits(q)'
    BY <1>1, <1>2, <1>3, <2>2, <2>4, AcceptedKeeps
  <2> QED BY <1>1, <2>4, <2>5, <2>6, <2>7, CancelsKeep DEF WindowInvariant
<1> QED BY <1>1, <1>4, <1>5

LEMMA GapReadFits ==
  ASSUME WindowInvariant, GapRead PROVE WindowInvariant'
<1> DEFINE page == Page(gap.run, gap.cursor)
<1>1. /\ gap.pc = "reading" /\ gap' = [gap EXCEPT !.pc = "reply", !.page = page]
      /\ UNCHANGED <<log, delivered, wire, ui, call, cancelling, troubles>>
  BY DEF GapRead, UnchangedBackend, backend
<1>2. /\ GapFits /\ gap \in GapRows /\ gap.run \in Runs /\ gap.cursor \in Nat
      /\ gap.cursor <= Len(log[gap.run]) /\ wire # <<>> /\ Head(wire).run = gap.run
  BY <1>1 DEF WindowInvariant, GapFits, GapRows
<1>3. /\ page \in PageType /\ PageIs(page, gap.cursor, gap.run)
      /\ ~page.more => page.to = Len(log[gap.run])
  BY <1>2, PageIsRead
<1>4. Head(wire).sequence <= Len(log[gap.run])
  <2>1. Head(wire).sequence \in 1 .. Len(log[gap.run]) /\ Len(log[gap.run]) \in Nat
    BY <1>2, HeadIsCommitted DEF WindowInvariant, DeliveryFits, DeliveryType
  <2> QED BY <2>1
<1> HIDE DEF page
<1>5. /\ gap' \in GapRows /\ gap'.pc = "reply" /\ gap'.run = gap.run /\ gap'.cursor = gap.cursor
      /\ gap'.page = page
  BY <1>1, <1>2, <1>3 DEF GapRows
<1>6. GapFits'
  BY <1>1, <1>2, <1>3, <1>4, <1>5 DEF GapFits, PageIs
<1>7. WindowFits(ui)' /\ ActiveFits' /\ GoesOn /\ DeliveryFits' /\ ui' \in Screens
  BY <1>1, UnchangedFits, DeliveryKeeps DEF WindowFits
<1>8. \A q \in Requests : CallFits(q)'
  BY <1>1, <1>7, CallKeeps
<1> QED BY <1>1, <1>6, <1>7, <1>8, CancelsKeep DEF WindowInvariant

LEMMA GapFailsFits ==
  ASSUME WindowInvariant, GapFails PROVE WindowInvariant'
<1>1. /\ gap.pc = "reading" /\ gap' = [NoGap EXCEPT !.pc = "broken"] /\ wire' = Tail(wire) /\ Trouble
      /\ UNCHANGED <<log, delivered, ui, call, cancelling>>
  BY DEF GapFails, Consume, UnchangedLog
<1>2. wire # <<>>
  BY <1>1 DEF WindowInvariant, GapFits
<1>3. gap' \in GapRows /\ gap'.pc = "broken"
  BY <1>1 DEF GapRows, NoGap, PageType, NoPage, None
<1>4. WindowFits(ui)' /\ ActiveFits' /\ GoesOn /\ DeliveryFits' /\ ui' \in Screens /\ GapFits'
  BY <1>1, <1>2, <1>3, UnchangedFits, DeliveryKeeps, NoGapFits DEF WindowFits
<1>5. \A q \in Requests : CallFits(q)'
  BY <1>1, <1>4, CallKeeps
<1> QED BY <1>1, <1>4, <1>5, CancelsKeep, TroubleFits DEF WindowInvariant

LEMMA GapReturnsFits ==
  ASSUME WindowInvariant, GapReturns PROVE WindowInvariant'
<1> DEFINE r == gap.run
           n == Head(wire).sequence
           repaired == AcceptPage(ui, r, gap.page)
<1>1. /\ gap.pc = "reply" /\ UNCHANGED <<log, delivered, call, cancelling, troubles>>
      /\ \/ /\ gap.page.more /\ ui.request = r /\ ui' = repaired /\ UNCHANGED wire
            /\ gap' = [gap EXCEPT !.pc = "reading", !.cursor = gap.page.to, !.page = NoPage]
         \/ /\ ~(gap.page.more /\ ui.request = r) /\ ui' = Accept(repaired, r, n)
            /\ gap' = NoGap /\ wire' = Tail(wire)
  BY DEF GapReturns, UnchangedLog, Consume
<1>2. /\ GapFits /\ gap \in GapRows /\ r \in Runs /\ gap.cursor \in Nat /\ gap.page \in PageType
      /\ wire # <<>> /\ Head(wire).run = r /\ call[r].pc \notin Started
      /\ ui.request = r => gap.cursor <= ui.last
      /\ PageIs(gap.page, gap.cursor, r) /\ (~gap.page.more => n <= gap.page.to)
  BY <1>1 DEF WindowInvariant, GapFits, GapRows
<1>3. n \in 1 .. Len(log[r]) /\ Len(log[r]) \in Nat /\ WellOrdered(log[r]) /\ log[r] # <<>>
  <2>1. n \in 1 .. Len(log[r]) /\ log[r] \in Seq(Kinds) /\ WellOrdered(log[r])
    BY <1>2, HeadIsCommitted DEF WindowInvariant, DeliveryFits, DeliveryType
  <2> QED BY <2>1
<1>4. /\ WindowFits(repaired) /\ repaired.request = ui.request /\ repaired.last >= ui.last
      /\ repaired.active # None => log[repaired.active] # <<>>
      /\ ui.request # r => repaired = ui
      /\ ui.request = r => repaired.last >= gap.page.to
  BY <1>2, <1>3, PageArrives
<1> HIDE DEF r, n, repaired
<1>5. ui.last \in Nat /\ repaired.last \in Nat /\ gap.page.to \in Nat
  BY <1>2, <1>4 DEF WindowInvariant, WindowFits, Screens, PageType
<1>6. CASE /\ gap.page.more /\ ui.request = r /\ ui' = repaired /\ UNCHANGED wire
           /\ gap' = [gap EXCEPT !.pc = "reading", !.cursor = gap.page.to, !.page = NoPage]
  <2>1. /\ gap' \in GapRows /\ gap'.pc = "reading" /\ gap'.run = r /\ gap'.cursor = gap.page.to
    BY <1>2, <1>5, <1>6 DEF GapRows, PageType, NoPage, r
  <2>2. WindowFits(ui)' /\ ActiveFits' /\ GoesOn
    BY <1>1, <1>4, <1>6, Carried DEF ActiveFits, GoesOn
  <2>3. GapFits'
    BY <1>1, <1>2, <1>4, <1>6, <2>1 DEF GapFits, PageIs
  <2>4. DeliveryFits'
    BY <1>1, <1>6, DeliveryKeeps
  <2>5. \A q \in Requests : CallFits(q)'
    BY <1>1, <1>2, <1>4, <1>6, <2>2, AcceptedKeeps
  <2> QED BY <1>1, <2>2, <2>3, <2>4, <2>5, CancelsKeep DEF WindowInvariant
<1>7. CASE /\ ~(gap.page.more /\ ui.request = r) /\ ui' = Accept(repaired, r, n)
           /\ gap' = NoGap /\ wire' = Tail(wire)
  <2>1. ui.request = r => n <= repaired.last + 1 /\ n \in Nat
    BY <1>2, <1>3, <1>4, <1>5, <1>7
  <2>2. /\ WindowFits(ui') /\ ui'.request = repaired.request
        /\ repaired.request # r => ui' = repaired
        /\ repaired.request = r => ui'.last = Larger(repaired.last, n)
    BY <1>2, <1>3, <1>4, <1>7, <2>1, AcceptFits
  <2>3. ui'.last >= ui.last
    <3>1. CASE ui.request = r
      BY <1>4, <1>5, <2>1, <2>2, <3>1 DEF Larger
    <3>2. CASE ui.request # r
      BY <1>4, <1>5, <2>2, <3>2
    <3> QED BY <3>1, <3>2
  <2>4. ActiveFits'
    BY <1>1, <1>3, <1>4, <2>2 DEF ActiveFits, WindowFits, WindowInvariant
  <2>5. WindowFits(ui)' /\ GoesOn /\ (ui.request # r => ui' = ui)
    BY <1>1, <1>4, <2>2, <2>3, Carried DEF GoesOn
  <2>6. GapFits'
    <3>1. gap' \in GapRows /\ gap'.pc = "none"
      BY <1>7 DEF NoGap, GapRows, PageType, NoPage, None
    <3> QED BY <3>1, NoGapFits
  <2>7. DeliveryFits'
    BY <1>1, <1>2, <1>7, DeliveryKeeps
  <2>8. \A q \in Requests : CallFits(q)'
    BY <1>1, <1>2, <2>2, <2>5, AcceptedKeeps
  <2> QED BY <1>1, <2>4, <2>5, <2>6, <2>7, <2>8, CancelsKeep DEF WindowInvariant
<1> QED BY <1>1, <1>6, <1>7

----------------------------------------------------------------------------
(* The theorems.                                                           *)

LEMMA NextFits == WindowInvariant /\ [Next]_vars => WindowInvariant'
<1> SUFFICES ASSUME WindowInvariant, [Next]_vars PROVE WindowInvariant'
  OBVIOUS
<1>1. CASE UNCHANGED vars
  <2>1. UNCHANGED window /\ UNCHANGED <<log, delivered, wire>>
    BY <1>1 DEF vars, window
  <2>2. Grows /\ Emits
    BY <2>1 DEF WindowInvariant, DeliveryFits, DeliveryType, Grows, Emits, Continues
  <2>3. delivered' \in [Runs -> Nat] /\ \A r \in Runs : delivered'[r] <= Len(log'[r])
    BY <2>1 DEF WindowInvariant, DeliveryFits, DeliveryType
  <2> QED BY <2>1, <2>2, <2>3, BackendFits
<1>2. ASSUME NEW q \in Requests, RunPressed(q) \/ Requesting(q) \/ CallFails(q)
      PROVE  WindowInvariant'
  BY <1>2, RunPressedFits, ObserveReturnsFits, AdmissionCommitsFits, AdmissionReturnsFits,
     PageReadFits, PageReturnsFits, CallFailsFits DEF Requesting
<1>3. ASSUME NEW r \in Runs, CancelCommits(r) \/ CancelReturns(r) PROVE WindowInvariant'
  BY <1>3, CancelCommitsFits, CancelReturnsFits
<1> QED BY <1>1, <1>2, <1>3, BackendKeeps, EditFits, CancelPressedFits, GapFailsFits, IgnoreFits,
           HandleFits, GapReadFits, GapReturnsFits DEF Next, Listening

\* In every state the window has the first events of the Run it follows, and
\* every page and repair under way goes on from there, whatever was lost, came
\* twice or came late (useRunController, publish_committed_workflow_run_event).
THEOREM WindowInvariantHolds == Spec => []WindowInvariant
<1>1. Init => WindowInvariant
  BY InitFits
<1>2. WindowInvariant /\ [Next]_vars => WindowInvariant'
  BY NextFits
<1> QED BY <1>1, <1>2, PTL DEF Spec

\* Every variable keeps its type; a repair holds back the emission it is for.
THEOREM TypeCorrect == Spec => []TypeOK
<1>1. ASSUME WindowInvariant PROVE TypeOK
  <2>1. ui \in Screens /\ ui.active \in {None, ui.request} /\ DeliveryType /\ GapFits
    BY <1>1 DEF WindowInvariant, WindowFits, DeliveryFits
  <2>2. call \in [Requests -> CallRows]
    BY <1>1 DEF WindowInvariant, CallFits
  <2>3. cancelling \in [Runs -> Answers] /\ troubles \in 0 .. MaxTroubles
    BY <1>1 DEF WindowInvariant, CancelFits
  <2>4. gap \in GapRows /\ (gap.pc \in {"reading", "reply"} => wire # <<>> /\ Head(wire).run = gap.run)
    BY <2>1 DEF GapFits
  <2> QED BY <2>1, <2>2, <2>3, <2>4 DEF TypeOK, Screens, CallRows, Answers, GapRows
<1> QED BY <1>1, WindowInvariantHolds, PTL

\* The window has applied exactly the first events of the Run it follows, each
\* once and in order, and shows what they say (useRunController's acceptEvent).
THEOREM WindowShowsPrefix == Spec => []ShowsPrefix
<1>1. ASSUME WindowInvariant PROVE ShowsPrefix
  <2>1. ShowsFirst(ui)
    BY <1>1 DEF WindowInvariant, WindowFits
  <2> QED BY <2>1 DEF ShowsFirst, ShowsPrefix, Applied
<1> QED BY <1>1, WindowInvariantHolds, PTL

\* No outcome is shown but the one the Run of the request has committed
\* (useRunController's settle, from an event or from the answer of a cancellation).
THEOREM OutcomesAreCommitted == Spec => []OutcomeIsCommitted
<1>1. ASSUME WindowInvariant PROVE OutcomeIsCommitted
  BY <1>1 DEF WindowInvariant, WindowFits, TellsTheEnd, OutcomeIsCommitted
<1> QED BY <1>1, WindowInvariantHolds, PTL
=============================================================================
