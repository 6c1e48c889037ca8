-------------------------- MODULE RemoteFormsProofs --------------------------
(***************************************************************************)
(* Proofs about RemoteForms and the calls of JQueryAjax, for every set of  *)
(* calls, forms and callbacks.                                             *)
(***************************************************************************)
EXTENDS RemoteForms, SequenceTheorems, FiniteSetTheorems, TLAPS

-----------------------------------------------------------------------------
(* A deferred. *)

\* The end of a sequence.
LEMMA Rest ==
  ASSUME NEW S, NEW s \in Seq(S), NEW m \in 0..Len(s)
  PROVE  LET rest == SubSeq(s, m + 1, Len(s))
         IN  /\ rest \in Seq(S) /\ Len(rest) = Len(s) - m
             /\ \A i \in 1..Len(rest) : rest[i] = s[m + i]
<1> DEFINE rest == SubSeq(s, m + 1, Len(s))
<1>1. Len(s) \in Nat /\ \A i \in (m + 1)..Len(s) : s[i] \in S
  OBVIOUS
<1>2. /\ rest \in Seq(S)
      /\ Len(rest) = IF m + 1 <= Len(s) THEN Len(s) - (m + 1) + 1 ELSE 0
      /\ \A i \in 1..(Len(s) - (m + 1) + 1) : rest[i] = s[m + 1 + i - 1]
  BY <1>1, SubSeqProperties
<1> HIDE DEF rest
<1> QED
  BY <1>1, <1>2 DEF rest

\* Two sequences in a row.
LEMMA Joined ==
  ASSUME NEW S, NEW s \in Seq(S), NEW t \in Seq(S)
  PROVE  LET all == s \o t
         IN  /\ all \in Seq(S) /\ Len(all) = Len(s) + Len(t)
             /\ Len(s) \in Nat /\ Len(t) \in Nat
             /\ \A i \in 1..Len(s) : all[i] = s[i]
             /\ \A i \in 1..Len(all) :
                  \/ i \in 1..Len(s) /\ all[i] = s[i]
                  \/ i - Len(s) \in 1..Len(t) /\ all[i] = t[i - Len(s)]
<1> DEFINE all == s \o t
<1>1. Len(s) \in Nat /\ Len(t) \in Nat
  OBVIOUS
<1>2. /\ all \in Seq(S) /\ Len(all) = Len(s) + Len(t)
      /\ \A i \in 1..(Len(s) + Len(t)) :
           all[i] = IF i <= Len(s) THEN s[i] ELSE t[i - Len(s)]
  BY ConcatProperties
<1> HIDE DEF all
<1> QED
  BY <1>1, <1>2 DEF all

\* What runs when the k-th callback throws comes off the front of the list.
LEMMA Fired ==
  ASSUME NEW d \in Deferred, ~d.cancelled, ~d.fired,
         NEW k \in Nat, k <= Len(d.list)
  PROVE  \E m \in 0..Len(d.list) :
           LET runs == Fires(d, k)
               after == ResolveWith(d, k)
           IN  /\ k # 0 => m = k
               /\ k = 0 => m = Len(d.list)
               /\ runs \in Seq(Entry) /\ Len(runs) = m
               /\ \A i \in 1..m : runs[i] = d.list[i]
               /\ after \in Deferred /\ after.fired /\ ~after.cancelled
               /\ Len(after.list) = Len(d.list) - m
               /\ \A i \in 1..Len(after.list) : after.list[i] = d.list[m + i]
<1> DEFINE runs == Fires(d, k)
           after == ResolveWith(d, k)
<1>1. d.list \in Seq(Entry) /\ Len(d.list) \in Nat
  BY DEF Deferred
<1>2. PICK m \in 0..Len(d.list) : m = IF k = 0 THEN Len(d.list) ELSE k
  BY <1>1
<1>3. /\ runs \in Seq(Entry) /\ Len(runs) = m
      /\ \A i \in 1..m : runs[i] = d.list[i]
  BY <1>1, <1>2 DEF Fires
<1> DEFINE rest == SubSeq(d.list, m + 1, Len(d.list))
           one == [d EXCEPT !.fired = TRUE]
<1>4. /\ rest \in Seq(Entry) /\ Len(rest) = Len(d.list) - m
      /\ \A i \in 1..Len(rest) : rest[i] = d.list[m + i]
  BY <1>1, <1>2, Rest
<1>5. one \in Deferred /\ one.fired /\ ~one.cancelled /\ one.list = d.list
  BY DEF Deferred
<1>6. after = [one EXCEPT !.list = rest]
  BY <1>3 DEF ResolveWith, Deferred
<1> HIDE DEF one, rest, after, runs
<1>7. after \in Deferred /\ after.fired /\ ~after.cancelled /\ after.list = rest
  BY <1>4, <1>5, <1>6 DEF Deferred
<1> QED
  BY <1>2, <1>3, <1>4, <1>7 DEF after, runs

\* A list that fires: what it ran no longer waits, and ran once.
LEMMA FireWaits ==
  ASSUME NEW d, NEW l, NEW ran \in Seq(Entry), Waiting(d, l, ran),
         Distinct(ran), ~d.cancelled, ~d.fired,
         NEW k \in Nat, k <= Len(d.list)
  PROVE  LET runs == Fires(d, k)
             after == ResolveWith(d, k)
         IN  /\ runs \in Seq(Entry) /\ \A i \in 1..Len(runs) : runs[i][1] = l
             /\ Distinct(ran \o runs) /\ Waiting(after, l, ran \o runs)
             /\ after.fired /\ ~after.cancelled
             /\ \A i \in 1..Len(runs) : \E j \in 1..Len(d.list) : runs[i] = d.list[j]
             /\ Len(d.list) > 0 => Len(runs) > 0 /\ runs[1] = d.list[1]
<1> DEFINE runs == Fires(d, k)
           after == ResolveWith(d, k)
<1>1. d \in Deferred /\ d.list \in Seq(Entry) /\ Len(d.list) \in Nat
  BY DEF Waiting, Deferred
<1>2. PICK m \in 0..Len(d.list) :
        /\ k # 0 => m = k
        /\ k = 0 => m = Len(d.list)
        /\ runs \in Seq(Entry) /\ Len(runs) = m
        /\ \A i \in 1..m : runs[i] = d.list[i]
        /\ after \in Deferred /\ after.fired /\ ~after.cancelled
        /\ Len(after.list) = Len(d.list) - m
        /\ \A i \in 1..Len(after.list) : after.list[i] = d.list[m + i]
  BY <1>1, Fired
<1> HIDE DEF runs, after
<1> DEFINE all == ran \o runs
<1>3. /\ Len(ran) \in Nat /\ Len(all) = Len(ran) + m
      /\ \A i \in 1..Len(all) :
           \/ i \in 1..Len(ran) /\ all[i] = ran[i]
           \/ i - Len(ran) \in 1..Len(runs) /\ all[i] = runs[i - Len(ran)]
  <2>1. /\ Len(ran) \in Nat /\ Len(all) = Len(ran) + Len(runs)
        /\ \A i \in 1..Len(all) :
             \/ i \in 1..Len(ran) /\ all[i] = ran[i]
             \/ i - Len(ran) \in 1..Len(runs) /\ all[i] = runs[i - Len(ran)]
    <3>1. runs \in Seq(Entry)
      BY <1>2
    <3> QED
      BY <3>1, Joined
  <2> QED
    BY <1>2, <2>1
<1>4. \A i \in 1..Len(all) :
        \/ i \in 1..Len(ran) /\ all[i] = ran[i]
        \/ \E p \in 1..m : p = i - Len(ran) /\ all[i] = d.list[p]
  BY <1>2, <1>3
<1>5. /\ \A i \in 1..Len(d.list) : \A j \in 1..Len(ran) : ran[j] # d.list[i]
      /\ \A i, j \in 1..Len(d.list) : d.list[i] = d.list[j] => i = j
      /\ \A i, j \in 1..Len(ran) : ran[i] = ran[j] => i = j
  <2>1. \A i \in 1..Len(d.list) : \A j \in 1..Len(ran) : ran[j] # d.list[i]
    BY DEF Waiting
  <2>2. Distinct(d.list)
    BY DEF Waiting
  <2> QED
    BY <2>1, <2>2 DEF Distinct
<1> HIDE DEF all
<1>6. Distinct(all)
  <2> SUFFICES ASSUME NEW i \in 1..Len(all), NEW j \in 1..Len(all),
                      all[i] = all[j]
               PROVE  i = j
    BY DEF Distinct
  <2>1. CASE i \in 1..Len(ran) /\ all[i] = ran[i]
    <3>1. \A p \in 1..m : all[j] # d.list[p]
      BY <1>1, <1>5, <2>1
    <3> QED
      BY <1>4, <1>5, <2>1, <3>1
  <2>2. CASE \E p \in 1..m : p = i - Len(ran) /\ all[i] = d.list[p]
    <3>1. PICK p \in 1..m : p = i - Len(ran) /\ all[i] = d.list[p]
      BY <2>2
    <3>2. p \in 1..Len(d.list) /\ \A q \in 1..Len(ran) : all[j] # ran[q]
      BY <1>1, <1>5, <3>1
    <3>3. PICK q \in 1..m : q = j - Len(ran) /\ all[j] = d.list[q]
      BY <1>4, <3>2
    <3>4. p = q
      <4>1. q \in 1..Len(d.list)
        BY <1>1, <3>3
      <4>2. d.list[p] = d.list[q]
        BY <3>1, <3>3
      <4> QED
        BY <1>5, <3>2, <4>1, <4>2
    <3> QED
      BY <1>3, <3>1, <3>3, <3>4
  <2> QED
    BY <1>4, <2>1, <2>2
<1>7. Waiting(after, l, all)
  <2>1. Distinct(after.list)
    <3> SUFFICES ASSUME NEW i \in 1..Len(after.list),
                        NEW j \in 1..Len(after.list),
                        after.list[i] = after.list[j]
                 PROVE  i = j
      BY DEF Distinct
    <3>1. m + i \in 1..Len(d.list) /\ m + j \in 1..Len(d.list)
      BY <1>1, <1>2
    <3>2. d.list[m + i] = d.list[m + j]
      BY <1>2
    <3> QED
      BY <1>5, <3>1, <3>2
  <2>2. ASSUME NEW i \in 1..Len(after.list)
        PROVE  /\ m + i \in 1..Len(d.list) /\ after.list[i] = d.list[m + i]
               /\ after.list[i][1] = l
               /\ \A j \in 1..Len(all) : all[j] # after.list[i]
               /\ after.list[i] # <<l, Option>>
    <3>1. m + i \in 1..Len(d.list) /\ after.list[i] = d.list[m + i]
      BY <1>1, <1>2
    <3>2. after.list[i][1] = l
      BY <3>1 DEF Waiting
    <3>3. ASSUME NEW j \in 1..Len(all), all[j] = after.list[i] PROVE FALSE
      <4>1. PICK p \in 1..m : all[j] = d.list[p]
        BY <1>4, <1>5, <3>1, <3>3
      <4>2. p \in 1..Len(d.list) /\ d.list[p] = d.list[m + i]
        BY <1>1, <3>1, <3>3, <4>1
      <4>3. p = m + i
        BY <1>5, <3>1, <4>2
      <4> QED
        BY <1>2, <4>3
    <3>4. k # 0 /\ m = k
      BY <1>1, <1>2
    <3>5. m + i # 1
      BY <3>4
    <3>6. d.list[m + i] # <<l, Option>>
      BY <3>1, <3>5 DEF Waiting
    <3> QED
      BY <3>1, <3>2, <3>3, <3>6
  <2> QED
    BY <1>2, <2>1, <2>2 DEF Waiting
<1>8. \A i \in 1..Len(runs) :
        runs[i][1] = l /\ \E j \in 1..Len(d.list) : runs[i] = d.list[j]
  BY <1>1, <1>2 DEF Waiting
<1>9. Len(d.list) > 0 => Len(runs) > 0 /\ runs[1] = d.list[1]
  BY <1>1, <1>2
<1> QED
  BY <1>2, <1>6, <1>7, <1>8, <1>9 DEF runs, after, all

\* The other lists go on waiting.
LEMMA OthersWait ==
  ASSUME NEW d, NEW l, NEW m, m # l, NEW ran \in Seq(Entry),
         Waiting(d, l, ran), NEW runs \in Seq(Entry),
         \A i \in 1..Len(runs) : runs[i][1] = m
  PROVE  Waiting(d, l, ran \o runs)
<1>1. \A j \in 1..Len(ran \o runs) :
        \/ j \in 1..Len(ran) /\ (ran \o runs)[j] = ran[j]
        \/ (ran \o runs)[j][1] = m
  <2> SUFFICES ASSUME NEW j \in 1..Len(ran \o runs), j > Len(ran)
               PROVE  (ran \o runs)[j][1] = m
    BY Joined
  <2>1. j - Len(ran) \in 1..Len(runs) /\ (ran \o runs)[j] = runs[j - Len(ran)]
    BY Joined
  <2> QED
    BY <2>1
<1> QED
  BY <1>1 DEF Waiting

LEMMA CancelWaits ==
  ASSUME NEW d, NEW l, NEW ran \in Seq(Entry), Waiting(d, l, ran), ~d.fired
  PROVE  /\ Waiting(Cancel(d), l, ran)
         /\ ~Cancel(d).fired /\ Cancel(d).cancelled
<1> DEFINE one == [d EXCEPT !.cancelled = TRUE]
<1>1. d \in Deferred
  BY DEF Waiting
<1>2. one \in Deferred /\ one.cancelled /\ ~one.fired
  BY <1>1 DEF Deferred
<1>3. <<>> \in Seq(Entry) /\ Len(<<>>) = 0
  OBVIOUS
<1>4. Cancel(d) = [one EXCEPT !.list = <<>>]
  BY <1>1 DEF Cancel, Deferred
<1> HIDE DEF one
<1>5. Cancel(d) \in Deferred /\ Cancel(d).cancelled /\ ~Cancel(d).fired
      /\ Cancel(d).list = <<>>
  BY <1>2, <1>3, <1>4 DEF Deferred
<1> QED
  BY <1>3, <1>5 DEF Waiting, Distinct

LEMMA OthersHeard ==
  ASSUME NEW d, NEW l, NEW m, m # l, NEW ran \in Seq(Entry),
         Heard(d, l, ran), NEW runs \in Seq(Entry),
         \A i \in 1..Len(runs) : runs[i][1] = m
  PROVE  Heard(d, l, ran \o runs)
<1> SUFFICES ASSUME NEW j \in 1..Len(ran \o runs), (ran \o runs)[j][1] = l
             PROVE  d.fired
  BY DEF Heard
<1>1. CASE j \in 1..Len(ran) /\ (ran \o runs)[j] = ran[j]
  BY <1>1 DEF Heard
<1>2. CASE j - Len(ran) \in 1..Len(runs)
           /\ (ran \o runs)[j] = runs[j - Len(ran)]
  BY <1>2
<1> QED
  BY <1>1, <1>2, Joined

\* List l can fire, list m is its opposite, list n another one.
Ending(d, l, e, m, c, n, ran) ==
  /\ l # m /\ l # n /\ Distinct(ran)
  /\ Waiting(d, l, ran) /\ ~d.cancelled /\ ~d.fired
  /\ Waiting(e, m, ran) /\ Heard(e, m, ran) /\ ~e.fired
  /\ Waiting(c, n, ran) /\ Heard(c, n, ran)

\* One list fires and its opposite is cancelled.
LEMMA EndsOnce ==
  ASSUME NEW d, NEW l, NEW e, NEW m, NEW c, NEW n, NEW ran \in Seq(Entry),
         Ending(d, l, e, m, c, n, ran), NEW k \in Nat, k <= Len(d.list)
  PROVE  LET all == ran \o Fires(d, k)
             after == ResolveWith(d, k)
         IN  /\ all \in Seq(Entry) /\ Distinct(all) /\ Fires(d, k) \in Seq(Entry)
             /\ Waiting(after, l, all) /\ Heard(after, l, all)
             /\ after.fired /\ ~after.cancelled
             /\ Waiting(Cancel(e), m, all) /\ Heard(Cancel(e), m, all)
             /\ ~Cancel(e).fired /\ Cancel(e).cancelled
             /\ Waiting(c, n, all) /\ Heard(c, n, all)
             /\ \A i \in 1..Len(Fires(d, k)) : Fires(d, k)[i][1] = l
<1> DEFINE runs == Fires(d, k)
           after == ResolveWith(d, k)
<1>0. /\ l # m /\ l # n /\ Distinct(ran)
      /\ Waiting(d, l, ran) /\ ~d.cancelled /\ ~d.fired
      /\ Waiting(e, m, ran) /\ Heard(e, m, ran) /\ ~e.fired
      /\ Waiting(c, n, ran) /\ Heard(c, n, ran)
  BY DEF Ending
<1>1. /\ runs \in Seq(Entry) /\ \A i \in 1..Len(runs) : runs[i][1] = l
      /\ Distinct(ran \o runs) /\ Waiting(after, l, ran \o runs)
      /\ after.fired /\ ~after.cancelled
  BY <1>0, FireWaits
<1> HIDE DEF runs, after
<1>2. /\ Waiting(Cancel(e), m, ran)
      /\ ~Cancel(e).fired /\ Cancel(e).cancelled
  BY <1>0, CancelWaits
<1>3. Heard(Cancel(e), m, ran)
  BY <1>0 DEF Heard
<1>4. Waiting(Cancel(e), m, ran \o runs) /\ Heard(Cancel(e), m, ran \o runs)
  BY <1>0, <1>1, <1>2, <1>3, OthersWait, OthersHeard
<1>5. Waiting(c, n, ran \o runs) /\ Heard(c, n, ran \o runs)
  BY <1>0, <1>1, OthersWait, OthersHeard
<1>6. Heard(after, l, ran \o runs)
  BY <1>1 DEF Heard
<1>7. ran \o runs \in Seq(Entry)
  BY <1>1, Joined
<1> QED
  BY <1>1, <1>2, <1>4, <1>5, <1>6, <1>7 DEF runs, after

-----------------------------------------------------------------------------
(* A call. *)

\* What the browser keeps of a call, besides its callbacks.
Shell(r) == <<r.state, r.made, r.transport, r.listening, r.timer>>

\* Callbacks that have run stay so, and so does the end of the call.
Grows(r, s) ==
  /\ Len(r.ran) <= Len(s.ran)
  /\ \A i \in 1..Len(r.ran) : s.ran[i] = r.ran[i]
  /\ r.done.fired => s.done.fired
  /\ r.fail.fired => s.fail.fired

WithEnd(r, d, e, ran) == [r EXCEPT !.done = d, !.fail = e, !.ran = ran]
WithComplete(r, d, ran) == [r EXCEPT !.complete = d, !.ran = ran]

LEMMA UpdateEnd ==
  ASSUME NEW r \in Record, NEW d \in Deferred, NEW e \in Deferred,
         NEW ran \in Seq(Entry)
  PROVE  LET s == WithEnd(r, d, e, ran)
         IN  /\ s \in Record /\ Shell(s) = Shell(r) /\ s.complete = r.complete
             /\ s.done = d /\ s.fail = e /\ s.ran = ran
<1> DEFINE one == [r EXCEPT !.done = d]
           two == [one EXCEPT !.fail = e]
           three == [two EXCEPT !.ran = ran]
<1>1. /\ one \in Record /\ Shell(one) = Shell(r) /\ one.complete = r.complete
      /\ one.done = d
  BY DEF Record, Shell
<1> HIDE DEF one
<1>2. /\ two \in Record /\ Shell(two) = Shell(one)
      /\ two.complete = one.complete /\ two.done = one.done /\ two.fail = e
  BY <1>1 DEF Record, Shell
<1> HIDE DEF two
<1>3. /\ three \in Record /\ Shell(three) = Shell(two)
      /\ three.complete = two.complete
      /\ three.done = two.done /\ three.fail = two.fail /\ three.ran = ran
  BY <1>2 DEF Record, Shell
<1> HIDE DEF three
<1>4. WithEnd(r, d, e, ran) = three
  BY DEF one, two, three, WithEnd
<1> QED
  BY <1>1, <1>2, <1>3, <1>4

LEMMA UpdateComplete ==
  ASSUME NEW r \in Record, NEW d \in Deferred, NEW ran \in Seq(Entry)
  PROVE  LET s == WithComplete(r, d, ran)
         IN  /\ s \in Record /\ Shell(s) = Shell(r) /\ s.complete = d
             /\ s.done = r.done /\ s.fail = r.fail /\ s.ran = ran
<1> DEFINE one == [r EXCEPT !.complete = d]
           two == [one EXCEPT !.ran = ran]
<1>1. /\ one \in Record /\ Shell(one) = Shell(r) /\ one.complete = d
      /\ one.done = r.done /\ one.fail = r.fail
  BY DEF Record, Shell
<1> HIDE DEF one
<1>2. /\ two \in Record /\ Shell(two) = Shell(one)
      /\ two.complete = one.complete /\ two.done = one.done
      /\ two.fail = one.fail /\ two.ran = ran
  BY <1>1 DEF Record, Shell
<1> HIDE DEF two
<1>3. WithComplete(r, d, ran) = two
  BY DEF one, two, WithComplete
<1> QED
  BY <1>1, <1>2, <1>3

\* The deferred of a call ends it, in one of two ways.
LEMMA SettleSound ==
  ASSUME NEW r \in Record, Listed(r), OneEnd(r), NEW ok \in BOOLEAN,
         NEW k \in Nat,
         k <= Len(Fires(IF ok THEN r.done ELSE r.fail, 0))
  PROVE  LET s == Settle(r, ok, k)
         IN  /\ s \in Record /\ Listed(s) /\ OneEnd(s) /\ Grows(r, s)
             /\ s.done.fired \/ s.fail.fired
             /\ Shell(s) = Shell(r) /\ s.complete = r.complete
             /\ \A i \in 1..Len(s.ran) :
                  s.ran[i][1] = "complete" => \E j \in 1..Len(r.ran) : r.ran[j] = s.ran[i]
<1> DEFINE s == Settle(r, ok, k)
           d == IF ok THEN r.done ELSE r.fail
<1>0. /\ r.done \in Deferred /\ r.fail \in Deferred /\ r.ran \in Seq(Entry)
      /\ Len(r.ran) \in Nat
  BY DEF Record
<1>1. CASE d.cancelled \/ d.fired
  <2>1. s = r
    BY <1>1 DEF Settle
  <2>2. r.done.fired \/ r.fail.fired
    BY <1>1 DEF OneEnd
  <2> QED
    BY <1>0, <2>1, <2>2 DEF Grows
<1>2. CASE ~d.cancelled /\ ~d.fired
  <2>1. ~r.done.cancelled /\ ~r.done.fired /\ ~r.fail.cancelled /\ ~r.fail.fired
    BY <1>2 DEF OneEnd
  <2>2. CASE ok
    <3> DEFINE runs == Fires(r.done, k)
               after == ResolveWith(r.done, k)
               off == Cancel(r.fail)
               all == r.ran \o runs
    <3>1. /\ Ending(r.done, "done", r.fail, "fail", r.complete, "complete", r.ran)
          /\ k <= Len(r.done.list)
      BY <2>1, <2>2 DEF Listed, Fires, Ending
    <3>2. /\ all \in Seq(Entry) /\ Distinct(all) /\ runs \in Seq(Entry)
          /\ Waiting(after, "done", all) /\ Heard(after, "done", all)
          /\ after.fired /\ ~after.cancelled
          /\ Waiting(off, "fail", all) /\ Heard(off, "fail", all)
          /\ ~off.fired /\ off.cancelled
          /\ Waiting(r.complete, "complete", all)
          /\ Heard(r.complete, "complete", all)
          /\ \A i \in 1..Len(runs) : runs[i][1] = "done"
      BY <1>0, <3>1, EndsOnce
    <3>3. s = WithEnd(r, after, off, all)
      BY <1>2, <2>2 DEF Settle, WithEnd
    <3> HIDE DEF s, runs, after, off
    <3>4. after \in Deferred /\ off \in Deferred
      BY <3>2 DEF Waiting
    <3>5. /\ Len(r.ran) <= Len(all)
          /\ \A i \in 1..Len(r.ran) : all[i] = r.ran[i]
          /\ \A i \in 1..Len(all) :
               \/ i \in 1..Len(r.ran) /\ all[i] = r.ran[i]
               \/ i - Len(r.ran) \in 1..Len(runs) /\ all[i] = runs[i - Len(r.ran)]
      BY <1>0, <3>2, Joined
    <3> HIDE DEF all
    <3>6. /\ s \in Record /\ Shell(s) = Shell(r) /\ s.complete = r.complete
          /\ s.done = after /\ s.fail = off /\ s.ran = all
      BY <3>2, <3>3, <3>4, UpdateEnd
    <3>7. Listed(s) /\ OneEnd(s)
      BY <2>1, <3>2, <3>6 DEF Listed, OneEnd
    <3>8. Grows(r, s)
      BY <2>1, <3>5, <3>6 DEF Grows
    <3>9. \A i \in 1..Len(all) :
            all[i][1] = "complete" => \E j \in 1..Len(r.ran) : r.ran[j] = all[i]
      BY <3>2, <3>5
    <3> QED
      BY <3>2, <3>6, <3>7, <3>8, <3>9 DEF s
  <2>3. CASE ~ok
    <3> DEFINE runs == Fires(r.fail, k)
               after == ResolveWith(r.fail, k)
               off == Cancel(r.done)
               all == r.ran \o runs
    <3>1. /\ Ending(r.fail, "fail", r.done, "done", r.complete, "complete", r.ran)
          /\ k <= Len(r.fail.list)
      BY <2>1, <2>3 DEF Listed, Fires, Ending
    <3>2. /\ all \in Seq(Entry) /\ Distinct(all) /\ runs \in Seq(Entry)
          /\ Waiting(after, "fail", all) /\ Heard(after, "fail", all)
          /\ after.fired /\ ~after.cancelled
          /\ Waiting(off, "done", all) /\ Heard(off, "done", all)
          /\ ~off.fired /\ off.cancelled
          /\ Waiting(r.complete, "complete", all)
          /\ Heard(r.complete, "complete", all)
          /\ \A i \in 1..Len(runs) : runs[i][1] = "fail"
      BY <1>0, <3>1, EndsOnce
    <3>3. s = WithEnd(r, off, after, all)
      BY <1>2, <2>3 DEF Settle, WithEnd
    <3> HIDE DEF s, runs, after, off
    <3>4. after \in Deferred /\ off \in Deferred
      BY <3>2 DEF Waiting
    <3>5. /\ Len(r.ran) <= Len(all)
          /\ \A i \in 1..Len(r.ran) : all[i] = r.ran[i]
          /\ \A i \in 1..Len(all) :
               \/ i \in 1..Len(r.ran) /\ all[i] = r.ran[i]
               \/ i - Len(r.ran) \in 1..Len(runs) /\ all[i] = runs[i - Len(r.ran)]
      BY <1>0, <3>2, Joined
    <3> HIDE DEF all
    <3>6. /\ s \in Record /\ Shell(s) = Shell(r) /\ s.complete = r.complete
          /\ s.fail = after /\ s.done = off /\ s.ran = all
      BY <3>2, <3>3, <3>4, UpdateEnd
    <3>7. Listed(s) /\ OneEnd(s)
      BY <2>1, <3>2, <3>6 DEF Listed, OneEnd
    <3>8. Grows(r, s)
      BY <2>1, <3>5, <3>6 DEF Grows
    <3>9. \A i \in 1..Len(all) :
            all[i][1] = "complete" => \E j \in 1..Len(r.ran) : r.ran[j] = all[i]
      BY <3>2, <3>5
    <3> QED
      BY <3>2, <3>6, <3>7, <3>8, <3>9 DEF s
  <2> QED
    BY <2>2, <2>3
<1> QED
  BY <1>0, <1>1, <1>2

\* The complete callbacks run once the call has ended.
LEMMA CompleteSound ==
  ASSUME NEW r \in Record, Listed(r), OneEnd(r), r.done.fired \/ r.fail.fired,
         NEW k \in Nat, k <= Len(Fires(r.complete, 0))
  PROVE  LET s == Complete(r, k)
             complete == <<"complete", Option>>
         IN  /\ s \in Record /\ Listed(s) /\ OneEnd(s) /\ Grows(r, s)
             /\ s.done.fired \/ s.fail.fired
             /\ Shell(s) = Shell(r)
             /\ ~OptionWaits(r) => \A i \in 1..Len(s.ran) :
                  s.ran[i] = complete => \E j \in 1..Len(r.ran) : r.ran[j] = complete
             /\ OptionWaits(r) => \E i \in 1..Len(s.ran) : s.ran[i] = complete
<1> DEFINE s == Complete(r, k)
           d == r.complete
           complete == <<"complete", Option>>
<1>0. r.complete \in Deferred /\ r.ran \in Seq(Entry) /\ Len(r.ran) \in Nat
      /\ Len(d.list) \in Nat
  BY DEF Record, Deferred
<1>1. CASE d.cancelled \/ d.fired
  <2>1. ResolveWith(d, k) = d /\ Fires(d, k) = <<>>
    BY <1>1 DEF ResolveWith, Fires
  <2>2. r.ran \o <<>> = r.ran
    BY <1>0, ConcatEmptySeq
  <2>3. s = r
    BY <2>1, <2>2 DEF Complete, Record
  <2>4. ~OptionWaits(r)
    BY <1>1 DEF OptionWaits, Listed, Waiting
  <2> QED
    BY <1>0, <2>3, <2>4 DEF Grows
<1>2. CASE ~d.cancelled /\ ~d.fired
  <2> DEFINE runs == Fires(d, k)
             all == r.ran \o runs
  <2>1. /\ runs \in Seq(Entry) /\ Distinct(all)
        /\ \A i \in 1..Len(runs) : runs[i][1] = "complete"
        /\ Waiting(ResolveWith(d, k), "complete", all)
        /\ ResolveWith(d, k).fired /\ ~ResolveWith(d, k).cancelled
        /\ \A i \in 1..Len(runs) : \E j \in 1..Len(d.list) : runs[i] = d.list[j]
        /\ Len(d.list) > 0 => Len(runs) > 0 /\ runs[1] = d.list[1]
    <3>1. k <= Len(d.list)
      BY <1>2 DEF Fires
    <3>2. Waiting(d, "complete", r.ran) /\ Distinct(r.ran)
      BY DEF Listed
    <3>3. r.ran \in Seq(Entry)
      BY <1>0
    <3> HIDE DEF d
    <3> QED
      BY <1>2, <3>1, <3>2, <3>3, FireWaits
  <2> HIDE DEF runs
  <2>2. /\ Waiting(r.done, "done", all) /\ Heard(r.done, "done", all)
        /\ Waiting(r.fail, "fail", all) /\ Heard(r.fail, "fail", all)
    BY <1>0, <2>1, OthersWait, OthersHeard DEF Listed
  <2>3. /\ all \in Seq(Entry) /\ Len(all) = Len(r.ran) + Len(runs)
        /\ Len(runs) \in Nat
        /\ \A i \in 1..Len(r.ran) : all[i] = r.ran[i]
        /\ \A i \in 1..Len(all) :
             \/ i \in 1..Len(r.ran) /\ all[i] = r.ran[i]
             \/ i - Len(r.ran) \in 1..Len(runs) /\ all[i] = runs[i - Len(r.ran)]
    BY <1>0, <2>1, Joined
  <2>4. s = WithComplete(r, ResolveWith(d, k), all)
    BY DEF Complete, runs, WithComplete
  <2>5. ResolveWith(d, k) \in Deferred
    BY <2>1 DEF Waiting
  <2> HIDE DEF s, all
  <2>6. /\ s \in Record /\ Shell(s) = Shell(r) /\ s.complete = ResolveWith(d, k)
        /\ s.done = r.done /\ s.fail = r.fail /\ s.ran = all
    BY <2>3, <2>4, <2>5, UpdateComplete
  <2>7. Listed(s) /\ OneEnd(s)
    BY <2>1, <2>2, <2>6 DEF Listed, OneEnd, Heard
  <2>8. Grows(r, s)
    BY <1>0, <2>3, <2>6 DEF Grows
  <2>9. ASSUME ~OptionWaits(r), NEW i \in 1..Len(all), all[i] = complete
        PROVE  \E j \in 1..Len(r.ran) : r.ran[j] = complete
    <3>1. \A j \in 1..Len(runs) : runs[j] # complete
      BY <2>1, <2>9 DEF OptionWaits
    <3> QED
      BY <2>3, <2>9, <3>1
  <2>10. ASSUME OptionWaits(r)
         PROVE  \E i \in 1..Len(all) : all[i] = complete
    <3>1. Len(d.list) > 0 /\ d.list[1] = complete
      BY <1>0, <2>10 DEF OptionWaits, Listed, Waiting
    <3>2. Len(runs) > 0 /\ runs[1] = complete
      BY <2>1, <3>1
    <3>3. Len(r.ran) + 1 \in 1..Len(all) /\ all[Len(r.ran) + 1] = complete
      BY <1>0, <2>1, <2>3, <3>2 DEF all
    <3> QED
      BY <3>3
  <2> QED
    BY <2>6, <2>7, <2>8, <2>9, <2>10 DEF s
<1> QED
  BY <1>0, <1>1, <1>2

WithState2(r) == [r EXCEPT !.state = 2, !.timer = FALSE, !.transport = FALSE]

LEMMA UpdateState ==
  ASSUME NEW r \in Record
  PROVE  LET s == WithState2(r)
         IN  /\ s \in Record /\ s.state = 2 /\ s.made = r.made
             /\ s.listening = r.listening /\ ~s.timer
             /\ s.done = r.done /\ s.fail = r.fail
             /\ s.complete = r.complete /\ s.ran = r.ran
<1> DEFINE one == [r EXCEPT !.state = 2]
           two == [one EXCEPT !.timer = FALSE]
           three == [two EXCEPT !.transport = FALSE]
           Same(s) == /\ s.made = r.made /\ s.listening = r.listening
                      /\ s.done = r.done /\ s.fail = r.fail
                      /\ s.complete = r.complete /\ s.ran = r.ran
<1>1. one \in Record /\ one.state = 2 /\ Same(one)
  BY DEF Record
<1> HIDE DEF one
<1>2. two \in Record /\ two.state = 2 /\ ~two.timer /\ Same(two)
  BY <1>1 DEF Record
<1> HIDE DEF two
<1>3. three \in Record /\ three.state = 2 /\ ~three.timer /\ Same(three)
  BY <1>2 DEF Record
<1> HIDE DEF three
<1>4. WithState2(r) = three
  BY DEF one, two, three, WithState2
<1> QED
  BY <1>3, <1>4

\* The end of a call as jQuery.ajax goes about it.  A callback may throw: the
\* callback of the options for complete hears of the end unless something
\* throws before it does, and never twice.
TellsOption(r, s) ==
  /\ \E i \in 1..Len(s.ran) : s.ran[i] = <<"complete", Option>>
  /\ \A i \in 1..Len(r.ran) : r.ran[i] # <<"complete", Option>>

Right(r, ok, t) == /\ ok \in BOOLEAN /\ t \in Throw
                   /\ IF r.state = 2 THEN t = NoThrow ELSE Possible(r, ok, t)

Ended(r, f, t) ==
  /\ f \in Record /\ Listed(f) /\ OneEnd(f) /\ Grows(r, f)
  /\ f.state = 2 /\ f.made = r.made /\ f.listening = r.listening
  /\ IF r.state = 2 THEN f = r
     ELSE ~f.timer /\ (f.done.fired \/ f.fail.fired)
  /\ r.state = 2 \/ ~OptionWaits(r) => ~TellsOption(r, f)
  /\ r.state # 2 /\ OptionWaits(r)
       /\ t.at \notin {"callback", "ajaxError"} => TellsOption(r, f)

LEMMA FinishedSound ==
  ASSUME NEW r \in Record, Listed(r), OneEnd(r), NEW ok, NEW t, Right(r, ok, t)
  PROVE  Ended(r, Finished(r, ok, t), t)
<1> DEFINE f == Finished(r, ok, t)
           complete == <<"complete", Option>>
<1> SUFFICES /\ f \in Record /\ Listed(f) /\ OneEnd(f) /\ Grows(r, f)
             /\ f.state = 2 /\ f.made = r.made /\ f.listening = r.listening
             /\ IF r.state = 2 THEN f = r
                ELSE ~f.timer /\ (f.done.fired \/ f.fail.fired)
             /\ r.state = 2 \/ ~OptionWaits(r) => ~TellsOption(r, f)
             /\ r.state # 2 /\ OptionWaits(r)
                  /\ t.at \notin {"callback", "ajaxError"} => TellsOption(r, f)
  BY DEF Ended
<1>1. CASE r.state = 2
  <2>1. f = r
    BY <1>1 DEF Finished
  <2>2. Len(r.ran) \in Nat
    BY DEF Record
  <2> QED
    BY <1>1, <2>1, <2>2 DEF Grows, TellsOption
<1>2. CASE r.state # 2
  <2> DEFINE b == WithState2(r)
             k == IF t.at = "callback" THEN t.k ELSE 0
             s == Settle(b, ok, k)
             l == IF t.at = "complete" THEN t.k ELSE 0
  <2>1. /\ ok \in BOOLEAN /\ t \in Throw /\ Possible(r, ok, t)
        /\ t.k \in Nat
    BY <1>2 DEF Right, Throw, NoThrow
  <2>2. /\ b \in Record /\ b.state = 2 /\ b.made = r.made
        /\ b.listening = r.listening /\ ~b.timer
        /\ b.done = r.done /\ b.fail = r.fail
        /\ b.complete = r.complete /\ b.ran = r.ran
    BY UpdateState
  <2>3. f = IF t.at \in {"callback", "ajaxError"} THEN s ELSE Complete(s, l)
    BY <1>2 DEF Finished, WithState2
  <2>4. OptionWaits(r) => \A i \in 1..Len(r.ran) : r.ran[i] # complete
    <3>1. Waiting(r.complete, "complete", r.ran)
      BY DEF Listed
    <3> QED
      BY <3>1 DEF Waiting, OptionWaits
  <2> HIDE DEF b
  <2>5. Listed(b) /\ OneEnd(b)
    BY <2>2 DEF Listed, OneEnd
  <2>6. k \in Nat /\ k <= Len(Fires(IF ok THEN b.done ELSE b.fail, 0))
    <3>1. CASE t.at = "callback"
      BY <2>1, <2>2, <3>1 DEF Possible
    <3>2. CASE t.at # "callback"
      <4>1. Fires(b.done, 0) \in Seq(Entry) /\ Fires(b.fail, 0) \in Seq(Entry)
        BY <2>2 DEF Fires, Record, Deferred
      <4> QED
        BY <3>2, <4>1
    <3> QED
      BY <3>1, <3>2
  <2>7. l \in Nat /\ l <= Len(Fires(b.complete, 0))
    <3>1. CASE t.at = "complete"
      BY <2>1, <2>2, <3>1 DEF Possible
    <3>2. CASE t.at # "complete"
      <4>1. Fires(b.complete, 0) \in Seq(Entry)
        BY <2>2 DEF Fires, Record, Deferred
      <4> QED
        BY <3>2, <4>1
    <3> QED
      BY <3>1, <3>2
  <2> HIDE DEF k, l
  <2>8. /\ s \in Record /\ Listed(s) /\ OneEnd(s) /\ Grows(b, s)
        /\ s.done.fired \/ s.fail.fired
        /\ Shell(s) = Shell(b) /\ s.complete = b.complete
        /\ \A i \in 1..Len(s.ran) : s.ran[i][1] = "complete" =>
             \E j \in 1..Len(b.ran) : b.ran[j] = s.ran[i]
    BY <2>1, <2>2, <2>5, <2>6, SettleSound
  <2> HIDE DEF s
  <2>9. OptionWaits(s) <=> OptionWaits(r)
    BY <2>2, <2>8 DEF OptionWaits
  <2>10. \A i \in 1..Len(s.ran) :
           s.ran[i] = complete => \E j \in 1..Len(r.ran) : r.ran[j] = complete
    BY <2>2, <2>8
  <2>11. Grows(r, s)
    BY <2>2, <2>8 DEF Grows
  <2>12. s.state = 2 /\ s.made = r.made /\ s.listening = r.listening /\ ~s.timer
    BY <2>2, <2>8 DEF Shell
  <2>13. CASE t.at \in {"callback", "ajaxError"}
    <3>1. f = s /\ ~TellsOption(r, f)
      BY <2>3, <2>10, <2>13 DEF TellsOption
    <3> HIDE DEF f
    <3> QED
      BY <1>2, <2>8, <2>11, <2>12, <2>13, <3>1 DEF f
  <2>14. CASE t.at \notin {"callback", "ajaxError"}
    <3>1. f = Complete(s, l)
      BY <2>3, <2>14
    <3>2. l <= Len(Fires(s.complete, 0))
      BY <2>7, <2>8
    <3> HIDE DEF f
    <3>3. /\ f \in Record /\ Listed(f) /\ OneEnd(f) /\ Grows(s, f)
          /\ f.done.fired \/ f.fail.fired
          /\ Shell(f) = Shell(s)
          /\ ~OptionWaits(s) => \A i \in 1..Len(f.ran) : f.ran[i] = complete =>
               \E j \in 1..Len(s.ran) : s.ran[j] = complete
          /\ OptionWaits(s) => \E i \in 1..Len(f.ran) : f.ran[i] = complete
      BY <2>7, <2>8, <3>1, <3>2, CompleteSound
    <3>4. Grows(r, f)
      BY <2>2, <2>8, <2>11, <3>3 DEF Grows, Record
    <3>5. f.state = 2 /\ f.made = r.made /\ f.listening = r.listening /\ ~f.timer
      BY <2>12, <3>3 DEF Shell
    <3>6. IF OptionWaits(r) THEN TellsOption(r, f) ELSE ~TellsOption(r, f)
      BY <2>4, <2>9, <2>10, <3>3 DEF TellsOption
    <3> QED
      BY <1>2, <3>3, <3>4, <3>5, <3>6 DEF f
  <2> QED
    BY <2>13, <2>14
<1> QED
  BY <1>1, <1>2

\* A callback is added: it waits, or runs at once with those an earlier throw
\* has left.
LEMMA AddedWaits ==
  ASSUME NEW d, NEW l \in Lists, NEW ran \in Seq(Entry), Waiting(d, l, ran),
         ~d.cancelled, NEW x \in Extra,
         \A i \in 1..Len(d.list) : d.list[i] # <<l, x>>,
         \A i \in 1..Len(ran) : ran[i] # <<l, x>>
  PROVE  LET p == Push(d, <<l, x>>)
         IN  /\ Waiting(p, l, ran) /\ p.fired = d.fired /\ ~p.cancelled
             /\ \A i \in 1..Len(p.list) : p.list[i] = <<l, Option>> =>
                  \E j \in 1..Len(d.list) : d.list[j] = <<l, Option>>
             /\ \A i \in 1..Len(d.list) : \E j \in 1..Len(p.list) : p.list[j] = d.list[i]
<1> DEFINE e == <<l, x>>
           p == Push(d, e)
           list == Append(d.list, e)
<1>1. d \in Deferred /\ d.list \in Seq(Entry) /\ Len(d.list) \in Nat
  BY DEF Waiting, Deferred
<1>2. e \in Entry /\ e # <<l, Option>> /\ e[1] = l
  BY ExtraAssumption DEF Entry, Callback, Lists
<1> HIDE DEF e
<1>3. /\ list \in Seq(Entry) /\ Len(list) = Len(d.list) + 1
      /\ \A i \in 1..Len(d.list) : list[i] = d.list[i]
      /\ list[Len(d.list) + 1] = e
  BY <1>1, <1>2
<1> HIDE DEF list
<1>4. p = [d EXCEPT !.list = list]
  BY DEF Push, list
<1> HIDE DEF p
<1>5. p \in Deferred /\ p.fired = d.fired /\ ~p.cancelled /\ p.list = list
  BY <1>1, <1>3, <1>4 DEF Deferred
<1>6. \A i \in 1..Len(list) : \/ i \in 1..Len(d.list) /\ list[i] = d.list[i]
                              \/ i = Len(d.list) + 1 /\ list[i] = e
  BY <1>1, <1>3
<1>7. Distinct(list)
  <2> SUFFICES ASSUME NEW i \in 1..Len(list), NEW j \in 1..Len(list),
                      list[i] = list[j]
               PROVE  i = j
    BY DEF Distinct
  <2>1. \A n \in 1..Len(d.list) : d.list[n] # e
    BY DEF e
  <2>2. Distinct(d.list)
    BY DEF Waiting
  <2> QED
    BY <1>6, <2>1, <2>2 DEF Distinct
<1>8. Waiting(p, l, ran)
  <2>1. \A i \in 1..Len(ran) : ran[i] # e
    BY DEF e
  <2> QED
    BY <1>2, <1>5, <1>6, <1>7, <2>1 DEF Waiting
<1>9. \A i \in 1..Len(p.list) : p.list[i] = <<l, Option>> =>
        \E j \in 1..Len(d.list) : d.list[j] = <<l, Option>>
  BY <1>2, <1>5, <1>6
<1>10. \A i \in 1..Len(d.list) : \E j \in 1..Len(p.list) : p.list[j] = d.list[i]
  BY <1>1, <1>3, <1>5
<1> QED
  BY <1>5, <1>8, <1>9, <1>10 DEF p, e

\* What done() of a deferred may be given.
Addable(d, l, ran, x, k) ==
  /\ \A i \in 1..Len(d.list) : d.list[i] # <<l, x>>
  /\ \A i \in 1..Len(ran) : ran[i] # <<l, x>>
  /\ k \in Nat /\ k <= Len(DoneFires(d, <<l, x>>, 0))

\* What it then does.
Added(d, l, ran, x, k) ==
  LET after == Done(d, <<l, x>>, k)
      runs == DoneFires(d, <<l, x>>, k)
      option == <<l, Option>>
  IN  /\ runs \in Seq(Entry) /\ Distinct(ran \o runs)
      /\ Waiting(after, l, ran \o runs) /\ Heard(after, l, ran \o runs)
      /\ after.fired = d.fired /\ after.cancelled = d.cancelled
      /\ \A i \in 1..Len(runs) : runs[i][1] = l /\ runs[i] # option
      /\ (\E i \in 1..Len(after.list) : after.list[i] = option)
           <=> (\E i \in 1..Len(d.list) : d.list[i] = option)

LEMMA DoneWaits ==
  ASSUME NEW d, NEW l \in Lists, NEW ran \in Seq(Entry), Waiting(d, l, ran),
         Heard(d, l, ran), Distinct(ran), NEW x \in Extra, NEW k,
         Addable(d, l, ran, x, k)
  PROVE  Added(d, l, ran, x, k)
<1> DEFINE e == <<l, x>>
           after == Done(d, e, k)
           runs == DoneFires(d, e, k)
           option == <<l, Option>>
           p == Push(d, e)
<1>1. /\ \A i \in 1..Len(d.list) : d.list[i] # e
      /\ \A i \in 1..Len(ran) : ran[i] # e
      /\ k \in Nat /\ k <= Len(DoneFires(d, e, 0))
  BY DEF Addable
<1>2. d.cancelled => p = d
  BY DEF Push
<1>3. d \in Deferred /\ (d.cancelled => ~d.fired)
  BY DEF Waiting
<1>4. /\ Waiting(p, l, ran) /\ p.fired = d.fired /\ p.cancelled = d.cancelled
      /\ \A i \in 1..Len(p.list) : p.list[i] = option =>
           \E j \in 1..Len(d.list) : d.list[j] = option
      /\ \A i \in 1..Len(d.list) : \E j \in 1..Len(p.list) : p.list[j] = d.list[i]
  <2>1. CASE d.cancelled
    BY <1>2, <2>1
  <2>2. CASE ~d.cancelled
    <3>1. /\ Waiting(p, l, ran) /\ p.fired = d.fired /\ ~p.cancelled
          /\ \A i \in 1..Len(p.list) : p.list[i] = option =>
               \E j \in 1..Len(d.list) : d.list[j] = option
          /\ \A i \in 1..Len(d.list) : \E j \in 1..Len(p.list) : p.list[j] = d.list[i]
      BY <1>1, <2>2, AddedWaits
    <3>2. p \in Deferred
      BY <3>1 DEF Waiting
    <3> QED
      BY <1>3, <2>2, <3>1, <3>2 DEF Deferred
  <2> QED
    BY <2>1, <2>2
<1> HIDE DEF p
<1>5. CASE ~d.fired
  <2>1. after = p /\ runs = <<>>
    BY <1>5 DEF Done, DoneFires, p
  <2>2. runs \in Seq(Entry) /\ Len(runs) = 0 /\ ran \o runs = ran
    BY <2>1, ConcatEmptySeq
  <2>3. Heard(after, l, ran)
    BY <1>4, <1>5, <2>1 DEF Heard
  <2> HIDE DEF after, runs
  <2>4. /\ runs \in Seq(Entry) /\ Distinct(ran \o runs)
        /\ Waiting(after, l, ran \o runs) /\ Heard(after, l, ran \o runs)
        /\ after.fired = d.fired /\ after.cancelled = d.cancelled
    BY <1>4, <2>1, <2>2, <2>3
  <2>5. /\ \A i \in 1..Len(runs) : runs[i][1] = l /\ runs[i] # option
        /\ (\E i \in 1..Len(after.list) : after.list[i] = option)
             <=> (\E i \in 1..Len(d.list) : d.list[i] = option)
    <3> HIDE DEF option, e
    <3>1. (\E i \in 1..Len(p.list) : p.list[i] = option)
            => (\E i \in 1..Len(d.list) : d.list[i] = option)
      BY <1>4
    <3>2. (\E i \in 1..Len(d.list) : d.list[i] = option)
            => (\E i \in 1..Len(p.list) : p.list[i] = option)
      BY <1>4
    <3> QED
      BY <2>1, <2>2, <3>1, <3>2
  <2> QED
    BY <2>4, <2>5 DEF after, runs, Added
<1>6. CASE d.fired
  <2> DEFINE b == [p EXCEPT !.fired = FALSE]
  <2>1. p \in Deferred /\ ~p.cancelled
    BY <1>3, <1>4, <1>6 DEF Waiting
  <2>2. b \in Deferred /\ ~b.fired /\ ~b.cancelled /\ b.list = p.list
    BY <2>1 DEF Deferred
  <2>3. /\ after = ResolveWith(b, k) /\ runs = Fires(b, k)
        /\ DoneFires(d, e, 0) = Fires(b, 0)
    BY <1>6 DEF Done, DoneFires, p
  <2> HIDE DEF b, after, runs
  <2>4. Waiting(b, l, ran)
    BY <1>4, <2>1, <2>2 DEF Waiting
  <2>5. k <= Len(b.list)
    BY <1>1, <2>2, <2>3 DEF Fires
  <2>6. /\ runs \in Seq(Entry) /\ \A i \in 1..Len(runs) : runs[i][1] = l
        /\ Distinct(ran \o runs) /\ Waiting(after, l, ran \o runs)
        /\ after.fired /\ ~after.cancelled
        /\ \A i \in 1..Len(runs) : \E j \in 1..Len(b.list) : runs[i] = b.list[j]
    <3>1. /\ Fires(b, k) \in Seq(Entry)
          /\ \A i \in 1..Len(Fires(b, k)) : Fires(b, k)[i][1] = l
          /\ Distinct(ran \o Fires(b, k))
          /\ Waiting(ResolveWith(b, k), l, ran \o Fires(b, k))
          /\ ResolveWith(b, k).fired /\ ~ResolveWith(b, k).cancelled
          /\ \A i \in 1..Len(Fires(b, k)) :
               \E j \in 1..Len(b.list) : Fires(b, k)[i] = b.list[j]
      <4>1. ~b.cancelled /\ ~b.fired /\ k \in Nat
        BY <1>1, <2>2
      <4> HIDE DEF e, option
      <4> QED
        BY <2>4, <2>5, <4>1, FireWaits
    <3> QED
      BY <2>3, <3>1
  <2>7. \A i \in 1..Len(d.list) : d.list[i] # option
    BY <1>6 DEF Waiting
  <2>8. \A i \in 1..Len(b.list) : b.list[i] # option
    BY <1>4, <2>2, <2>7
  <2>9. \A i \in 1..Len(after.list) : after.list[i] # option
    BY <2>6 DEF Waiting
  <2>10. Heard(after, l, ran \o runs)
    BY <2>6 DEF Heard
  <2>11. after.fired = d.fired /\ after.cancelled = d.cancelled
    <3>1. after \in Deferred
      BY <2>6 DEF Waiting
    <3> QED
      BY <1>3, <1>6, <2>6, <3>1 DEF Deferred
  <2> QED
    BY <2>6, <2>7, <2>8, <2>9, <2>10, <2>11 DEF after, runs, Added
<1> QED
  BY <1>5, <1>6

WithList(r, l, d, ran) == [r EXCEPT ![l] = d, !.ran = ran]

LEMMA UpdateList ==
  ASSUME NEW r \in Record, NEW l \in Lists, NEW d \in Deferred,
         NEW ran \in Seq(Entry)
  PROVE  LET s == WithList(r, l, d, ran)
         IN  /\ s \in Record /\ Shell(s) = Shell(r) /\ s.ran = ran
             /\ s.done = IF l = "done" THEN d ELSE r.done
             /\ s.fail = IF l = "fail" THEN d ELSE r.fail
             /\ s.complete = IF l = "complete" THEN d ELSE r.complete
<1> DEFINE one == [r EXCEPT ![l] = d]
           two == [one EXCEPT !.ran = ran]
<1>1. /\ one \in Record /\ Shell(one) = Shell(r)
      /\ one.done = IF l = "done" THEN d ELSE r.done
      /\ one.fail = IF l = "fail" THEN d ELSE r.fail
      /\ one.complete = IF l = "complete" THEN d ELSE r.complete
  <2>1. CASE l = "done"
    BY <2>1 DEF Record, Shell
  <2>2. CASE l = "fail"
    BY <2>2 DEF Record, Shell
  <2>3. CASE l = "complete"
    BY <2>3 DEF Record, Shell
  <2> QED
    BY <2>1, <2>2, <2>3 DEF Lists
<1> HIDE DEF one
<1>2. /\ two \in Record /\ Shell(two) = Shell(one) /\ two.ran = ran
      /\ two.done = one.done /\ two.fail = one.fail
      /\ two.complete = one.complete
  BY <1>1 DEF Record, Shell
<1> HIDE DEF two
<1>3. WithList(r, l, d, ran) = two
  BY DEF one, two, WithList
<1> QED
  BY <1>1, <1>2, <1>3

\* A script adds a callback to a call it holds.
LEMMA AttachedSound ==
  ASSUME NEW r \in Record, Listed(r), OneEnd(r), NEW l \in Lists,
         NEW x \in Extra, NEW k, Addable(r[l], l, r.ran, x, k)
  PROVE  LET s == WithList(r, l, Done(r[l], <<l, x>>, k),
                           r.ran \o DoneFires(r[l], <<l, x>>, k))
         IN  /\ s \in Record /\ Listed(s) /\ OneEnd(s) /\ Grows(r, s)
             /\ Shell(s) = Shell(r) /\ s.complete.fired = r.complete.fired
             /\ OptionWaits(s) <=> OptionWaits(r)
             /\ ~TellsOption(r, s)
<1> DEFINE e == <<l, x>>
           d == r[l]
           after == Done(d, e, k)
           runs == DoneFires(d, e, k)
           all == r.ran \o runs
           s == WithList(r, l, after, all)
           complete == <<"complete", Option>>
<1>1. /\ r.ran \in Seq(Entry) /\ Len(r.ran) \in Nat /\ Distinct(r.ran)
      /\ d = IF l = "done" THEN r.done ELSE IF l = "fail" THEN r.fail ELSE r.complete
  BY DEF Record, Lists, Listed
<1> HIDE DEF d
<1>2. Waiting(d, l, r.ran) /\ Heard(d, l, r.ran)
  BY <1>1 DEF Lists, Listed
<1>3. Addable(d, l, r.ran, x, k)
  BY DEF d
<1>4. /\ runs \in Seq(Entry) /\ Distinct(all)
      /\ Waiting(after, l, all) /\ Heard(after, l, all)
      /\ after.fired = d.fired /\ after.cancelled = d.cancelled
      /\ \A i \in 1..Len(runs) : runs[i][1] = l /\ runs[i] # <<l, Option>>
      /\ (\E i \in 1..Len(after.list) : after.list[i] = <<l, Option>>)
           <=> (\E i \in 1..Len(d.list) : d.list[i] = <<l, Option>>)
  <2>1. r.ran \in Seq(Entry) /\ Distinct(r.ran)
    BY <1>1
  <2>2. Added(d, l, r.ran, x, k)
    BY <1>2, <1>3, <2>1, DoneWaits
  <2> QED
    BY <2>2 DEF Added
<1> HIDE DEF after, runs
<1>5. after \in Deferred
  BY <1>4 DEF Waiting
<1>6. /\ all \in Seq(Entry) /\ Len(all) = Len(r.ran) + Len(runs)
      /\ Len(runs) \in Nat
      /\ \A i \in 1..Len(r.ran) : all[i] = r.ran[i]
      /\ \A i \in 1..Len(all) :
           \/ i \in 1..Len(r.ran) /\ all[i] = r.ran[i]
           \/ i - Len(r.ran) \in 1..Len(runs) /\ all[i] = runs[i - Len(r.ran)]
  BY <1>1, <1>4, Joined
<1>7. \A q, m : m # l /\ Waiting(q, m, r.ran) /\ Heard(q, m, r.ran) =>
                  Waiting(q, m, all) /\ Heard(q, m, all)
  BY <1>1, <1>4, OthersWait, OthersHeard
<1> HIDE DEF all
<1>8. /\ s \in Record /\ Shell(s) = Shell(r) /\ s.ran = all
      /\ s.done = IF l = "done" THEN after ELSE r.done
      /\ s.fail = IF l = "fail" THEN after ELSE r.fail
      /\ s.complete = IF l = "complete" THEN after ELSE r.complete
  BY <1>5, <1>6, UpdateList
<1> HIDE DEF s
<1>9. /\ s.done.fired = r.done.fired /\ s.done.cancelled = r.done.cancelled
      /\ s.fail.fired = r.fail.fired /\ s.fail.cancelled = r.fail.cancelled
      /\ s.complete.fired = r.complete.fired
      /\ s.complete.cancelled = r.complete.cancelled
  BY <1>1, <1>4, <1>8
<1>10. Listed(s)
  <2>1. Waiting(s.done, "done", all) /\ Heard(s.done, "done", all)
    BY <1>4, <1>7, <1>8 DEF Listed
  <2>2. Waiting(s.fail, "fail", all) /\ Heard(s.fail, "fail", all)
    BY <1>4, <1>7, <1>8 DEF Listed
  <2>3. Waiting(s.complete, "complete", all) /\ Heard(s.complete, "complete", all)
    BY <1>4, <1>7, <1>8 DEF Listed
  <2> QED
    BY <1>4, <1>8, <2>1, <2>2, <2>3 DEF Listed
<1>11. OneEnd(s)
  BY <1>9 DEF OneEnd
<1>12. Grows(r, s)
  BY <1>1, <1>6, <1>8, <1>9 DEF Grows
<1>13. OptionWaits(s) <=> OptionWaits(r)
  BY <1>1, <1>4, <1>8 DEF OptionWaits
<1>14. ~TellsOption(r, s)
  <2>1. \A i \in 1..Len(runs) : runs[i] # complete
    BY <1>4
  <2> QED
    BY <1>6, <1>8, <2>1 DEF TellsOption
<1> QED
  BY <1>8, <1>9, <1>10, <1>11, <1>12, <1>13, <1>14 DEF s, all, after, runs, d

-----------------------------------------------------------------------------
(* A call that is made. *)

\* The callbacks of two records are the same.
SameLists(r, s) == /\ s.done = r.done /\ s.fail = r.fail
                   /\ s.complete = r.complete /\ s.ran = r.ran

LEMMA SameSound ==
  ASSUME NEW r \in Record, NEW s \in Record, SameLists(r, s)
  PROVE  /\ Listed(s) <=> Listed(r)
         /\ OneEnd(s) <=> OneEnd(r)
         /\ OptionWaits(s) <=> OptionWaits(r)
         /\ \A ok, t : Possible(s, ok, t) <=> Possible(r, ok, t)
         /\ Grows(r, s)
<1>1. Len(r.ran) \in Nat
  BY DEF Record
<1>2. Listed(s) <=> Listed(r)
  BY DEF SameLists, Listed
<1>3. OneEnd(s) <=> OneEnd(r)
  BY DEF SameLists, OneEnd
<1>4. OptionWaits(s) <=> OptionWaits(r)
  BY DEF SameLists, OptionWaits
<1>5. \A ok, t : Possible(s, ok, t) <=> Possible(r, ok, t)
  BY DEF SameLists, Possible
<1>6. Grows(r, s)
  BY <1>1 DEF SameLists, Grows
<1> QED
  BY <1>2, <1>3, <1>4, <1>5, <1>6

Unheard(r) == [r EXCEPT !.listening = FALSE]

LEMMA UpdateListening ==
  ASSUME NEW r \in Record
  PROVE  LET s == Unheard(r)
         IN  /\ s \in Record /\ SameLists(r, s) /\ ~s.listening
             /\ s.state = r.state /\ s.made = r.made /\ s.timer = r.timer
BY DEF Unheard, Record, SameLists

\* A fresh call: no callback, nothing has run.
LEMMA FreshSound ==
  /\ New \in Deferred /\ Fresh \in Record /\ Sound(Fresh)
  /\ Fresh.state = 0 /\ Fresh.ran = <<>> /\ ~OptionWaits(Fresh)
  /\ ~Fresh.done.fired /\ ~Fresh.fail.fired /\ ~Fresh.made
<1>1. <<>> \in Seq(Entry) /\ Len(<<>>) = 0
  OBVIOUS
<1>2. /\ New \in Deferred /\ New.list = <<>> /\ ~New.fired /\ ~New.cancelled
  BY <1>1 DEF New, Deferred
<1>3. /\ Fresh \in Record /\ Fresh.ran = <<>> /\ Fresh.state = 0
      /\ Fresh.done = New /\ Fresh.fail = New /\ Fresh.complete = New
      /\ ~Fresh.made /\ ~Fresh.listening /\ ~Fresh.timer
  BY <1>1, <1>2 DEF Fresh, Record
<1>4. \A l : Waiting(New, l, <<>>) /\ Heard(New, l, <<>>)
  BY <1>1, <1>2 DEF Waiting, Heard, Distinct
<1>5. Listed(Fresh)
  BY <1>1, <1>3, <1>4 DEF Listed, Distinct
<1>6. OneEnd(Fresh) /\ UnderWay(Fresh) /\ ~OptionWaits(Fresh)
  BY <1>1, <1>2, <1>3 DEF OneEnd, UnderWay, OptionWaits
<1> QED
  BY <1>2, <1>3, <1>5, <1>6 DEF Sound

LEMMA OpenedSound ==
  /\ Opened \in Record /\ Listed(Opened) /\ OneEnd(Opened)
  /\ Opened.state = 0 /\ Opened.made /\ ~Opened.listening /\ ~Opened.timer
  /\ Opened.ran = <<>> /\ ~OptionWaits(Opened)
<1>1. /\ Opened \in Record /\ SameLists(Fresh, Opened)
      /\ Opened.state = 0 /\ Opened.made /\ ~Opened.listening /\ ~Opened.timer
  BY FreshSound DEF Opened, Fresh, Record, SameLists
<1> QED
  BY <1>1, FreshSound, SameSound DEF Sound, SameLists

LEMMA InstalledSound ==
  /\ Installed \in Record /\ Listed(Installed) /\ OneEnd(Installed)
  /\ Installed.state = 0 /\ Installed.made /\ ~Installed.listening
  /\ ~Installed.timer /\ Installed.ran = <<>>
  /\ OptionWaits(Installed) /\ ~Installed.complete.fired
<1> DEFINE With(l) == [New EXCEPT !.list = <<<<l, Option>>>>]
<1>1. \A l \in Lists :
        /\ With(l) \in Deferred /\ ~With(l).fired /\ ~With(l).cancelled
        /\ With(l).list = <<<<l, Option>>>>
  <2> SUFFICES ASSUME NEW l \in Lists
               PROVE  /\ With(l) \in Deferred /\ ~With(l).fired
                      /\ ~With(l).cancelled /\ With(l).list = <<<<l, Option>>>>
    OBVIOUS
  <2>1. <<l, Option>> \in Entry
    BY DEF Entry, Lists, Callback
  <2>2. <<<<l, Option>>>> \in Seq(Entry)
    BY <2>1
  <2>3. New \in Deferred /\ ~New.fired /\ ~New.cancelled
    BY FreshSound DEF New
  <2> QED
    BY <2>2, <2>3 DEF Deferred
<1>2. \A l \in Lists : /\ Waiting(With(l), l, <<>>) /\ Heard(With(l), l, <<>>)
  BY <1>1 DEF Waiting, Heard, Distinct
<1>3. /\ Opened.done = New /\ Opened.fail = New /\ Opened.complete = New
  BY DEF Opened, Fresh
<1>4. Installed = [Opened EXCEPT !.done = With("done"), !.fail = With("fail"),
                                 !.complete = With("complete")]
  BY <1>3, OpenedSound DEF Installed, Record
<1> DEFINE one == [Opened EXCEPT !.done = With("done")]
           two == [one EXCEPT !.fail = With("fail")]
           three == [two EXCEPT !.complete = With("complete")]
<1>5. Installed = three
  BY <1>4
<1> HIDE DEF With
<1>6. /\ one \in Record /\ Shell(one) = Shell(Opened) /\ one.ran = <<>>
      /\ one.done = With("done")
  BY <1>1, OpenedSound DEF Record, Shell, Lists
<1> HIDE DEF one
<1>7. /\ two \in Record /\ Shell(two) = Shell(one) /\ two.ran = one.ran
      /\ two.done = one.done /\ two.fail = With("fail")
  BY <1>1, <1>6 DEF Record, Shell, Lists
<1> HIDE DEF two
<1>8. /\ three \in Record /\ Shell(three) = Shell(two) /\ three.ran = two.ran
      /\ three.done = two.done /\ three.fail = two.fail
      /\ three.complete = With("complete")
  BY <1>1, <1>7 DEF Record, Shell, Lists
<1> HIDE DEF three
<1>9. Listed(three)
  BY <1>2, <1>6, <1>7, <1>8 DEF Listed, Lists, Distinct
<1>10. OneEnd(three)
  BY <1>1, <1>6, <1>7, <1>8 DEF OneEnd, Lists
<1>11. OptionWaits(three)
  <2>1. three.complete.list = <<<<"complete", Option>>>>
    BY <1>1, <1>8 DEF Lists
  <2> QED
    BY <2>1 DEF OptionWaits
<1>12. ~three.complete.fired
  BY <1>1, <1>8 DEF Lists
<1> QED
  BY <1>5, <1>6, <1>7, <1>8, <1>9, <1>10, <1>11, <1>12, OpenedSound DEF Shell

LEMMA SentSound ==
  ASSUME NEW c \in Call
  PROVE  /\ Sound(Sent(c)) /\ Sent(c).state = 1 /\ Sent(c).made
         /\ Sent(c).ran = <<>>
<1>0. PICK timed \in BOOLEAN : timed = (c \in Timed)
  <2>1. CASE c \in Timed
    <3>1. TRUE = (c \in Timed)
      BY <2>1
    <3> QED
      BY <3>1, Zenon
  <2>2. CASE c \notin Timed
    <3>1. FALSE = (c \in Timed)
      BY <2>2
    <3> QED
      BY <3>1, Zenon
  <2> QED
    BY <2>1, <2>2
<1> DEFINE one == [Installed EXCEPT !.state = 1]
           two == [one EXCEPT !.transport = TRUE]
           three == [two EXCEPT !.listening = TRUE]
           four == [three EXCEPT !.timer = timed]
<1>1. one \in Record /\ SameLists(Installed, one) /\ one.state = 1 /\ one.made
  BY InstalledSound DEF Record, SameLists
<1> HIDE DEF one
<1>2. /\ two \in Record /\ SameLists(one, two) /\ two.state = 1 /\ two.made
      /\ two.transport
  BY <1>1 DEF Record, SameLists
<1> HIDE DEF two
<1>3. /\ three \in Record /\ SameLists(two, three) /\ three.state = 1
      /\ three.made /\ three.transport
  BY <1>2 DEF Record, SameLists
<1> HIDE DEF three
<1>4. /\ four \in Record /\ SameLists(three, four) /\ four.state = 1
      /\ four.made /\ four.transport
  BY <1>3 DEF Record, SameLists
<1>5. Sent(c) = four
  BY <1>0 DEF Sent, one, two, three
<1> HIDE DEF four
<1>6. SameLists(Installed, four)
  BY <1>1, <1>2, <1>3, <1>4 DEF SameLists
<1>7. Listed(four) /\ OneEnd(four) /\ OptionWaits(four)
  BY <1>4, <1>6, InstalledSound, SameSound
<1>8. ~four.complete.fired /\ four.ran = <<>>
  BY <1>6, InstalledSound DEF SameLists
<1> QED
  BY <1>4, <1>5, <1>7, <1>8 DEF Sound, UnderWay

\* Ending a call keeps it sound, in state 2.
LEMMA EndSound ==
  ASSUME NEW r \in Record, Listed(r), OneEnd(r), r.made, ~r.listening,
         r.timer => r.state = 1, NEW ok, NEW t, Right(r, ok, t)
  PROVE  Sound(Finished(r, ok, t)) /\ Finished(r, ok, t).state = 2
         /\ Finished(r, ok, t).made
<1> DEFINE f == Finished(r, ok, t)
<1>0. Ended(r, f, t)
  BY FinishedSound
<1> HIDE DEF f
<1>1. /\ f \in Record /\ Listed(f) /\ OneEnd(f)
      /\ f.state = 2 /\ f.made = r.made /\ f.listening = r.listening
      /\ IF r.state = 2 THEN f = r ELSE ~f.timer
  BY <1>0 DEF Ended
<1>2. UnderWay(f)
  BY <1>1 DEF UnderWay
<1> QED
  BY <1>1, <1>2 DEF Sound, f

LEMMA NoThrowRight == \A r : Right(r, FALSE, NoThrow) /\ Right(r, TRUE, NoThrow)
  BY DEF Right, Possible, NoThrow, Throw

LEMMA RightNow ==
  ASSUME NEW r, r.state # 2, NEW ok \in BOOLEAN, NEW t \in Throw,
         Possible(r, ok, t)
  PROVE  Right(r, ok, t)
  BY DEF Right

\* The call that a prefilter or beforeSend ends has no callback to tell.
LEMMA AbortedSound ==
  ASSUME NEW t, Right(Opened, FALSE, t)
  PROVE  /\ Sound(Aborted(Opened, t)) /\ Aborted(Opened, t).state = 2
         /\ Aborted(Opened, t).made /\ ~TellsOption(Fresh, Aborted(Opened, t))
<1> DEFINE b == Unheard(Opened)
<1>1. /\ b \in Record /\ SameLists(Opened, b) /\ ~b.listening
      /\ b.state = 0 /\ b.made /\ ~b.timer
  BY OpenedSound, UpdateListening
<1>2. Aborted(Opened, t) = Finished(b, FALSE, t)
  BY DEF Aborted, Unheard
<1> HIDE DEF b
<1>3. Listed(b) /\ OneEnd(b) /\ ~OptionWaits(b) /\ b.ran = <<>>
  BY <1>1, OpenedSound, SameSound DEF SameLists
<1>4. Right(b, FALSE, t)
  BY <1>1, OpenedSound, SameSound DEF Right
<1>5. /\ Sound(Finished(b, FALSE, t)) /\ Finished(b, FALSE, t).state = 2
      /\ Finished(b, FALSE, t).made
  BY <1>1, <1>3, <1>4, EndSound
<1>6. ~TellsOption(b, Finished(b, FALSE, t))
  BY <1>1, <1>3, <1>4, FinishedSound DEF Ended
<1>7. ~TellsOption(Fresh, Finished(b, FALSE, t))
  BY <1>3, <1>6, FreshSound DEF TellsOption
<1> QED
  BY <1>2, <1>5, <1>7

LEMMA FinishedInstalled ==
  ASSUME NEW t, Right(Installed, FALSE, t)
  PROVE  LET s == Finished(Installed, FALSE, t)
         IN  /\ Sound(s) /\ s.state = 2 /\ s.made
             /\ t.at \notin {"callback", "ajaxError"} => TellsOption(Fresh, s)
<1>1. /\ Sound(Finished(Installed, FALSE, t))
      /\ Finished(Installed, FALSE, t).state = 2
      /\ Finished(Installed, FALSE, t).made
  BY InstalledSound, EndSound
<1>2. t.at \notin {"callback", "ajaxError"} =>
        TellsOption(Installed, Finished(Installed, FALSE, t))
  <2> DEFINE f == Finished(Installed, FALSE, t)
  <2>1. Ended(Installed, f, t)
    BY InstalledSound, FinishedSound
  <2> HIDE DEF f
  <2>2. t.at \notin {"callback", "ajaxError"} => TellsOption(Installed, f)
    BY <2>1, InstalledSound DEF Ended
  <2> QED
    BY <2>2 DEF f
<1> QED
  BY <1>1, <1>2, InstalledSound, FreshSound DEF TellsOption

\* Ended twice, it tells its callbacks once.
LEMMA TwiceSound ==
  Sound(Twice(NoThrow)) /\ Twice(NoThrow).state = 2 /\ Twice(NoThrow).made
  /\ TellsOption(Fresh, Twice(NoThrow))
<1> DEFINE u == Finished(Installed, FALSE, NoThrow)
           v == [u EXCEPT !.state = 1]
           w == Finished(v, FALSE, NoThrow)
<1>1. Sound(u) /\ u.made /\ u.state = 2 /\ TellsOption(Fresh, u)
  BY FinishedInstalled, NoThrowRight DEF NoThrow
<1>2. Twice(NoThrow) = w
  BY DEF Twice
<1> HIDE DEF u
<1>3. /\ v \in Record /\ SameLists(u, v) /\ v.made /\ v.state = 1
      /\ v.listening = u.listening /\ v.timer = u.timer
  BY <1>1 DEF Sound, Record, SameLists
<1> HIDE DEF v
<1>4. Listed(v) /\ OneEnd(v) /\ ~v.listening
  BY <1>1, <1>3, SameSound DEF Sound, UnderWay
<1>5. Right(v, FALSE, NoThrow)
  BY NoThrowRight
<1>6. Sound(w) /\ w.state = 2 /\ w.made
  BY <1>3, <1>4, <1>5, EndSound
<1>7. Grows(v, w)
  BY <1>3, <1>4, <1>5, FinishedSound DEF Ended
<1> HIDE DEF w
<1>8. TellsOption(Fresh, w)
  <2>1. v.ran = u.ran /\ Len(v.ran) \in Nat /\ Len(w.ran) \in Nat
    BY <1>3, <1>6 DEF SameLists, Record, Sound
  <2> QED
    BY <1>1, <1>7, <2>1 DEF TellsOption, Grows
<1> QED
  BY <1>2, <1>6, <1>8

Telling == {"noTransport", "openThrows", "sendAborts"}

LEMMA MadeSound ==
  ASSUME NEW c \in Call, NEW hook, NEW t, <<hook, t>> \in Start,
         Possible(IF hook = "veto" THEN Opened ELSE Installed, FALSE, t)
  PROVE  LET s == Made(c, hook, t)
         IN  /\ Sound(s) /\ s.made /\ Grows(Fresh, s)
             /\ s.state = IF hook = "send" THEN 1
                          ELSE IF hook \in Throws THEN 0 ELSE 2
             /\ hook \in Throws \ {"sendThrows"} => ~OptionWaits(s)
             /\ hook \notin Telling => ~TellsOption(Fresh, s)
             /\ hook \in Telling /\ t.at \notin {"callback", "ajaxError"} =>
                  TellsOption(Fresh, s)
<1> DEFINE s == Made(c, hook, t)
           silent == ~TellsOption(Fresh, s)
<1>1. hook \in Hook /\ t \in Throw /\ (hook \notin Failing => t = NoThrow)
  BY DEF Start, Failing, Hook, Throw
<1>2. FALSE \in BOOLEAN /\ Opened.state # 2 /\ Installed.state # 2
  BY OpenedSound, InstalledSound
<1> DEFINE Goal == /\ Sound(s) /\ s.made
                   /\ s.state = IF hook = "send" THEN 1
                                ELSE IF hook \in Throws THEN 0 ELSE 2
                   /\ hook \in Throws \ {"sendThrows"} => ~OptionWaits(s)
                   /\ hook \notin Telling => silent
                   /\ hook \in Telling /\ t.at \notin {"callback", "ajaxError"} =>
                        TellsOption(Fresh, s)
<1>3. ASSUME hook = "send" PROVE Goal
  <2>1. s = Sent(c)
    BY <1>3 DEF Made
  <2>2. ~TellsOption(Fresh, Sent(c))
    BY SentSound DEF TellsOption
  <2> HIDE DEF s
  <2> QED
    BY <1>3, <2>1, <2>2, SentSound DEF Telling, Throws
<1>4. ASSUME hook \in {"prefilter", "veto"} PROVE Goal
  <2>1. s = Aborted(Opened, t)
    BY <1>4 DEF Made
  <2>2. Right(Opened, FALSE, t)
    <3>1. CASE hook = "prefilter"
      <4>1. t = NoThrow
        BY <1>1, <3>1 DEF Failing
      <4> QED
        BY <4>1, NoThrowRight
    <3>2. CASE hook = "veto"
      <4>1. Possible(Opened, FALSE, t)
        BY <3>2
      <4> QED
        BY <1>1, <4>1, <1>2, RightNow, Zenon
    <3> QED
      BY <1>4, <3>1, <3>2
  <2> HIDE DEF s
  <2> QED
    BY <1>4, <2>1, <2>2, AbortedSound DEF Telling, Throws
<1>5. ASSUME hook \in {"startThrows", "beforeThrows"} PROVE Goal
  <2>1. s = Opened
    BY <1>5 DEF Made
  <2>2. ~TellsOption(Fresh, Opened)
    BY OpenedSound DEF TellsOption
  <2>3. Sound(Opened)
    BY OpenedSound DEF Sound, UnderWay
  <2> HIDE DEF s
  <2> QED
    BY <1>5, <2>1, <2>2, <2>3, OpenedSound DEF Telling, Throws
<1>6. ASSUME hook \in {"noTransport", "openThrows"} PROVE Goal
  <2>1. s = Finished(Installed, FALSE, t)
    BY <1>6 DEF Made
  <2>2. Right(Installed, FALSE, t)
    <3>1. Possible(Installed, FALSE, t)
      BY <1>6
    <3> QED
      BY <1>1, <3>1, <1>2, RightNow, Zenon
  <2> HIDE DEF s
  <2> QED
    BY <1>6, <2>1, <2>2, FinishedInstalled DEF Telling, Throws
<1>7. ASSUME hook = "sendAborts" PROVE Goal
  <2>1. s = Twice(NoThrow)
    BY <1>1, <1>7 DEF Made, Failing
  <2> HIDE DEF s
  <2> QED
    BY <1>7, <2>1, TwiceSound DEF Telling, Throws
<1>8. ASSUME hook = "sendThrows" PROVE Goal
  <2>1. s = [Installed EXCEPT !.transport = TRUE]
    BY <1>8 DEF Made
  <2>2. /\ s \in Record /\ SameLists(Installed, s) /\ s.state = 0 /\ s.made
        /\ ~s.listening /\ ~s.timer
    BY <2>1, InstalledSound DEF Record, SameLists
  <2> HIDE DEF s
  <2>3. Sound(s)
    BY <2>2, InstalledSound, SameSound DEF Sound, UnderWay
  <2>4. ~TellsOption(Fresh, s)
    BY <2>2, InstalledSound DEF TellsOption, SameLists
  <2> QED
    BY <1>8, <2>2, <2>3, <2>4 DEF Telling, Throws
<1>9. Goal
  BY <1>1, <1>3, <1>4, <1>5, <1>6, <1>7, <1>8 DEF Hook
<1>10. Grows(Fresh, s)
  <2>1. Len(s.ran) \in Nat
    BY <1>9 DEF Sound, Record
  <2>2. Len(Fresh.ran) = 0
    BY FreshSound
  <2> QED
    BY <2>1, <2>2, FreshSound DEF Grows
<1> QED
  BY <1>9, <1>10

-----------------------------------------------------------------------------
(* The steps of a call. *)

\* Only call c changes.
Moves(c) == /\ call' \in [Call -> Record]
            /\ \A d \in Call : d # c => call'[d] = call[d]
            /\ Sound(call'[c]) /\ Grows(call[c], call'[c])

LEMMA MovesTo ==
  ASSUME CallsSound, NEW c \in Call, NEW s, Sound(s), Grows(call[c], s),
         call' = [call EXCEPT ![c] = s]
  PROVE  Moves(c) /\ call'[c] = s
BY DEF CallsSound, Sound, Moves

LEMMA CompletesTells ==
  ASSUME NEW c \in Call, call[c] \in Record, call'[c] \in Record
  PROVE  Completes(c) <=> TellsOption(call[c], call'[c])
<1>1. /\ call[c].ran \in Seq(Entry) /\ DOMAIN call[c].ran = 1..Len(call[c].ran)
      /\ call'[c].ran \in Seq(Entry)
      /\ DOMAIN call'[c].ran = 1..Len(call'[c].ran)
  BY DEF Record
<1> QED
  BY <1>1 DEF Completes, TellsOption, ToSet

\* What begins, ends, or adds to a call.
Begun(c, hook, t) ==
  /\ Moves(c) /\ call[c] = Fresh /\ call'[c].made
  /\ call'[c].state = IF hook = "send" THEN 1
                      ELSE IF hook \in Throws THEN 0 ELSE 2
  /\ hook \in Throws \ {"sendThrows"} => ~OptionWaits(call'[c])
  /\ hook \notin Telling => ~Completes(c)
  /\ hook \in Telling /\ t.at \notin {"callback", "ajaxError"} => Completes(c)

EndedBy(c, t) ==
  /\ Moves(c) /\ call[c].made /\ call'[c].made /\ call'[c].state = 2
  /\ call[c].state = 2 \/ ~OptionWaits(call[c]) => ~Completes(c)
  /\ call[c].state # 2 /\ OptionWaits(call[c])
       /\ t.at \notin {"callback", "ajaxError"} => Completes(c)

AddedTo(c) ==
  /\ Moves(c) /\ call'[c].made = call[c].made
  /\ call'[c].state = call[c].state
  /\ OptionWaits(call'[c]) <=> OptionWaits(call[c])
  /\ ~Completes(c)

LEMMA BeginStep ==
  ASSUME CallsSound, NEW c \in Call, NEW hook, NEW t, <<hook, t>> \in Start,
         Begin(c, hook, t)
  PROVE  Begun(c, hook, t)
<1> DEFINE s == Made(c, hook, t)
<1>1. /\ Sound(s) /\ s.made /\ Grows(Fresh, s)
      /\ s.state = IF hook = "send" THEN 1
                   ELSE IF hook \in Throws THEN 0 ELSE 2
      /\ hook \in Throws \ {"sendThrows"} => ~OptionWaits(s)
      /\ hook \notin Telling => ~TellsOption(Fresh, s)
      /\ hook \in Telling /\ t.at \notin {"callback", "ajaxError"} =>
           TellsOption(Fresh, s)
  <2>1. Possible(IF hook = "veto" THEN Opened ELSE Installed, FALSE, t)
    BY DEF Begin
  <2> QED
    BY <2>1, MadeSound
<1>2. call' = [call EXCEPT ![c] = s]
  BY DEF Begin
<1> HIDE DEF s
<1>3. call[c] = Fresh /\ call[c] \in Record
  BY DEF Begin, CallsSound, Sound, UnderWay
<1>4. Moves(c) /\ call'[c] = s
  BY <1>1, <1>2, <1>3, MovesTo
<1>5. Completes(c) <=> TellsOption(Fresh, s)
  BY <1>1, <1>3, <1>4, CompletesTells DEF Sound
<1> QED
  BY <1>1, <1>3, <1>4, <1>5 DEF Begun

LEMMA EndStep ==
  ASSUME CallsSound, NEW c \in Call, call[c].made, NEW ok \in BOOLEAN,
         NEW t \in Throw, Finish(c, Unheard(call[c]), ok, t)
  PROVE  /\ EndedBy(c, t)
         /\ active' = active - (IF call[c].state # 2 /\ t = NoThrow THEN 1 ELSE 0)
<1> DEFINE r == Unheard(call[c])
           s == Finished(r, ok, t)
<1>1. call[c] \in Record /\ Sound(call[c])
  BY DEF CallsSound
<1>2. /\ r \in Record /\ SameLists(call[c], r) /\ ~r.listening
      /\ r.state = call[c].state /\ r.made = call[c].made
      /\ r.timer = call[c].timer
  BY <1>1, UpdateListening
<1>3. Right(r, ok, t)
  BY DEF Finish, Right
<1>4. /\ call' = [call EXCEPT ![c] = s]
      /\ active' = active - (IF r.state # 2 /\ t = NoThrow THEN 1 ELSE 0)
  BY DEF Finish, Counted
<1> HIDE DEF r
<1>5. /\ Listed(r) /\ OneEnd(r) /\ (OptionWaits(r) <=> OptionWaits(call[c]))
      /\ r.timer => r.state = 1
  BY <1>1, <1>2, SameSound DEF Sound, UnderWay
<1>6. Ended(r, s, t)
  BY <1>2, <1>3, <1>5, FinishedSound
<1>7. Sound(s) /\ s.state = 2 /\ s.made
  BY <1>2, <1>3, <1>5, EndSound
<1> HIDE DEF s
<1>8. Grows(call[c], s)
  BY <1>2, <1>6 DEF Ended, Grows, SameLists
<1>9. Moves(c) /\ call'[c] = s
  BY <1>4, <1>7, <1>8, MovesTo
<1>10. Completes(c) <=> TellsOption(r, s)
  <2>1. Completes(c) <=> TellsOption(call[c], s)
    BY <1>1, <1>7, <1>9, CompletesTells DEF Sound
  <2>2. r.ran = call[c].ran
    BY <1>2 DEF SameLists
  <2> QED
    BY <2>1, <2>2 DEF TellsOption
<1>11. EndedBy(c, t)
  BY <1>2, <1>5, <1>6, <1>7, <1>9, <1>10 DEF Ended, EndedBy
<1> QED
  BY <1>2, <1>4, <1>11

LEMMA AttachStep ==
  ASSUME CallsSound, NEW c \in Call, NEW l \in Lists, NEW x \in Extra,
         NEW k \in Nat, Attach(c, l, x, k)
  PROVE  AddedTo(c)
<1> DEFINE r == call[c]
           d == r[l]
           after == Done(d, <<l, x>>, k)
           runs == DoneFires(d, <<l, x>>, k)
           s == WithList(r, l, after, r.ran \o runs)
<1>1. r \in Record /\ Sound(r) /\ r.made
  BY DEF CallsSound, Attach
<1>2. Addable(d, l, r.ran, x, k)
  BY DEF Attach, Addable
<1>3. call' = [call EXCEPT ![c] = s]
  <2>1. call' = [call EXCEPT ![c][l] = after, ![c].ran = @ \o runs]
    BY DEF Attach
  <2> HIDE DEF after, runs
  <2>2. DOMAIN call = Call /\ DOMAIN r = DOMAIN Fresh
    BY <1>1, FreshSound DEF CallsSound, Record
  <2> QED
    BY <2>1, <2>2 DEF WithList, Lists
<1>4. /\ s \in Record /\ Listed(s) /\ OneEnd(s) /\ Grows(r, s)
      /\ Shell(s) = Shell(r) /\ s.complete.fired = r.complete.fired
      /\ OptionWaits(s) <=> OptionWaits(r)
      /\ ~TellsOption(r, s)
  BY <1>1, <1>2, AttachedSound DEF Sound
<1> HIDE DEF s
<1>5. /\ s.state = r.state /\ s.made = r.made /\ s.transport = r.transport
      /\ s.listening = r.listening /\ s.timer = r.timer
  BY <1>4 DEF Shell
<1>6. Sound(s)
  BY <1>1, <1>4, <1>5 DEF Sound, UnderWay
<1>7. Moves(c) /\ call'[c] = s
  BY <1>3, <1>4, <1>6, MovesTo
<1>8. Completes(c) <=> TellsOption(r, s)
  BY <1>1, <1>4, <1>7, CompletesTells
<1> QED
  BY <1>4, <1>5, <1>7, <1>8 DEF AddedTo

-----------------------------------------------------------------------------
(* The count of the calls under way. *)

\* The calls under way when call c has changed.
LEMMA OpenAfter ==
  ASSUME NEW c \in Call, Moves(c), IsFiniteSet(OpenCalls)
  PROVE  /\ OpenCalls' = IF Open(c)' THEN OpenCalls \union {c}
                                     ELSE OpenCalls \ {c}
         /\ IsFiniteSet(OpenCalls')
         /\ Cardinality(OpenCalls) \in Int
         /\ Cardinality(OpenCalls') =
              Cardinality(OpenCalls)
                + (IF Open(c)' /\ ~Open(c) THEN 1 ELSE 0)
                - (IF Open(c) /\ ~Open(c)' THEN 1 ELSE 0)
<1>1. OpenCalls' = IF Open(c)' THEN OpenCalls \union {c} ELSE OpenCalls \ {c}
  BY DEF OpenCalls, Open, Moves
<1>2. c \in OpenCalls <=> Open(c)
  BY DEF OpenCalls
<1>3. Cardinality(OpenCalls) \in Nat
  BY FS_CardinalityType
<1>4. CASE Open(c)'
  <2>1. OpenCalls' = OpenCalls \union {c}
    BY <1>1, <1>4
  <2>2. /\ IsFiniteSet(OpenCalls \union {c})
        /\ Cardinality(OpenCalls \union {c}) =
             IF c \in OpenCalls THEN Cardinality(OpenCalls)
             ELSE Cardinality(OpenCalls) + 1
    BY FS_AddElement
  <2> QED
    BY <1>1, <1>2, <1>3, <1>4, <2>1, <2>2
<1>5. CASE ~Open(c)'
  <2>1. OpenCalls' = OpenCalls \ {c}
    BY <1>1, <1>5
  <2>2. /\ IsFiniteSet(OpenCalls \ {c})
        /\ Cardinality(OpenCalls \ {c}) =
             IF c \in OpenCalls THEN Cardinality(OpenCalls) - 1
             ELSE Cardinality(OpenCalls)
    BY FS_RemoveElement
  <2> QED
    BY <1>1, <1>2, <1>3, <1>5, <2>1, <2>2
<1> QED
  BY <1>4, <1>5

LEMMA BeginCounts ==
  ASSUME CallsSound, Counts, NEW c \in Call, NEW hook, NEW t,
         <<hook, t>> \in Start, Begin(c, hook, t)
  PROVE  Counts'
<1>1. /\ Moves(c) /\ call[c] = Fresh /\ call'[c].made
      /\ call'[c].state = IF hook = "send" THEN 1
                          ELSE IF hook \in Throws THEN 0 ELSE 2
  BY BeginStep DEF Begun
<1>2. /\ active \in Int /\ upset \in BOOLEAN /\ IsFiniteSet(OpenCalls)
      /\ ActiveCounts
  BY DEF Counts
<1>3. ~Open(c) /\ (Open(c)' <=> hook \in {"send"} \union Throws)
  BY <1>1, FreshSound DEF Open, Throws
<1>4. /\ IsFiniteSet(OpenCalls') /\ Cardinality(OpenCalls) \in Int
      /\ Cardinality(OpenCalls') =
           Cardinality(OpenCalls) + (IF Open(c)' THEN 1 ELSE 0)
  BY <1>1, <1>2, <1>3, OpenAfter
<1>5. /\ active' = active +
           (CASE hook \in {"prefilter"} -> 0
              [] hook \in Failing -> 1 - Counted(Opened, t)
              [] hook = "sendAborts" -> -1
              [] OTHER -> 1)
      /\ upset' = (upset \/ t # NoThrow \/ hook \in Throws \union {"sendAborts"})
  BY DEF Begin
<1>6. hook \in Hook
  BY DEF Start, Hook, Failing
<1>7. Counted(Opened, t) \in Int /\ (t = NoThrow => Counted(Opened, t) = 1)
  BY OpenedSound DEF Counted
<1>8. active' \in Int
  BY <1>2, <1>5, <1>6, <1>7 DEF Hook, Failing
<1>9. upset' \in BOOLEAN
  BY <1>5, Zenon
<1>10. ASSUME ~upset' PROVE active' = Cardinality(OpenCalls')
  <2>1. ~upset /\ t = NoThrow /\ hook \notin Throws \union {"sendAborts"}
    BY <1>5, <1>10, Zenon
  <2>2. active = Cardinality(OpenCalls)
    BY <1>2, <2>1 DEF ActiveCounts, OpenCalls
  <2>3. active' = active + (IF hook = "send" THEN 1 ELSE 0)
    BY <1>2, <1>5, <1>6, <1>7, <2>1 DEF Hook, Failing, Throws
  <2>4. Open(c)' <=> hook = "send"
    BY <1>3, <2>1
  <2> QED
    BY <1>2, <1>4, <2>2, <2>3, <2>4
<1> QED
  BY <1>4, <1>8, <1>9, <1>10 DEF Counts, ActiveCounts, OpenCalls

LEMMA EndCounts ==
  ASSUME CallsSound, Counts, NEW c \in Call, call[c].made, NEW ok \in BOOLEAN,
         NEW t \in Throw, Finish(c, Unheard(call[c]), ok, t)
  PROVE  Counts'
<1>1. /\ Moves(c) /\ call[c].made /\ call'[c].made /\ call'[c].state = 2
      /\ active' = active - (IF call[c].state # 2 /\ t = NoThrow THEN 1 ELSE 0)
  BY EndStep DEF EndedBy
<1>2. /\ active \in Int /\ upset \in BOOLEAN /\ IsFiniteSet(OpenCalls)
      /\ ActiveCounts
  BY DEF Counts
<1>3. ~Open(c)' /\ (Open(c) <=> call[c].state # 2)
  BY <1>1 DEF Open
<1>4. /\ IsFiniteSet(OpenCalls') /\ Cardinality(OpenCalls) \in Int
      /\ Cardinality(OpenCalls') =
           Cardinality(OpenCalls) - (IF Open(c) THEN 1 ELSE 0)
  BY <1>1, <1>2, <1>3, OpenAfter
<1>5. upset' = (upset \/ t # NoThrow)
  BY DEF Finish
<1>6. upset' \in BOOLEAN
  BY <1>5, Zenon
<1>7. active' \in Int
  BY <1>1, <1>2
<1>8. ASSUME ~upset' PROVE active' = Cardinality(OpenCalls')
  <2>1. ~upset /\ t = NoThrow
    BY <1>5, <1>8, Zenon
  <2>2. active = Cardinality(OpenCalls)
    BY <1>2, <2>1 DEF ActiveCounts, OpenCalls
  <2> QED
    BY <1>1, <1>2, <1>3, <1>4, <2>1, <2>2
<1> QED
  BY <1>4, <1>6, <1>7, <1>8 DEF Counts, ActiveCounts, OpenCalls

LEMMA AttachCounts ==
  ASSUME CallsSound, Counts, NEW c \in Call, NEW l \in Lists, NEW x \in Extra,
         NEW k \in Nat, Attach(c, l, x, k)
  PROVE  Counts'
<1>1. Moves(c) /\ (Open(c)' <=> Open(c))
  BY AttachStep DEF AddedTo, Open
<1>2. /\ active \in Int /\ upset \in BOOLEAN /\ IsFiniteSet(OpenCalls)
      /\ ActiveCounts
  BY DEF Counts
<1>3. /\ IsFiniteSet(OpenCalls') /\ Cardinality(OpenCalls) \in Int
      /\ Cardinality(OpenCalls') = Cardinality(OpenCalls)
  BY <1>1, <1>2, OpenAfter
<1>4. active' = active /\ upset' = (upset \/ k # 0)
  BY DEF Attach
<1>5. upset' \in BOOLEAN /\ (~upset' => ~upset)
  BY <1>4, Zenon
<1> QED
  BY <1>2, <1>3, <1>4, <1>5 DEF Counts, ActiveCounts, OpenCalls

-----------------------------------------------------------------------------
(* The buttons. *)

LEMMA Disabled ==
  ASSUME NEW b \in Button
  PROVE  LET d == DisableFormElements(b)
         IN  /\ d \in Button /\ d.kept = b.label /\ d.disabled
             /\ d.kept # "none"
<1> DEFINE one == [b EXCEPT !.kept = b.label]
           two == [one EXCEPT !.label = "wait"]
           three == [two EXCEPT !.disabled = TRUE]
<1>1. b.label \in Label /\ b.label # "none"
  BY DEF Button, Label
<1>2. one \in Button /\ one.kept = b.label
  BY <1>1 DEF Button
<1> HIDE DEF one
<1>3. two \in Button /\ two.kept = b.label
  BY <1>2 DEF Button, Label
<1> HIDE DEF two
<1>4. three \in Button /\ three.kept = b.label /\ three.disabled
  BY <1>3 DEF Button
<1>5. DisableFormElements(b) = three
  BY DEF DisableFormElements, one, two
<1> QED
  BY <1>1, <1>4, <1>5

LEMMA Enabled ==
  ASSUME NEW b \in Button, b.disabled => b.kept # "none"
  PROVE  LET e == EnableFormElements(b)
         IN  /\ e \in Button /\ ~e.disabled
             /\ e.label = IF b.disabled THEN b.kept ELSE b.label
<1> DEFINE one == [b EXCEPT !.label = b.kept]
           two == [one EXCEPT !.disabled = FALSE]
<1>1. CASE b.disabled
  <2>1. b.kept \in Label
    BY <1>1 DEF Button
  <2>2. one \in Button /\ one.label = b.kept
    BY <2>1 DEF Button
  <2> HIDE DEF one
  <2>3. two \in Button /\ two.label = b.kept /\ ~two.disabled
    BY <2>2 DEF Button
  <2>4. EnableFormElements(b) = two
    BY <1>1 DEF EnableFormElements, one
  <2> QED
    BY <1>1, <2>3, <2>4
<1>2. CASE ~b.disabled
  BY <1>2 DEF EnableFormElements
<1> QED
  BY <1>1, <1>2

\* Nothing that the button of f depends on has changed, or it is cut short.
LEMMA ButtonSame ==
  ASSUME NEW f \in Remote, ButtonInv, f \notin spoilt, scripted \subseteq scripted',
         form'[f] = form[f], Running(f)' = Running(f),
         \A c \in Call : owner'[c] = f /\ call'[c].state = 0 =>
           \/ ~OptionWaits(call'[c])
           \/ owner[c] = f /\ call[c].state = 0 /\ OptionWaits(call[c])
  PROVE  ButtonOf(f)'
<1>1. ButtonOf(f)
  BY DEF ButtonInv
<1> HIDE DEF Running
<1>2. Running(f)' = {} => ~form'[f].disabled
  BY <1>1 DEF ButtonOf
<1>3. f \notin scripted' =>
        /\ \A c, d \in Running(f)' : c = d
        /\ IF Running(f)' = {} THEN form'[f].label = "own"
           ELSE form'[f].disabled /\ form'[f].kept = "own"
  BY <1>1 DEF ButtonOf
<1>4. \A c \in Call : owner'[c] = f /\ call'[c].state = 0 => ~OptionWaits(call'[c])
  BY <1>1 DEF ButtonOf
<1> QED
  BY <1>2, <1>3, <1>4 DEF ButtonOf

\* Steps of the page that no call takes part in.
LEMMA PageStep ==
  ASSUME IInv, UNCHANGED <<ajaxVars, owner, spoilt>>,
         scripted \subseteq scripted', scripted' \subseteq Form,
         page' \in {"here", "left"}, timer' \subseteq Form \ Remote,
         \/ form' = form
         \/ \E g \in Form \ Remote :
              form' = [form EXCEPT ![g] = DisableFormElements(@)]
  PROVE  IInv'
<1>1. CallsSound'
  BY DEF IInv, CallsSound, ajaxVars
<1>2. Counts'
  <2>1. OpenCalls' = OpenCalls
    BY DEF OpenCalls, Open, ajaxVars
  <2> QED
    BY <2>1 DEF IInv, Counts, ActiveCounts, OpenCalls, ajaxVars
<1>3. /\ form \in [Form -> Button]
      /\ \A f \in Form : form[f].disabled => form[f].kept # "none"
  BY DEF IInv, FormsTyped
<1> DEFINE Kept == /\ form' \in [Form -> Button]
                   /\ \A f \in Form : form'[f].disabled => form'[f].kept # "none"
                   /\ \A f \in Remote : form'[f] = form[f]
<1>4. Kept
  <2>1. CASE form' = form
    BY <1>3, <2>1
  <2>2. ASSUME NEW g \in Form \ Remote,
               form' = [form EXCEPT ![g] = DisableFormElements(@)]
        PROVE  Kept
    <3>1. /\ DisableFormElements(form[g]) \in Button
          /\ DisableFormElements(form[g]).kept # "none"
      BY <1>3, Disabled
    <3> QED
      BY <1>3, <2>2, <3>1, RemoteAssumption
  <2> QED
    BY <2>1, <2>2
<1>5. FormsTyped'
  BY <1>4 DEF IInv, FormsTyped, ajaxVars
<1>6. ButtonInv'
  <2> SUFFICES ASSUME NEW f \in Remote, f \notin spoilt
               PROVE  ButtonOf(f)'
    BY DEF ButtonInv
  <2>1. Running(f)' = Running(f)
    BY DEF Running, ajaxVars
  <2> QED
    BY <1>4, <2>1, ButtonSame DEF IInv, ajaxVars
<1> QED
  BY <1>1, <1>2, <1>5, <1>6 DEF IInv

\* The buttons after a step of a call of form f.
LEMMA ButtonsAfter ==
  ASSUME FormsTyped, NEW c \in Call, NEW f \in Form \union {NoForm}, NEW b,
         NEW stopped \in BOOLEAN,
         f \in Form => b \in Button /\ (b.disabled => b.kept # "none"),
         Buttons(f, c, b, stopped)
  PROVE  /\ form' \in [Form -> Button]
         /\ \A g \in Form : form'[g].disabled => form'[g].kept # "none"
         /\ \A g \in Form : g # f => form'[g] = form[g]
         /\ f \in Form => form'[f] = IF Completes(c) /\ ~stopped
                                     THEN EnableFormElements(b) ELSE b
<1>1. /\ form \in [Form -> Button]
      /\ \A g \in Form : form[g].disabled => form[g].kept # "none"
  BY DEF FormsTyped
<1>2. form' = [g \in Form |-> IF g # f THEN form[g]
                              ELSE IF Completes(c) /\ ~stopped
                              THEN EnableFormElements(b) ELSE b]
  BY DEF Buttons, Enables
<1>3. /\ \A g \in Form : g # f => form'[g] = form[g]
      /\ f \in Form => form'[f] = IF Completes(c) /\ ~stopped
                                  THEN EnableFormElements(b) ELSE b
  BY <1>2
<1>4. f \in Form => /\ form'[f] \in Button
                    /\ form'[f].disabled => form'[f].kept # "none"
  BY <1>3, Enabled
<1>5. \A g \in Form : /\ form'[g] \in Button
                      /\ form'[g].disabled => form'[g].kept # "none"
  BY <1>1, <1>3, <1>4
<1>6. form' \in [Form -> Button]
  BY <1>2, <1>5
<1> QED
  BY <1>3, <1>5, <1>6

\* A call goes on: the page.
LEMMA GoesOnForms ==
  ASSUME FormsTyped, NEW c \in Call, Moves(c), call[c].made, call'[c].made,
         NEW t, NEW stopped \in BOOLEAN, GoesOn(c, t, stopped)
  PROVE  /\ FormsTyped'
         /\ owner' = owner /\ scripted' = scripted
         /\ \A f \in Form : f \notin spoilt' =>
              /\ f \notin spoilt
              /\ owner[c] = f => ~Silences(t, stopped)
              /\ form'[f] = IF owner[c] = f /\ Completes(c)
                            THEN EnableFormElements(form[f]) ELSE form[f]
<1> DEFINE f == owner[c]
           b == IF f = NoForm THEN <<>> ELSE form[f]
<1>1. /\ Buttons(f, c, b, stopped)
      /\ spoilt' = IF Silences(t, stopped) THEN spoilt \union ({f} \ {NoForm})
                   ELSE spoilt
      /\ timer' = timer /\ page' = page /\ owner' = owner
      /\ scripted' = scripted
  BY DEF GoesOn
<1>2. f \in Form \union {NoForm}
  BY DEF FormsTyped
<1>3. f \in Form => b \in Button /\ (b.disabled => b.kept # "none")
  BY NoFormAssumption DEF FormsTyped
<1> HIDE DEF b
<1>4. /\ form' \in [Form -> Button]
      /\ \A g \in Form : form'[g].disabled => form'[g].kept # "none"
      /\ \A g \in Form : g # f => form'[g] = form[g]
      /\ f \in Form => form'[f] = IF Completes(c) /\ ~stopped
                                  THEN EnableFormElements(b) ELSE b
  BY <1>1, <1>2, <1>3, ButtonsAfter
<1>5. f \in Form => b = form[f]
  BY NoFormAssumption DEF b
<1>6. \A d \in Call : ~call'[d].made => owner'[d] = NoForm
  BY <1>1 DEF FormsTyped, Moves
<1>7. FormsTyped'
  BY <1>1, <1>2, <1>4, <1>6 DEF FormsTyped
<1>8. ASSUME NEW g \in Form, g \notin spoilt'
      PROVE  /\ g \notin spoilt
             /\ f = g => ~Silences(t, stopped)
             /\ form'[g] = IF f = g /\ Completes(c)
                           THEN EnableFormElements(form[g]) ELSE form[g]
  <2>1. g \notin spoilt /\ (f = g => ~Silences(t, stopped))
    BY <1>1, <1>8, NoFormAssumption
  <2>2. f = g => ~stopped
    BY <2>1 DEF Silences
  <2> QED
    BY <1>4, <1>5, <2>1, <2>2
<1> QED
  BY <1>1, <1>7, <1>8

\* A call ends: it gives the button back if it was sent.
LEMMA EndButtons ==
  ASSUME IInv, NEW c \in Call, NEW t, NEW stopped \in BOOLEAN, EndedBy(c, t),
         GoesOn(c, t, stopped)
  PROVE  FormsTyped' /\ ButtonInv'
<1>1. /\ Moves(c) /\ call[c].made /\ call'[c].made /\ call'[c].state = 2
      /\ call[c].state = 2 \/ ~OptionWaits(call[c]) => ~Completes(c)
      /\ call[c].state # 2 /\ OptionWaits(call[c])
           /\ t.at \notin {"callback", "ajaxError"} => Completes(c)
  BY DEF EndedBy
<1>2. /\ FormsTyped'
      /\ owner' = owner /\ scripted' = scripted
      /\ \A f \in Form : f \notin spoilt' =>
           /\ f \notin spoilt
           /\ owner[c] = f => ~Silences(t, stopped)
           /\ form'[f] = IF owner[c] = f /\ Completes(c)
                         THEN EnableFormElements(form[f]) ELSE form[f]
  BY <1>1, GoesOnForms DEF IInv
<1>3. \A d \in Call : d # c => call'[d] = call[d]
  BY <1>1 DEF Moves
<1> SUFFICES ASSUME NEW f \in Remote, f \notin spoilt'
             PROVE  ButtonOf(f)'
  BY <1>2 DEF ButtonInv
<1>4. /\ f \in Form /\ f \notin spoilt
      /\ owner[c] = f => ~Silences(t, stopped)
      /\ form'[f] = IF owner[c] = f /\ Completes(c)
                    THEN EnableFormElements(form[f]) ELSE form[f]
  BY <1>2, RemoteAssumption
<1>5. ButtonOf(f) /\ ButtonInv
  BY <1>4 DEF IInv, ButtonInv
<1>6. \A d \in Call : owner'[d] = f /\ call'[d].state = 0 =>
        \/ ~OptionWaits(call'[d])
        \/ owner[d] = f /\ call[d].state = 0 /\ OptionWaits(call[d])
  BY <1>1, <1>2, <1>3
<1>7. CASE owner[c] # f \/ ~Completes(c)
  <2>1. owner[c] = f => call[c].state # 1
    <3>1. call[c].state = 1 => OptionWaits(call[c])
      BY DEF IInv, CallsSound, Sound, UnderWay
    <3> QED
      BY <1>1, <1>4, <1>7, <3>1 DEF Silences
  <2>2. Running(f)' = Running(f)
    BY <1>1, <1>2, <1>3, <2>1 DEF Running
  <2> QED
    BY <1>2, <1>4, <1>5, <1>6, <1>7, <2>2, ButtonSame
<1>8. CASE owner[c] = f /\ Completes(c)
  <2>1. call[c].state = 1
    <3>1. call[c].state # 2 /\ OptionWaits(call[c])
      BY <1>1, <1>8
    <3>2. call[c].state # 0
      BY <1>5, <1>8, <3>1 DEF ButtonOf
    <3> QED
      BY <3>1, <3>2 DEF IInv, CallsSound, Record
  <2>2. c \in Running(f) /\ Running(f)' = Running(f) \ {c}
    BY <1>1, <1>2, <1>3, <1>8, <2>1 DEF Running
  <2> DEFINE b == form[f]
             e == form'[f]
  <2>3. /\ ~e.disabled /\ e.label = IF b.disabled THEN b.kept ELSE b.label
    <3>1. b \in Button /\ (b.disabled => b.kept # "none")
      BY <1>4 DEF IInv, FormsTyped
    <3> QED
      BY <1>4, <1>8, <3>1, Enabled
  <2> HIDE DEF b, e
  <2>4. f \notin scripted' => Running(f)' = {} /\ e.label = "own"
    BY <1>2, <1>5, <2>2, <2>3 DEF ButtonOf, b
  <2>5. \A d \in Call : owner'[d] = f /\ call'[d].state = 0 => ~OptionWaits(call'[d])
    BY <1>5, <1>6 DEF ButtonOf
  <2> QED
    BY <2>3, <2>4, <2>5 DEF ButtonOf, e
<1> QED
  BY <1>7, <1>8

\* A callback is added: no button changes.
LEMMA AttachButtons ==
  ASSUME IInv, NEW c \in Call, NEW stopped \in BOOLEAN, AddedTo(c),
         call[c].made, GoesOn(c, NoThrow, stopped)
  PROVE  FormsTyped' /\ ButtonInv'
<1>1. /\ Moves(c) /\ call'[c].made /\ call'[c].state = call[c].state
      /\ OptionWaits(call'[c]) <=> OptionWaits(call[c])
      /\ ~Completes(c)
  BY DEF AddedTo
<1>2. /\ FormsTyped'
      /\ owner' = owner /\ scripted' = scripted
      /\ \A f \in Form : f \notin spoilt' =>
           f \notin spoilt /\ form'[f] = form[f]
  BY <1>1, GoesOnForms DEF IInv
<1>3. \A d \in Call : d # c => call'[d] = call[d]
  BY <1>1 DEF Moves
<1> SUFFICES ASSUME NEW f \in Remote, f \notin spoilt'
             PROVE  ButtonOf(f)'
  BY <1>2 DEF ButtonInv
<1>4. f \in Form /\ f \notin spoilt /\ form'[f] = form[f] /\ ButtonInv
  BY <1>2, RemoteAssumption DEF IInv
<1>5. Running(f)' = Running(f)
  BY <1>1, <1>2, <1>3 DEF Running
<1>6. \A d \in Call : owner'[d] = f /\ call'[d].state = 0 =>
        \/ ~OptionWaits(call'[d])
        \/ owner[d] = f /\ call[d].state = 0 /\ OptionWaits(call[d])
  BY <1>1, <1>2, <1>3
<1> QED
  BY <1>2, <1>4, <1>5, <1>6, ButtonSame

\* A form is submitted: its button is disabled for the call that is sent, and
\* comes back at once when the call ends before it is sent.
LEMMA SubmitButtons ==
  ASSUME IInv, NEW f \in Remote, NEW way \in Way, NEW c \in Call, NEW hook,
         NEW t, <<hook, t>> \in Start, NEW early \in BOOLEAN,
         NEW stopped \in BOOLEAN, SubmitRemote(f, way, c, hook, t, early, stopped)
  PROVE  FormsTyped' /\ ButtonInv'
<1> DEFINE asked == hook \notin {"prefilter", "startThrows"}
           b == IF asked /\ ~early THEN DisableFormElements(form[f]) ELSE form[f]
<1>1. /\ MaySubmit(f, way) /\ HandleRemote(f, way, c, hook, t, early, stopped)
      /\ page' \in {page, "here", "left"} /\ timer' = timer
  BY DEF SubmitRemote, Native
<1>2. /\ Begin(c, hook, t) /\ owner' = [owner EXCEPT ![c] = f]
      /\ Buttons(f, c, b, stopped)
      /\ spoilt' = IF early \/ hook \in {"veto", "beforeThrows", "sendThrows"}
                         \/ Silences(t, stopped)
                   THEN spoilt \union {f} ELSE spoilt
      /\ scripted' = ByScript(f, way)
  BY <1>1 DEF HandleRemote
<1>3. /\ Moves(c) /\ call[c] = Fresh /\ call'[c].made
      /\ call'[c].state = IF hook = "send" THEN 1
                          ELSE IF hook \in Throws THEN 0 ELSE 2
      /\ hook \in Throws \ {"sendThrows"} => ~OptionWaits(call'[c])
      /\ hook \notin Telling => ~Completes(c)
      /\ hook \in Telling /\ t.at \notin {"callback", "ajaxError"} => Completes(c)
  BY <1>2, BeginStep DEF Begun, IInv
<1>4. \A d \in Call : d # c => call'[d] = call[d]
  BY <1>3 DEF Moves
<1>5. /\ f \in Form /\ form[f] \in Button
      /\ form[f].disabled => form[f].kept # "none"
  BY RemoteAssumption DEF IInv, FormsTyped
<1>6. /\ b \in Button /\ (b.disabled => b.kept # "none")
      /\ asked /\ ~early => b.disabled /\ b.kept = form[f].label
      /\ ~asked => b = form[f]
  BY <1>5, Disabled
<1> HIDE DEF b
<1>7. /\ form' \in [Form -> Button]
      /\ \A g \in Form : form'[g].disabled => form'[g].kept # "none"
      /\ \A g \in Form : g # f => form'[g] = form[g]
      /\ form'[f] = IF Completes(c) /\ ~stopped
                    THEN EnableFormElements(b) ELSE b
  BY <1>2, <1>5, <1>6, ButtonsAfter DEF IInv
<1>8. /\ owner \in [Call -> Form \union {NoForm}]
      /\ \A d \in Call : ~call[d].made => owner[d] = NoForm
      /\ timer \subseteq Form \ Remote /\ page \in {"here", "left"}
      /\ spoilt \subseteq Form /\ scripted \subseteq Form
  BY DEF IInv, FormsTyped
<1>9. /\ owner' \in [Call -> Form \union {NoForm}] /\ owner'[c] = f
      /\ \A d \in Call : d # c => owner'[d] = owner[d]
      /\ owner[c] = NoForm /\ owner[c] \notin Form
  BY <1>2, <1>3, <1>5, <1>8, FreshSound, NoFormAssumption
<1>10. FormsTyped'
  <2>1. \A d \in Call : ~call'[d].made => owner'[d] = NoForm
    BY <1>3, <1>4, <1>8, <1>9
  <2> QED
    BY <1>1, <1>2, <1>5, <1>7, <1>8, <1>9, <2>1 DEF FormsTyped, ByScript
<1>11. scripted \subseteq scripted' /\ spoilt \subseteq spoilt'
  BY <1>2 DEF ByScript
<1> SUFFICES ASSUME NEW g \in Remote, g \notin spoilt'
             PROVE  ButtonOf(g)'
  BY <1>10 DEF ButtonInv
<1>12. g \in Form /\ g \notin spoilt /\ ButtonOf(g) /\ ButtonInv
  BY <1>11, RemoteAssumption DEF IInv, ButtonInv
<1>13. \A d \in Call : d # c => /\ owner'[d] = g <=> owner[d] = g
                                /\ call'[d] = call[d]
  BY <1>4, <1>9
<1>14. owner[c] # g
  BY <1>9, <1>12
<1>15. CASE g # f
  <2>1. Running(g)' = Running(g)
    BY <1>9, <1>13, <1>14, <1>15 DEF Running
  <2>2. \A d \in Call : owner'[d] = g /\ call'[d].state = 0 =>
          \/ ~OptionWaits(call'[d])
          \/ owner[d] = g /\ call[d].state = 0 /\ OptionWaits(call[d])
    BY <1>9, <1>13, <1>15
  <2> QED
    BY <1>7, <1>11, <1>12, <1>15, <2>1, <2>2, ButtonSame
<1>16. CASE g = f
  <2>1. /\ ~early /\ hook \notin {"veto", "beforeThrows", "sendThrows"}
        /\ ~stopped /\ t.at \notin {"callback", "ajaxError"}
    BY <1>2, <1>16 DEF Silences
  <2>2. f \notin scripted' => /\ f \notin scripted /\ ~form[f].disabled
                              /\ Running(f) = {} /\ form[f].label = "own"
    <3>1. f \notin scripted' => way = "click"
      BY <1>2 DEF ByScript, Way
    <3> QED
      BY <1>1, <1>11, <1>12, <1>16, <3>1 DEF MaySubmit, ButtonOf
  <2>3. call'[c].state = 0 => ~OptionWaits(call'[c])
    BY <1>3, <2>1
  <2>4. \A d \in Call : owner'[d] = f /\ call'[d].state = 0 => ~OptionWaits(call'[d])
    BY <1>12, <1>13, <1>16, <2>3 DEF ButtonOf
  <2>5. CASE hook = "send"
    <3>1. c \in Running(f)' /\ Running(f)' = Running(f) \union {c}
      BY <1>3, <1>9, <1>13, <1>16, <2>5 DEF Running
    <3>2. form'[f] = b /\ b.disabled /\ b.kept = form[f].label
      BY <1>3, <1>6, <1>7, <2>1, <2>5 DEF Telling
    <3> QED
      BY <1>16, <2>2, <2>4, <3>1, <3>2 DEF ButtonOf
  <2>6. CASE hook \in Telling
    <3>1. Running(f)' = Running(f)
      BY <1>3, <1>9, <1>13, <1>14, <1>16, <2>6 DEF Running, Telling, Throws
    <3>2. Completes(c) /\ asked
      BY <1>3, <2>1, <2>6 DEF Telling
    <3>3. form'[f] = EnableFormElements(b) /\ b.disabled /\ b.kept = form[f].label
      BY <1>6, <1>7, <2>1, <3>2
    <3>4. ~form'[f].disabled /\ form'[f].label = form[f].label
      BY <1>6, <3>3, Enabled
    <3> QED
      BY <1>16, <2>2, <2>4, <3>1, <3>4 DEF ButtonOf
  <2>7. CASE hook \in {"prefilter", "startThrows"}
    <3>1. Running(f)' = Running(f)
      BY <1>3, <1>9, <1>13, <1>14, <1>16, <2>7 DEF Running, Throws
    <3>2. form'[f] = form[f]
      BY <1>3, <1>6, <1>7, <2>7 DEF Telling
    <3>3. \A d \in Call : owner'[d] = f /\ call'[d].state = 0 =>
            \/ ~OptionWaits(call'[d])
            \/ owner[d] = f /\ call[d].state = 0 /\ OptionWaits(call[d])
      BY <2>4
    <3> QED
      BY <1>11, <1>12, <1>16, <3>1, <3>2, <3>3, ButtonSame
  <2> QED
    BY <2>1, <2>5, <2>6, <2>7 DEF Start, Hook, Failing, Telling
<1> QED
  BY <1>15, <1>16

\* A link's call belongs to no form.
LEMMA FollowButtons ==
  ASSUME IInv, NEW c \in Call, FollowRemote(c)
  PROVE  FormsTyped' /\ ButtonInv'
<1>1. Begin(c, "send", NoThrow) /\ UNCHANGED formVars
  BY DEF FollowRemote
<1>2. <<"send", NoThrow>> \in Start
  BY DEF Start, Hook
<1>3. Moves(c) /\ call[c] = Fresh /\ call'[c].made
  BY <1>1, <1>2, BeginStep DEF Begun, IInv
<1>4. \A d \in Call : d # c => call'[d] = call[d]
  BY <1>3 DEF Moves
<1>5. owner[c] = NoForm
  BY <1>3, FreshSound DEF IInv, FormsTyped
<1>6. FormsTyped'
  BY <1>1, <1>3, <1>4 DEF IInv, FormsTyped, formVars
<1>7. ButtonInv'
  <2> SUFFICES ASSUME NEW f \in Remote, f \notin spoilt
               PROVE  ButtonOf(f)'
    BY <1>1 DEF ButtonInv, formVars
  <2>1. owner[c] # f /\ owner' = owner
    BY <1>1, <1>5, NoFormAssumption, RemoteAssumption DEF formVars
  <2>2. Running(f)' = Running(f)
    BY <1>4, <2>1 DEF Running
  <2>3. \A d \in Call : owner'[d] = f /\ call'[d].state = 0 =>
          \/ ~OptionWaits(call'[d])
          \/ owner[d] = f /\ call[d].state = 0 /\ OptionWaits(call[d])
    BY <1>4, <2>1
  <2>4. form' = form /\ scripted' = scripted
    BY <1>1 DEF formVars
  <2> QED
    BY <2>2, <2>3, <2>4, ButtonSame DEF IInv
<1> QED
  BY <1>6, <1>7

-----------------------------------------------------------------------------
(* The invariant. *)

LEMMA InitInv == Init => IInv
<1> SUFFICES ASSUME Init PROVE IInv
  OBVIOUS
<1>1. /\ call = [c \in Call |-> Fresh] /\ active = 0 /\ upset = FALSE
      /\ form = [f \in Form |-> [disabled |-> FALSE, label |-> "own",
                                 kept |-> "none"]]
      /\ timer = {} /\ page = "here" /\ owner = [c \in Call |-> NoForm]
      /\ spoilt = {} /\ scripted = {}
  BY DEF Init, AjaxInit
<1>2. CallsSound
  BY <1>1, FreshSound DEF CallsSound
<1>3. Counts
  <2>1. OpenCalls = {}
    BY <1>1, FreshSound DEF OpenCalls, Open
  <2>2. IsFiniteSet(OpenCalls) /\ Cardinality(OpenCalls) = 0
    BY <2>1, FS_EmptySet
  <2>3. ActiveCounts
    BY <1>1, <2>2 DEF ActiveCounts, OpenCalls
  <2>4. active \in Int /\ upset \in BOOLEAN
    <3>1. active \in Int
      BY <1>1
    <3>2. upset \in BOOLEAN
      BY <1>1, Zenon
    <3> QED
      BY <3>1, <3>2
  <2> QED
    BY <2>2, <2>3, <2>4 DEF Counts
<1>4. FormsTyped
  BY <1>1 DEF FormsTyped, Button, Label
<1>5. ButtonInv
  <2> SUFFICES ASSUME NEW f \in Remote PROVE ButtonOf(f)
    BY DEF ButtonInv
  <2>1. Running(f) = {}
    BY <1>1, FreshSound DEF Running
  <2> QED
    BY <1>1, <2>1, FreshSound, RemoteAssumption DEF ButtonOf
<1> QED
  BY <1>2, <1>3, <1>4, <1>5 DEF IInv

LEMMA MovesSound ==
  ASSUME CallsSound, NEW c \in Call, Moves(c)
  PROVE  CallsSound'
BY DEF CallsSound, Moves

\* Every end of a call is one of done().
LEMMA EndsInvStep ==
  ASSUME IInv, NEW c \in Call, NEW ok \in BOOLEAN, NEW t \in Throw,
         NEW stopped \in BOOLEAN, Finish(c, Unheard(call[c]), ok, t),
         call[c].made, GoesOn(c, t, stopped)
  PROVE  IInv' /\ Moves(c)
<1>1. EndedBy(c, t)
  BY EndStep DEF IInv
<1>2. Moves(c)
  BY <1>1 DEF EndedBy
<1>3. CallsSound'
  BY <1>2, MovesSound DEF IInv
<1>4. Counts'
  BY EndCounts DEF IInv
<1>5. FormsTyped' /\ ButtonInv'
  BY <1>1, EndButtons
<1> QED
  BY <1>2, <1>3, <1>4, <1>5 DEF IInv

\* A call that listens or has a timer has been made.
LEMMA OnTheWire ==
  ASSUME CallsSound, NEW c \in Call, call[c].listening \/ call[c].timer
  PROVE  call[c].made
<1>1. call[c].state = 1 /\ (call[c].made \/ call[c] = Fresh)
  BY DEF CallsSound, Sound, UnderWay
<1> QED
  BY <1>1, FreshSound

LEMMA NextStep ==
  ASSUME IInv, Next
  PROVE  IInv' /\ (call' = call \/ \E c \in Call : Moves(c))
<1>0. CallsSound /\ FormsTyped
  BY DEF IInv
<1> DEFINE Goal == IInv' /\ (call' = call \/ \E c \in Call : Moves(c))
<1>1. ASSUME NEW f \in Form, SubmitNative(f) PROVE Goal
  <2>1. /\ UNCHANGED <<ajaxVars, form, owner, spoilt, scripted>>
        /\ timer' = timer \union {f} /\ f \notin Remote
        /\ page' \in {"here", "left"}
    BY <1>1 DEF SubmitNative, Native
  <2> QED
    BY <1>0, <2>1, PageStep DEF FormsTyped, ajaxVars
<1>2. ASSUME NEW f \in Form, NEW way \in Way, SendFiles(f, way) PROVE Goal
  <2>1. /\ UNCHANGED <<ajaxVars, form, timer, owner, spoilt>>
        /\ scripted' = ByScript(f, way) /\ page' \in {"here", "left"}
    BY <1>2 DEF SendFiles, Native
  <2>2. scripted \subseteq scripted' /\ scripted' \subseteq Form
    BY <1>0, <2>1 DEF ByScript, FormsTyped
  <2> QED
    BY <1>0, <2>1, <2>2, PageStep DEF FormsTyped, ajaxVars
<1>3. ASSUME NEW f \in Form, NEW way \in Way, NEW c \in Call, NEW s \in Start,
             NEW early \in BOOLEAN, NEW stopped \in BOOLEAN,
             SubmitRemote(f, way, c, s[1], s[2], early, stopped)
      PROVE  Goal
  <2>1. f \in Remote /\ Begin(c, s[1], s[2])
    BY <1>3 DEF SubmitRemote, HandleRemote
  <2>2. <<s[1], s[2]>> \in Start
    BY DEF Start
  <2>3. Moves(c)
    BY <1>0, <2>1, <2>2, BeginStep DEF Begun
  <2>4. CallsSound' /\ Counts'
    BY <1>0, <2>1, <2>2, <2>3, MovesSound, BeginCounts DEF IInv
  <2>5. FormsTyped' /\ ButtonInv'
    BY <1>3, <2>1, <2>2, SubmitButtons
  <2> QED
    BY <2>3, <2>4, <2>5 DEF IInv
<1>4. ASSUME NEW c \in Call, FollowRemote(c) PROVE Goal
  <2>1. Begin(c, "send", NoThrow) /\ <<"send", NoThrow>> \in Start
    BY <1>4 DEF FollowRemote, Start, Hook
  <2>2. Moves(c)
    BY <1>0, <2>1, BeginStep DEF Begun
  <2>3. CallsSound' /\ Counts'
    BY <1>0, <2>1, <2>2, MovesSound, BeginCounts DEF IInv
  <2>4. FormsTyped' /\ ButtonInv'
    BY <1>4, FollowButtons
  <2> QED
    BY <2>2, <2>3, <2>4 DEF IInv
<1>5. ASSUME HandleMethod PROVE Goal
  <2>1. /\ UNCHANGED <<ajaxVars, form, timer, owner, spoilt, scripted>>
        /\ page' \in {"here", "left"}
    BY <1>5 DEF HandleMethod, Native
  <2> QED
    BY <1>0, <2>1, PageStep DEF FormsTyped, ajaxVars
<1>6. ASSUME NEW f \in Form, DisableLater(f) PROVE Goal
  <2>1. /\ UNCHANGED <<ajaxVars, page, owner, spoilt, scripted>>
        /\ f \in timer /\ timer' = timer \ {f}
        /\ form' = [form EXCEPT ![f] = DisableFormElements(@)]
    BY <1>6 DEF DisableLater
  <2>2. f \in Form \ Remote
    BY <1>0, <2>1 DEF FormsTyped
  <2> QED
    BY <1>0, <2>1, <2>2, PageStep DEF FormsTyped, ajaxVars
<1>7. ASSUME NEW c \in Call, NEW t \in Throw, NEW stopped \in BOOLEAN,
             NEW ok \in BOOLEAN, Answered(c, ok, t, stopped)
      PROVE  Goal
  <2>1. /\ call[c].listening /\ Finish(c, Unheard(call[c]), ok, t)
        /\ GoesOn(c, t, stopped)
    BY <1>7 DEF Answered, Answer, Unheard
  <2>2. call[c].made
    BY <1>0, <2>1, OnTheWire
  <2> QED
    BY <2>1, <2>2, EndsInvStep
<1>8. ASSUME NEW c \in Call, NEW t \in Throw, NEW stopped \in BOOLEAN,
             TimedOut(c, t, stopped)
      PROVE  Goal
  <2>1. /\ call[c].timer /\ Finish(c, Unheard(call[c]), FALSE, t)
        /\ GoesOn(c, t, stopped)
    BY <1>8 DEF TimedOut, TimeOut, Unheard
  <2>2. call[c].made /\ FALSE \in BOOLEAN
    BY <1>0, <2>1, OnTheWire
  <2>3. IInv' /\ Moves(c)
    BY <2>1, <2>2, EndsInvStep, Zenon
  <2> QED
    BY <2>3
<1>9. ASSUME NEW c \in Held, NEW t \in Throw, NEW stopped \in BOOLEAN,
             AbortedBy(c, t, stopped)
      PROVE  Goal
  <2>1. /\ call[c].made /\ Finish(c, Unheard(call[c]), FALSE, t)
        /\ GoesOn(c, t, stopped)
    BY <1>9 DEF AbortedBy, Abort, Unheard
  <2>2. c \in Call /\ FALSE \in BOOLEAN
    BY HeldAssumption
  <2>3. IInv' /\ Moves(c)
    BY <2>1, <2>2, EndsInvStep, Zenon
  <2> QED
    BY <2>2, <2>3
<1>10. ASSUME NEW c \in Held, NEW l \in Lists, NEW x \in Extra, NEW k \in 0..2,
              NEW stopped \in BOOLEAN, Attached(c, l, x, k, stopped)
       PROVE  Goal
  <2>1. /\ Attach(c, l, x, k) /\ GoesOn(c, NoThrow, stopped) /\ c \in Call
        /\ k \in Nat /\ call[c].made
    BY <1>10, HeldAssumption DEF Attached, Attach
  <2>2. AddedTo(c)
    BY <1>0, <2>1, AttachStep
  <2>3. Moves(c)
    BY <2>2 DEF AddedTo
  <2>4. CallsSound'
    BY <1>0, <2>1, <2>3, MovesSound
  <2>5. Counts'
    BY <1>0, <2>1, AttachCounts DEF IInv
  <2>6. FormsTyped' /\ ButtonInv'
    BY <2>1, <2>2, AttachButtons
  <2> QED
    BY <2>1, <2>3, <2>4, <2>5, <2>6 DEF IInv
<1> HIDE DEF Goal
<1>11. ASSUME Submitted PROVE Goal
  BY <1>1, <1>2, <1>3, <1>11 DEF Submitted
<1>12. ASSUME NEW c \in Call, Ends(c) PROVE Goal
  BY <1>7, <1>8, <1>12 DEF Ends
<1>13. Goal
  BY <1>4, <1>5, <1>6, <1>9, <1>10, <1>11, <1>12 DEF Next, Lists
<1> QED
  BY <1>13 DEF Goal

\* IInv holds in every state.
THEOREM Inductive == Spec => []IInv
<1>1. IInv /\ [Next]_vars => IInv'
  <2> SUFFICES ASSUME IInv, [Next]_vars PROVE IInv'
    OBVIOUS
  <2>1. CASE Next
    BY <2>1, NextStep
  <2>2. CASE UNCHANGED vars
    <3>1. UNCHANGED <<ajaxVars, owner, spoilt, form, timer, page, scripted>>
      BY <2>2 DEF vars, formVars
    <3> QED
      BY <3>1, PageStep DEF IInv, FormsTyped
  <2> QED
    BY <2>1, <2>2
<1> QED
  BY InitInv, <1>1, PTL DEF Spec

-----------------------------------------------------------------------------
(* What follows. *)

\* Calls, forms and the page keep their types, and jQuery.active counts the
\* calls that have not ended as long as no handler throws or aborts on
\* ajaxSend (done() takes from it exactly what jQuery.ajax has added).
THEOREM CallsCorrect == Spec => []CallsInOrder
<1>1. IInv => CallsInOrder
  <2> SUFFICES ASSUME IInv PROVE CallsInOrder
    OBVIOUS
  <2>1. ASSUME NEW c \in Call
        PROVE  /\ call[c].state \in 0..2
               /\ {call[c].made, call[c].transport, call[c].listening,
                   call[c].timer} \subseteq BOOLEAN
               /\ \A l \in {"done", "fail", "complete"} :
                    /\ ToSet(call[c][l].list) \subseteq Entry
                    /\ {call[c][l].fired, call[c][l].cancelled} \subseteq BOOLEAN
               /\ call[c].listening => call[c].state = 1 /\ call[c].transport
               /\ call[c].timer => call[c].state = 1
    <3> DEFINE r == call[c]
    <3>1. r \in Record /\ UnderWay(r)
      BY DEF IInv, CallsSound, Sound
    <3> HIDE DEF r
    <3>2. ASSUME NEW d \in Deferred
          PROVE  /\ ToSet(d.list) \subseteq Entry
                 /\ {d.fired, d.cancelled} \subseteq BOOLEAN
      BY DEF Deferred, ToSet
    <3>3. r.done \in Deferred /\ r.fail \in Deferred /\ r.complete \in Deferred
      BY <3>1 DEF Record
    <3>4. /\ r.state \in 0..2
          /\ {r.made, r.transport, r.listening, r.timer} \subseteq BOOLEAN
          /\ r.listening => r.state = 1 /\ r.transport
          /\ r.timer => r.state = 1
      BY <3>1 DEF Record, UnderWay
    <3> QED
      BY <3>2, <3>3, <3>4 DEF r
  <2>2. /\ active \in Int /\ upset \in BOOLEAN /\ ActiveCounts
    BY DEF IInv, Counts
  <2>3. TypeOK
    BY <2>1, <2>2 DEF IInv, FormsTyped, Button, TypeOK
  <2> QED
    BY <2>2, <2>3 DEF CallsInOrder
<1> QED
  BY <1>1, Inductive, PTL

\* When no call of a remote form is under way its button is enabled, with its
\* own label if its calls never overlapped; clicks alone never have two calls
\* of a form under way.
THEOREM ButtonComesBack == Spec => []ButtonBack
<1>1. IInv => ButtonBack
  <2> SUFFICES ASSUME IInv, NEW f \in Remote \ spoilt
               PROVE  /\ Running(f) = {} =>
                           /\ ~form[f].disabled
                           /\ f \notin scripted => form[f].label = "own"
                      /\ f \notin scripted => Cardinality(Running(f)) <= 1
    BY DEF ButtonBack
  <2>1. ButtonOf(f)
    BY DEF IInv, ButtonInv
  <2> HIDE DEF Running
  <2>2. ASSUME f \notin scripted PROVE Cardinality(Running(f)) <= 1
    <3>1. CASE Running(f) = {}
      BY <3>1, FS_EmptySet
    <3>2. CASE Running(f) # {}
      <4>1. PICK c : c \in Running(f)
        BY <3>2
      <4>2. Running(f) = {c}
        BY <2>1, <2>2, <4>1 DEF ButtonOf
      <4> QED
        BY <4>2, FS_Singleton
    <3> QED
      BY <3>1, <3>2
  <2> QED
    BY <2>1, <2>2 DEF ButtonOf
<1> QED
  BY <1>1, Inductive, PTL

-----------------------------------------------------------------------------
(* Every call is one of AjaxCall. *)

LEMMA Outcomes ==
  ASSUME NEW r, Sound(r)
  PROVE  /\ Outcome(r) \in {"pending", "success", "error"}
         /\ Outcome(r) = "success" <=> r.done.fired
         /\ Outcome(r) = "error" <=> r.fail.fired
         /\ r.complete.fired => r.done.fired \/ r.fail.fired
<1>1. ~(r.done.fired /\ r.fail.fired)
  BY DEF Sound, Listed, OneEnd, Waiting
<1> QED
  BY <1>1 DEF Sound, OneEnd, Outcome

\* Callbacks run only of the end a call has had, each of them once.
LEMMA HeardOnce ==
  ASSUME NEW r, Sound(r), NEW i \in 1..Len(r.ran)
  PROVE  /\ r.ran[i][1] \in Once!MayHear(Outcome(r))
         /\ \A j \in 1..(i - 1) : r.ran[j] # r.ran[i]
<1>1. r.ran \in Seq(Entry) /\ Len(r.ran) \in Nat /\ Distinct(r.ran)
  BY DEF Sound, Listed, Record
<1>2. r.ran[i] \in Entry
  BY <1>1
<1>3. r.ran[i][1] \in {"done", "fail", "complete"}
  BY <1>2 DEF Entry
<1>4. /\ r.ran[i][1] = "done" => r.done.fired
      /\ r.ran[i][1] = "fail" => r.fail.fired
      /\ r.ran[i][1] = "complete" => r.complete.fired
  BY DEF Sound, Listed, Heard
<1>5. r.ran[i][1] \in Once!MayHear(Outcome(r))
  BY <1>3, <1>4, Outcomes DEF Once!MayHear
<1>6. \A j \in 1..(i - 1) : r.ran[j] # r.ran[i]
  BY <1>1 DEF Distinct
<1> QED
  BY <1>5, <1>6

\* A call ends at most once and for good; its callbacks hear of that end only,
\* each at most once: for every way in which answers, timeouts, aborts,
\* throwing callbacks and callbacks added later meet.
THEOREM OnceImplemented == Spec => OnceSpec
<1> USE DEF Once!vars
<1>1. Init => Once!Init
  BY FreshSound DEF Init, AjaxInit, Once!Init, Outcome
<1>2. IInv /\ IInv' /\ [Next]_vars => [Once!Next]_(Once!vars)
  <2> SUFFICES ASSUME IInv, IInv', [Next]_vars
               PROVE  Once!Next \/ UNCHANGED Once!vars
    OBVIOUS
  <2>1. CASE call' = call
    BY <2>1
  <2>2. ASSUME NEW c \in Call, Moves(c) PROVE Once!Next
    <3> SUFFICES ASSUME NEW d \in Call PROVE Once!End(d) /\ Once!Hear(d)
      BY DEF Once!Next
    <3>1. /\ Sound(call[d]) /\ Sound(call'[d])
      BY DEF IInv, CallsSound
    <3>2. Grows(call[d], call'[d])
      <4>1. CASE d = c
        BY <2>2, <4>1 DEF Moves
      <4>2. CASE d # c
        <5>1. call'[d] = call[d] /\ Len(call[d].ran) \in Nat
          BY <2>2, <3>1, <4>2 DEF Moves, Sound, Record
        <5> QED
          BY <5>1 DEF Grows
      <4> QED
        BY <4>1, <4>2
    <3>3. Once!End(d)
      <4> DEFINE r == call[d]
                 s == call'[d]
      <4>1. /\ Outcome(r) \in {"pending", "success", "error"}
            /\ Outcome(r) = "success" <=> r.done.fired
            /\ Outcome(r) = "error" <=> r.fail.fired
        BY <3>1, Outcomes
      <4>2. /\ Outcome(s) \in {"pending", "success", "error"}
            /\ Outcome(s) = "success" <=> s.done.fired
            /\ Outcome(s) = "error" <=> s.fail.fired
        BY <3>1, Outcomes
      <4>3. /\ r.done.fired => s.done.fired
            /\ r.fail.fired => s.fail.fired
        BY <3>2 DEF Grows
      <4>4. \/ Outcome(s) = Outcome(r)
            \/ Outcome(r) = "pending" /\ Outcome(s) \in {"success", "error"}
        BY <4>1, <4>2, <4>3
      <4> QED
        BY <4>4 DEF Once!End
    <3>4. Once!Hear(d)
      <4>1. /\ Len(call[d].ran) \in Nat /\ Len(call'[d].ran) \in Nat
        BY <3>1 DEF Sound, Record
      <4>2. \A i \in (Len(call[d].ran) + 1)..Len(call'[d].ran) :
              /\ call'[d].ran[i][1] \in Once!MayHear(Outcome(call'[d]))
              /\ \A j \in 1..(i - 1) : call'[d].ran[j] # call'[d].ran[i]
        BY <3>1, <4>1, HeardOnce
      <4> QED
        BY <3>2, <4>2 DEF Grows, Once!Hear
    <3> QED
      BY <3>3, <3>4
  <2>3. CASE UNCHANGED vars
    BY <2>1, <2>3 DEF vars, ajaxVars
  <2>4. CASE Next
    BY <2>1, <2>2, <2>4, NextStep
  <2> QED
    BY <2>3, <2>4
<1> QED
  BY <1>1, <1>2, Inductive, PTL DEF Spec, OnceSpec, Once!Spec
===============================================================================
