------------------------------ MODULE HostProofs ------------------------------
(* Proofs about Host: the affinity that comes back when guards go, and the *)
(* books of the synthetic backend.                                         *)
EXTENDS Host, SumProofs, SequenceTheorems

-----------------------------------------------------------------------------
(* The affinities the system grants a thread of this process. *)
Grantable ==
  {t \in [group: Nat, mask: SUBSET Nat] :
     t.mask # {} /\ \A b \in t.mask : <<t.group, b>> \in machine.allowed}

(* What WindowsCurrent captures of a thread with affinity t. *)
AffinityOf(t) == [g \in {t.group + 1} |-> t.mask]

Guard == [original: {NoAffinity} \cup {AffinityOf(t) : t \in Grantable},
          active: BOOLEAN, movable: BOOLEAN]

(* The outermost guard of s that is still to restore captured b. *)
FirstCaptured(s, b) ==
  \A i \in 1 .. Len(s) :
    Live(s[i]) /\ (\A j \in 1 .. i - 1 : ~Live(s[j])) => s[i].original = AffinityOf(b)

(* Guards nest: whichever of them go before it, the outermost one brings     *)
(* back the affinity given for good.  Over the synthetic backend there are   *)
(* no guards and there is no thread.                                         *)
GuardInv ==
  /\ machine \in Machines \cup {Unused}
  /\ Windows => /\ thread \in Grantable
                /\ base \in Grantable
                /\ scopes \in Seq(Guard)
                /\ FirstCaptured(scopes, base)
  /\ ~Windows => scopes = <<>>
  /\ AffinityRestored

LEMMA CapturedAffinity ==
  ASSUME NEW t
  PROVE  /\ AffinityOf(t) # NoAffinity
         /\ DOMAIN AffinityOf(t) = {t.group + 1}
         /\ AffinityOf(t)[t.group + 1] = t.mask
<1>1. DOMAIN AffinityOf(t) = {t.group + 1} /\ AffinityOf(t)[t.group + 1] = t.mask
  BY DEF AffinityOf
<1>2. DOMAIN NoAffinity = {}
  BY DEF NoAffinity
<1>3. QED
  BY <1>1, <1>2

(* What a guard captured is granted again, whatever group the thread is in   *)
(* by then.                                                                  *)
LEMMA CaptureRestored ==
  ASSUME thread \in Grantable, NEW t \in Grantable
  PROVE  WindowsApplied(AffinityOf(t)) = t
<1> DEFINE set == AffinityOf(t)
<1>0. thread.group \in Nat /\ t.group \in Nat /\ t.mask # {}
  BY DEF Grantable
<1>1. set # NoAffinity /\ DOMAIN set = {t.group + 1} /\ set[t.group + 1] = t.mask
  BY CapturedAffinity
<1>2. t = [group |-> t.group, mask |-> t.mask]
  BY DEF Grantable
<1>3. Target(set) = t
  <2>1. CASE MaskFor(set, thread.group + 1) # {}
    <3>1. thread.group = t.group
      BY <1>0, <1>1, <2>1 DEF MaskFor
    <3>2. QED
      BY <1>1, <1>2, <2>1, <3>1 DEF Target
  <2>2. CASE MaskFor(set, thread.group + 1) = {}
    <3>1. FirstGroup(set) = t.group + 1
      BY <1>0, <1>1 DEF FirstGroup
    <3>2. FirstGroup(set) - 1 = t.group
      BY <3>1, <1>0
    <3>3. QED
      BY <1>1, <1>2, <2>2, <3>1, <3>2, ZenonT(60) DEF Target
  <2>3. QED
    BY <2>1, <2>2
<1>4. SetThreadGroupAffinity(t)
  BY DEF SetThreadGroupAffinity, Grantable
<1>5. QED
  BY <1>1, <1>3, <1>4 DEF WindowsApplied, WindowsApplies

(* Whatever is asked for, the thread ends with an affinity it may have. *)
LEMMA AppliedGrantable ==
  ASSUME thread \in Grantable, machine \in Machines, NEW set
  PROVE  WindowsApplied(set) \in Grantable
<1>1. CASE WindowsApplied(set) = thread
  BY <1>1
<1>2. CASE WindowsApplied(set) = Target(set) /\ SetThreadGroupAffinity(Target(set))
  <2> DEFINE t == Target(set)
  <2>1. PICK g, m : t = [group |-> g, mask |-> m]
    BY DEF Target
  <2>2. m # {} /\ \A b \in m : <<g, b>> \in machine.allowed
    BY <1>2, <2>1 DEF SetThreadGroupAffinity
  <2>3. machine.allowed \subseteq Nat \X Nat
    BY WindowsConstants
  <2>4. g \in Nat /\ m \in SUBSET Nat
    BY <2>2, <2>3
  <2>5. QED
    BY <1>2, <2>1, <2>2, <2>4 DEF Grantable
<1>3. QED
  BY <1>1, <1>2 DEF WindowsApplied, WindowsApplies

LEMMA NothingApplied == WindowsApplied(NoAffinity) = thread
BY DEF WindowsApplied

-----------------------------------------------------------------------------
(* Sequences of guards. *)
Front(s) == SubSeq(s, 1, Len(s) - 1)

InsertAt(s, i, e) == SubSeq(s, 1, i - 1) \o <<e>> \o SubSeq(s, i, Len(s))

LEMMA FrontOf ==
  ASSUME NEW S, NEW s \in Seq(S), s # <<>>
  PROVE  /\ Front(s) \in Seq(S) /\ Len(Front(s)) = Len(s) - 1 /\ Len(s) \in Nat \ {0}
         /\ \A i \in 1 .. Len(s) - 1 : Front(s)[i] = s[i]
<1>1. Len(s) \in Nat /\ Len(s) # 0 /\ \A i \in 1 .. Len(s) : s[i] \in S
  BY EmptySeq, LenProperties, ElementOfSeq
<1>2. PICK n \in Nat : Len(s) = n + 1
  BY <1>1
<1>3. \A i \in 1 .. n : s[i] \in S
  BY <1>1, <1>2
<1>4. SubSeq(s, 1, n) \in Seq(S) /\ Len(SubSeq(s, 1, n)) = n
      /\ \A i \in 1 .. n : SubSeq(s, 1, n)[i] = s[i]
  BY <1>3, SubSeqProperties, SMTT(30)
<1>5. Len(s) - 1 = n /\ Len(s) \in Nat \ {0}
  BY <1>2
<1>6. QED
  BY <1>4, <1>5, Zenon DEF Front

Inserted(t, S, s, i, e) ==
  /\ t \in Seq(S) /\ Len(t) = Len(s) + 1
  /\ \A j \in 1 .. i - 1 : t[j] = s[j]
  /\ t[i] = e
  /\ \A j \in i + 1 .. Len(s) + 1 : t[j] = s[j - 1]

LEMMA InsertedAt ==
  ASSUME NEW S, NEW s \in Seq(S), NEW i \in 1 .. Len(s), NEW e \in S
  PROVE  Inserted(InsertAt(s, i, e), S, s, i, e)
<1> DEFINE a == SubSeq(s, 1, i - 1)
           b == a \o <<e>>
           c == SubSeq(s, i, Len(s))
<1>1. a \in Seq(S) /\ Len(a) = i - 1 /\ \A j \in 1 .. i - 1 : a[j] = s[j]
  OBVIOUS
<1>2. c \in Seq(S) /\ Len(c) = Len(s) - i + 1 /\ \A j \in 1 .. Len(s) - i + 1 : c[j] = s[i + j - 1]
  OBVIOUS
<1> HIDE DEF a, c
<1>3. b \in Seq(S) /\ Len(b) = i /\ b[i] = e /\ \A j \in 1 .. i - 1 : b[j] = s[j]
  BY <1>1, SMTT(30)
<1> HIDE DEF b
<1>4. /\ b \o c \in Seq(S) /\ Len(b \o c) = Len(s) + 1
      /\ \A j \in 1 .. i : (b \o c)[j] = b[j]
      /\ \A j \in i + 1 .. Len(s) + 1 : (b \o c)[j] = c[j - i]
  <2>1. /\ b \o c \in Seq(S) /\ Len(b \o c) = Len(b) + Len(c)
        /\ \A j \in 1 .. Len(b) + Len(c) :
             (b \o c)[j] = IF j <= Len(b) THEN b[j] ELSE c[j - Len(b)]
    BY <1>2, <1>3, ConcatProperties, ZenonT(60)
  <2>2. Len(s) \in Nat /\ Len(b) = i /\ Len(b) + Len(c) = Len(s) + 1
    BY <1>2, <1>3, LenProperties
  <2>3. /\ \A j \in 1 .. i : j \in 1 .. Len(s) + 1 /\ j <= i
        /\ \A j \in i + 1 .. Len(s) + 1 : j \in 1 .. Len(s) + 1 /\ ~(j <= i)
    BY <2>2
  <2>4. QED
    BY <2>1, <2>2, <2>3, Zenon
<1>5. InsertAt(s, i, e) = b \o c
  BY DEF InsertAt, a, b, c
<1>6. Inserted(b \o c, S, s, i, e)
  BY <1>2, <1>3, <1>4 DEF Inserted
<1>7. QED
  BY <1>5, <1>6, Zenon

LEMMA CaptureKept ==
  ASSUME NEW s \in Seq(Guard), NEW b, FirstCaptured(s, b), NEW e \in Guard,
         Live(e) => e.original = AffinityOf(b) \/ \E i \in 1 .. Len(s) : Live(s[i])
  PROVE  FirstCaptured(Append(s, e), b)
<1> DEFINE t == Append(s, e)
<1>1. /\ Len(s) \in Nat /\ Len(t) = Len(s) + 1 /\ t[Len(s) + 1] = e
      /\ \A i \in 1 .. Len(s) : t[i] = s[i]
  BY AppendProperties, LenProperties
<1> HIDE DEF t
<1>2. SUFFICES ASSUME NEW i \in 1 .. Len(t), Live(t[i]), \A j \in 1 .. i - 1 : ~Live(t[j])
               PROVE  t[i].original = AffinityOf(b)
  BY Zenon DEF FirstCaptured, t
<1>3. CASE i \in 1 .. Len(s)
  <2>1. \A j \in 1 .. i - 1 : j \in 1 .. Len(s)
    BY <1>1, <1>3
  <2>2. Live(s[i]) /\ \A j \in 1 .. i - 1 : ~Live(s[j])
    BY <1>1, <1>2, <1>3, <2>1, Zenon
  <2>3. QED
    BY <1>1, <1>3, <2>2, Zenon DEF FirstCaptured
<1>4. CASE i = Len(s) + 1
  <2>1. \A j \in 1 .. Len(s) : j \in 1 .. i - 1
    BY <1>1, <1>4
  <2>2. \A j \in 1 .. Len(s) : ~Live(s[j])
    BY <1>1, <1>2, <2>1, Zenon
  <2>3. QED
    BY <1>1, <1>2, <1>4, <2>2, Zenon
<1>5. QED
  BY <1>1, <1>3, <1>4

(* t is s with element i twice in a row, the second time as e. *)
Twice(t, S, s, i, e) ==
  /\ t \in Seq(S) /\ Len(t) = Len(s) + 1
  /\ \A j \in 1 .. i : t[j] = s[j]
  /\ t[i + 1] = e
  /\ \A j \in i + 2 .. Len(s) + 1 : t[j] = s[j - 1]

LEMMA Doubled ==
  ASSUME NEW S, NEW s \in Seq(S), NEW i \in 1 .. Len(s), NEW e \in S
  PROVE  Twice(InsertAt([s EXCEPT ![i] = e], i, s[i]), S, s, i, e)
<1>1. PICK n \in Nat : n = Len(s)
  BY LenProperties
<1>2. PICK r : r = [s EXCEPT ![i] = e]
  OBVIOUS
<1>3. /\ r \in Seq(S) /\ Len(r) = n /\ r[i] = e
      /\ \A j \in 1 .. n : j # i => r[j] = s[j]
  BY <1>1, <1>2, ExceptSeq
<1>4. i \in 1 .. Len(r) /\ s[i] \in S
  BY <1>1, <1>3, ElementOfSeq
<1>5. Inserted(InsertAt(r, i, s[i]), S, r, i, s[i])
  BY <1>3, <1>4, InsertedAt, Zenon
<1>6. PICK t : /\ t = InsertAt(r, i, s[i]) /\ t \in Seq(S) /\ Len(t) = n + 1
               /\ \A j \in 1 .. i - 1 : t[j] = r[j]
               /\ t[i] = s[i]
               /\ \A j \in i + 1 .. n + 1 : t[j] = r[j - 1]
  BY <1>3, <1>5, Zenon DEF Inserted
<1>7. /\ \A j \in 1 .. i : j = i \/ (j \in 1 .. i - 1 /\ j \in 1 .. n /\ j # i)
      /\ i + 1 \in i + 1 .. n + 1 /\ (i + 1) - 1 = i
      /\ \A j \in i + 2 .. n + 1 : j \in i + 1 .. n + 1 /\ j - 1 \in 1 .. n /\ j - 1 # i
  BY <1>1
<1>8. \A j \in 1 .. i : t[j] = s[j]
  BY <1>3, <1>6, <1>7, Zenon
<1>9. t[i + 1] = e
  BY <1>3, <1>6, <1>7, Zenon
<1>10. \A j \in i + 2 .. n + 1 : t[j] = s[j - 1]
  BY <1>3, <1>6, <1>7, Zenon
<1>11. Twice(t, S, s, i, e)
  BY <1>1, <1>6, <1>8, <1>9, <1>10, ZenonT(60) DEF Twice
<1>12. QED
  BY <1>2, <1>6, <1>11, Zenon

(* The object that takes a guard over is as the guard was, and the one left  *)
(* behind restores nothing.                                                  *)
LEMMA CaptureMoved ==
  ASSUME NEW s \in Seq(Guard), NEW b, FirstCaptured(s, b), NEW i \in 1 .. Len(s),
         NEW left, ~Live(left), NEW t, Twice(t, Guard, s, i, left)
  PROVE  /\ FirstCaptured(t, b)
         /\ (\A j \in 1 .. Len(t) : ~Live(t[j])) => \A j \in 1 .. Len(s) : ~Live(s[j])
<1>1. Len(s) \in Nat
  BY LenProperties
<1>2. ~Live(left)
  OBVIOUS
<1>3. Len(t) = Len(s) + 1
  BY Zenon DEF Twice
<1>4. /\ \A j \in 1 .. i : t[j] = s[j]
      /\ t[i + 1] = left
      /\ \A j \in i + 2 .. Len(t) : t[j] = s[j - 1]
  BY <1>3, Zenon DEF Twice
<1>5. FirstCaptured(t, b)
  <2>1. SUFFICES ASSUME NEW k \in 1 .. Len(t), Live(t[k]), \A j \in 1 .. k - 1 : ~Live(t[j])
                 PROVE  t[k].original = AffinityOf(b)
    BY Zenon DEF FirstCaptured
  <2>2. CASE k \in 1 .. i
    <3>1. k \in 1 .. Len(s) /\ \A j \in 1 .. k - 1 : j \in 1 .. i
      BY <1>1, <2>2
    <3>2. Live(s[k]) /\ \A j \in 1 .. k - 1 : ~Live(s[j])
      BY <1>4, <2>1, <2>2, <3>1, Zenon
    <3>3. QED
      BY <1>4, <2>2, <3>1, <3>2, Zenon DEF FirstCaptured
  <2>3. CASE k = i + 1
    BY <1>2, <1>4, <2>1, <2>3, Zenon
  <2>4. CASE k \in i + 2 .. Len(t)
    <3>1. /\ k - 1 \in 1 .. Len(s)
          /\ \A j \in 1 .. k - 2 : j \in 1 .. i \/ (j + 1 \in i + 2 .. Len(t) /\ (j + 1) - 1 = j)
          /\ \A j \in 1 .. k - 2 : j \in 1 .. k - 1 /\ j + 1 \in 1 .. k - 1
          /\ (k - 1) - 1 = k - 2
      BY <1>1, <1>3, <2>4
    <3>2. \A j \in 1 .. k - 2 : s[j] = t[j] \/ s[j] = t[j + 1]
      BY <1>4, <3>1
    <3>3. Live(s[k - 1]) /\ \A j \in 1 .. k - 2 : ~Live(s[j])
      BY <1>4, <2>1, <2>4, <3>1, <3>2, ZenonT(60)
    <3>4. s[k - 1].original = AffinityOf(b)
      BY <3>1, <3>3, Zenon DEF FirstCaptured
    <3>5. QED
      BY <1>4, <2>4, <3>4, Zenon
  <2>5. QED
    BY <1>1, <1>3, <2>2, <2>3, <2>4
<1>6. ASSUME \A j \in 1 .. Len(t) : ~Live(t[j]), NEW j \in 1 .. Len(s)
      PROVE  ~Live(s[j])
  <2>1. CASE j \in 1 .. i
    <3>1. j \in 1 .. Len(t)
      BY <1>1, <1>3, <2>1
    <3>2. QED
      BY <1>4, <1>6, <2>1, <3>1, Zenon
  <2>2. CASE j \in i + 1 .. Len(s)
    <3>1. j + 1 \in 1 .. Len(t) /\ j + 1 \in i + 2 .. Len(t) /\ (j + 1) - 1 = j
      BY <1>1, <1>3, <2>2
    <3>2. t[j + 1] = s[j]
      BY <1>4, <3>1
    <3>3. QED
      BY <1>6, <3>1, <3>2, ZenonT(60)
  <2>3. QED
    BY <1>1, <2>1, <2>2
<1>7. QED
  BY <1>3, <1>5, <1>6, Zenon

-----------------------------------------------------------------------------
(* The steps. *)
LEMMA GuardsStart == HostInit => GuardInv
<1> SUFFICES ASSUME HostInit PROVE GuardInv
  OBVIOUS
<1>1. scopes = <<>> /\ base = thread
  BY DEF HostInit
<1>2. CASE WindowsInit
  <2>1. machine \in Machines /\ machine.allowed \subseteq Nat \X Nat
    BY <1>2, WindowsConstants, ZenonT(60) DEF WindowsInit
  <2>2. PICK x \in machine.allowed :
          thread = [group |-> x[1], mask |-> {y[2] : y \in {z \in machine.allowed : z[1] = x[1]}}]
    BY <1>2 DEF WindowsInit
  <2>3. thread.group \in Nat /\ thread.mask \in SUBSET Nat /\ x[2] \in thread.mask
    BY <2>1, <2>2
  <2>4. ASSUME NEW b \in thread.mask PROVE <<thread.group, b>> \in machine.allowed
    <3>1. PICK y \in machine.allowed : y[1] = x[1] /\ b = y[2]
      BY <2>2
    <3>2. y = <<y[1], y[2]>>
      BY <2>1
    <3>3. QED
      BY <2>2, <3>1, <3>2
  <2>5. thread \in Grantable
    BY <2>2, <2>3, <2>4 DEF Grantable
  <2>6. scopes \in Seq(Guard) /\ FirstCaptured(scopes, base)
    BY <1>1 DEF FirstCaptured
  <2>7. Windows
    BY <2>1, HostConstants DEF Windows
  <2>8. QED
    BY <1>1, <2>1, <2>5, <2>6, <2>7, ZenonT(60) DEF GuardInv, AffinityRestored
<1>3. CASE machine = Unused
  BY <1>1, <1>3, Zenon DEF GuardInv, AffinityRestored, Windows
<1>4. QED
  BY <1>2, <1>3, ZenonT(60) DEF HostInit

(* Nothing of what GuardInv speaks about changes. *)
LEMMA GuardsAlone ==
  ASSUME GuardInv, UNCHANGED <<machine, thread, scopes, base>>
  PROVE  GuardInv'
BY SMTT(30) DEF GuardInv, AffinityRestored, NoneLive, Live, FirstCaptured, Guard, Grantable, AffinityOf,
       NoAffinity, Windows

LEMMA BindKeepsGuards ==
  ASSUME GuardInv, NEW node, NEW apply, BindWorker(node, apply)
  PROVE  GuardInv'
<1> DEFINE set == IF apply THEN NodeAffinity(topo, node) ELSE NoAffinity
<1>1. /\ thread' = IF Windows THEN WindowsApplied(set) ELSE thread
      /\ machine' = machine /\ scopes' = scopes
      /\ base' = IF NoneLive THEN thread' ELSE base
  BY Zenon DEF BindWorker, Apply
<1> HIDE DEF set
<1>2. CASE ~Windows
  <2>1. NoneLive
    BY <1>2 DEF GuardInv, NoneLive
  <2>2. thread' = thread /\ base' = base
    BY <1>1, <1>2, <2>1, ZenonT(60) DEF GuardInv, AffinityRestored
  <2>3. QED
    BY <1>1, <2>2, GuardsAlone
<1>3. CASE Windows
  <2>1. machine \in Machines /\ thread \in Grantable /\ base \in Grantable
    BY <1>3 DEF GuardInv, Windows
  <2>2. thread' \in Grantable
    BY <1>1, <1>3, <2>1, AppliedGrantable, ZenonT(60)
  <2>3. Grantable' = Grantable /\ Guard' = Guard /\ Windows'
    BY <1>1, <1>3, ZenonT(60) DEF Grantable, Guard, AffinityOf, NoAffinity, Windows
  <2>4. thread' \in Grantable' /\ base' \in Grantable' /\ scopes' \in Seq(Guard')
    BY <1>1, <1>3, <2>1, <2>2, <2>3, ZenonT(60) DEF GuardInv
  <2>5. NoneLive' <=> NoneLive
    BY <1>1 DEF NoneLive, Live, NoAffinity
  <2>6. CASE NoneLive
    <3>1. base' = thread'
      BY <1>1, <2>6, ZenonT(60)
    <3>2. FirstCaptured(scopes', base')
      BY <1>1, <2>6, <1>3 DEF FirstCaptured, NoneLive, GuardInv
    <3>3. QED
      BY <1>1, <2>1, <2>3, <2>4, <3>1, <3>2, ZenonT(60) DEF GuardInv, AffinityRestored
  <2>7. CASE ~NoneLive
    <3>1. FirstCaptured(scopes', base')
      BY <1>1, <1>3, <2>7, Zenon DEF GuardInv
    <3>2. QED
      BY <1>1, <2>1, <2>3, <2>4, <2>5, <2>7, <3>1, ZenonT(60) DEF GuardInv, AffinityRestored
  <2>8. QED
    BY <2>6, <2>7
<1>4. QED
  BY <1>2, <1>3
(* While there are guards the backend is the one that moves threads. *)
LEMMA GuardFacts ==
  ASSUME GuardInv, Windows
  PROVE  /\ machine \in Machines /\ thread \in Grantable /\ base \in Grantable
         /\ scopes \in Seq(Guard) /\ FirstCaptured(scopes, base)
         /\ DOMAIN scopes = 1 .. Len(scopes) /\ Len(scopes) \in Nat
         /\ (\A i \in 1 .. Len(scopes) : ~Live(scopes[i])) => thread = base
<1>1. /\ machine \in Machines /\ thread \in Grantable /\ base \in Grantable
      /\ scopes \in Seq(Guard) /\ FirstCaptured(scopes, base)
  BY Zenon DEF GuardInv, Windows
<1>2. DOMAIN scopes = 1 .. Len(scopes) /\ Len(scopes) \in Nat
  BY <1>1, LenProperties, ZenonT(60)
<1>3. QED
  BY <1>1, <1>2, Zenon DEF GuardInv, AffinityRestored, NoneLive

(* What a step of the guards has to show. *)
LEMMA GuardStep ==
  ASSUME GuardInv, Windows, UNCHANGED <<machine, base>>,
         thread' \in Grantable, scopes' \in Seq(Guard), FirstCaptured(scopes', base),
         (\A i \in 1 .. Len(scopes') : ~Live(scopes'[i])) => thread' = base
  PROVE  GuardInv'
<1>1. Grantable' = Grantable /\ Guard' = Guard /\ Windows' /\ base \in Grantable
  BY GuardFacts DEF Grantable, Guard, AffinityOf, NoAffinity, Windows
<1>2. DOMAIN scopes' = 1 .. Len(scopes')
  BY LenProperties, ZenonT(60)
<1>3. NoneLive' => \A i \in 1 .. Len(scopes') : ~Live(scopes'[i])
  BY <1>2 DEF NoneLive, Live, NoAffinity
<1>4. AffinityRestored'
  BY <1>3, Zenon DEF AffinityRestored
<1>5. FirstCaptured(scopes, base)' <=> FirstCaptured(scopes', base)
  BY DEF FirstCaptured, Live, AffinityOf, NoAffinity
<1>6. machine' \in Machines \cup {Unused}
  BY DEF GuardInv
<1>7. QED
  BY <1>1, <1>4, <1>5, <1>6, ZenonT(60) DEF GuardInv

(* Going from guard g, the thread has what g captured, or what it had. *)
LEMMA GuardGoes ==
  ASSUME thread \in Grantable, NEW g \in Guard
  PROVE  /\ Live(g) => /\ WindowsApplied(g.original) \in Grantable
                       /\ AffinityOf(WindowsApplied(g.original)) = g.original
                       /\ \A b \in Grantable : g.original = AffinityOf(b)
                            => WindowsApplied(g.original) = b
         /\ ~Live(g) => WindowsApplied(IF g.active THEN g.original ELSE NoAffinity) = thread
<1>1. CASE Live(g)
  <2>1. PICK t \in Grantable : g.original = AffinityOf(t)
    BY <1>1 DEF Live, Guard
  <2>2. WindowsApplied(g.original) = t
    BY <2>1, CaptureRestored, ZenonT(60)
  <2>3. \A b \in Grantable : g.original = AffinityOf(b) => WindowsApplied(g.original) = b
    BY CaptureRestored
  <2>4. QED
    BY <1>1, <2>1, <2>2, <2>3, Zenon
<1>2. CASE ~Live(g)
  BY <1>2, NothingApplied, ZenonT(60) DEF Live
<1>3. QED
  BY <1>1, <1>2, ZenonT(60)

LEMMA OpenKeepsGuards ==
  ASSUME GuardInv, NEW node, NEW movable \in BOOLEAN, OpenScope(node, movable)
  PROVE  GuardInv'
<1> DEFINE set == NodeAffinity(topo, node)
           e == [original |-> WindowsCurrent, active |-> Applies(set), movable |-> movable]
<1>1. /\ Windows /\ thread' = WindowsApplied(set) /\ machine' = machine /\ base' = base
      /\ scopes' = IF Applies(set) \/ ~movable THEN Append(scopes, e) ELSE scopes
      /\ Applies(set) <=> WindowsApplies(set)
      /\ Applies(set) \in BOOLEAN
  BY Zenon DEF OpenScope, Apply, Applies, WindowsApplies, SetThreadGroupAffinity
<1> HIDE DEF set
<1>2. /\ machine \in Machines /\ thread \in Grantable /\ scopes \in Seq(Guard)
      /\ Len(scopes) \in Nat /\ FirstCaptured(scopes, base)
      /\ (\A i \in 1 .. Len(scopes) : ~Live(scopes[i])) => thread = base
  BY <1>1, GuardFacts, Zenon
<1>3. thread' \in Grantable
  BY <1>1, <1>2, AppliedGrantable, ZenonT(60)
<1>4. ~Applies(set) => thread' = thread
  BY <1>1 DEF WindowsApplied
<1>5. e \in Guard /\ e.original = AffinityOf(thread) /\ e.active = Applies(set)
  BY <1>1, <1>2, Zenon DEF Guard, WindowsCurrent, AffinityOf
<1>6. e.original # NoAffinity
  BY <1>5, CapturedAffinity
<1>7. Live(e) <=> Applies(set)
  BY <1>5, <1>6 DEF Live
<1> HIDE DEF e
<1>8. CASE scopes' = Append(scopes, e)
  <2>1. Live(e) => e.original = AffinityOf(base) \/ \E i \in 1 .. Len(scopes) : Live(scopes[i])
    BY <1>2, <1>5, Zenon
  <2>2. FirstCaptured(scopes', base)
    BY <1>2, <1>5, <1>8, <2>1, CaptureKept, ZenonT(60)
  <2>3. /\ scopes' \in Seq(Guard) /\ Len(scopes') = Len(scopes) + 1
        /\ scopes'[Len(scopes) + 1] = e
        /\ \A i \in 1 .. Len(scopes) : scopes'[i] = scopes[i]
    BY <1>2, <1>5, <1>8, AppendProperties
  <2>4. ASSUME \A i \in 1 .. Len(scopes') : ~Live(scopes'[i]) PROVE thread' = base
    <3>1. Len(scopes) + 1 \in 1 .. Len(scopes')
          /\ \A i \in 1 .. Len(scopes) : i \in 1 .. Len(scopes')
      BY <1>2, <2>3
    <3>2. ~Live(e) /\ \A i \in 1 .. Len(scopes) : ~Live(scopes[i])
      BY <2>3, <2>4, <3>1, ZenonT(60)
    <3>3. QED
      BY <1>2, <1>4, <1>7, <3>2, ZenonT(60)
  <2>5. QED
    BY <1>1, <1>3, <2>2, <2>3, <2>4, GuardStep
<1>9. CASE scopes' = scopes /\ ~Applies(set)
  BY <1>1, <1>4, <1>9, GuardsAlone, ZenonT(60)
<1>10. QED
  BY <1>1, <1>8, <1>9, ZenonT(60)

LEMMA CloseKeepsGuards ==
  ASSUME GuardInv, CloseScope
  PROVE  GuardInv'
<1>1. Windows
  BY DEF GuardInv, CloseScope
<1> DEFINE n == Len(scopes)
           g == scopes[n]
<1>2. /\ machine \in Machines /\ thread \in Grantable /\ base \in Grantable
      /\ scopes \in Seq(Guard) /\ FirstCaptured(scopes, base)
      /\ (\A i \in 1 .. n : ~Live(scopes[i])) => thread = base
  BY <1>1, GuardFacts, Zenon
<1>3. /\ scopes # <<>> /\ scopes' = Front(scopes) /\ machine' = machine /\ base' = base
      /\ thread' = WindowsApplied(IF g.active THEN g.original ELSE NoAffinity)
  BY <1>1, Zenon DEF CloseScope, Apply, Front
<1>4. /\ scopes' \in Seq(Guard) /\ Len(scopes') = n - 1 /\ n \in Nat \ {0}
      /\ \A i \in 1 .. n - 1 : scopes'[i] = scopes[i]
  BY <1>2, <1>3, FrontOf, Zenon
<1>5. g \in Guard
  BY <1>2, <1>4, ElementOfSeq
<1> HIDE DEF n, g
<1>6. FirstCaptured(scopes', base)
  <2>1. SUFFICES ASSUME NEW i \in 1 .. Len(scopes'), Live(scopes'[i]),
                        \A j \in 1 .. i - 1 : ~Live(scopes'[j])
                 PROVE  scopes'[i].original = AffinityOf(base)
    BY Zenon DEF FirstCaptured
  <2>2. i \in 1 .. n /\ i \in 1 .. n - 1 /\ \A j \in 1 .. i - 1 : j \in 1 .. n - 1
    BY <1>4
  <2>3. Live(scopes[i]) /\ (\A j \in 1 .. i - 1 : ~Live(scopes[j])) /\ scopes'[i] = scopes[i]
    BY <1>4, <2>1, <2>2, Zenon
  <2>4. QED
    BY <1>2, <2>2, <2>3, Zenon DEF FirstCaptured, n
<1>7. thread' \in Grantable
  BY <1>2, <1>3, AppliedGrantable, ZenonT(60)
<1>8. ASSUME \A i \in 1 .. Len(scopes') : ~Live(scopes'[i]) PROVE thread' = base
  <2>1. \A i \in 1 .. n - 1 : ~Live(scopes[i])
    BY <1>4, <1>8, Zenon
  <2>2. CASE Live(g)
    <3>1. n \in 1 .. n
      BY <1>4
    <3>2. g.original = AffinityOf(base) /\ g.active
      BY <1>2, <2>1, <2>2, <3>1, ZenonT(60) DEF FirstCaptured, Live, g, n
    <3>3. QED
      BY <1>2, <1>3, <1>5, <2>2, <3>2, GuardGoes, ZenonT(60)
  <2>3. CASE ~Live(g)
    <3>1. \A i \in 1 .. n : i \in 1 .. n - 1 \/ i = n
      BY <1>4
    <3>2. thread = base
      BY <1>2, <2>1, <2>3, <3>1, ZenonT(60) DEF g
    <3>3. QED
      BY <1>2, <1>3, <1>5, <2>3, <3>2, GuardGoes, ZenonT(60)
  <2>4. QED
    BY <2>2, <2>3, ZenonT(60)
<1>9. QED
  BY <1>1, <1>3, <1>4, <1>6, <1>7, <1>8, GuardStep, ZenonT(60)

LEMMA MoveKeepsGuards ==
  ASSUME GuardInv, NEW i \in DOMAIN scopes, MoveScope(i)
  PROVE  GuardInv'
<1>1. Windows
  <2>1. ASSUME scopes = <<>> PROVE FALSE
    BY <2>1
  <2>2. QED
    BY <2>1 DEF GuardInv
<1>2. /\ thread \in Grantable /\ scopes \in Seq(Guard) /\ FirstCaptured(scopes, base)
      /\ i \in 1 .. Len(scopes)
      /\ (\A j \in 1 .. Len(scopes) : ~Live(scopes[j])) => thread = base
  BY <1>1, GuardFacts, Zenon
<1> DEFINE left == [scopes[i] EXCEPT !.original = NoAffinity]
<1>3. /\ UNCHANGED <<machine, thread, base>>
      /\ scopes' = InsertAt([scopes EXCEPT ![i] = left], i, scopes[i])
  BY DEF MoveScope, Quiet, windowsVars, InsertAt
<1>4. scopes[i] \in Guard
  BY <1>2, ElementOfSeq, Zenon
<1>5. left \in Guard /\ left.original = NoAffinity
  BY <1>4, Zenon DEF Guard
<1>6. ~Live(left)
  BY <1>5, Zenon DEF Live
<1> HIDE DEF left
<1>7. Twice(scopes', Guard, scopes, i, left)
  BY <1>2, <1>3, <1>5, Doubled, ZenonT(60)
<1>8. /\ FirstCaptured(scopes', base)
      /\ (\A j \in 1 .. Len(scopes') : ~Live(scopes'[j]))
           => \A j \in 1 .. Len(scopes) : ~Live(scopes[j])
  BY <1>2, <1>6, <1>7, CaptureMoved, ZenonT(60)
<1>9. scopes' \in Seq(Guard)
  BY <1>7, Zenon DEF Twice
<1>10. QED
  BY <1>1, <1>2, <1>3, <1>8, <1>9, GuardStep

LEMMA RestoreKeepsGuards ==
  ASSUME GuardInv, NEW i \in DOMAIN scopes, RestoreNow(i)
  PROVE  GuardInv'
<1>1. Windows
  <2>1. ASSUME scopes = <<>> PROVE FALSE
    BY <2>1
  <2>2. QED
    BY <2>1 DEF GuardInv
<1> DEFINE g == scopes[i]
           spent == [g EXCEPT !.active = FALSE]
<1>2. /\ machine \in Machines /\ thread \in Grantable /\ base \in Grantable
      /\ scopes \in Seq(Guard) /\ FirstCaptured(scopes, base)
      /\ i \in 1 .. Len(scopes) /\ Len(scopes) \in Nat
      /\ (\A j \in 1 .. Len(scopes) : ~Live(scopes[j])) => thread = base
  BY <1>1, GuardFacts, Zenon
<1>3. /\ machine' = machine /\ base' = base /\ g.active
      /\ scopes' = [scopes EXCEPT ![i] = spent]
      /\ thread' = WindowsApplied(g.original)
      /\ \A j \in i + 1 .. Len(scopes) : ~Live(scopes[j])
  BY <1>1 DEF RestoreNow, Apply
<1>4. g \in Guard
  BY <1>2, ElementOfSeq, Zenon
<1>5. spent \in Guard /\ ~spent.active
  BY <1>4, Zenon DEF Guard
<1>6. ~Live(spent)
  BY <1>5, Zenon DEF Live
<1> HIDE DEF g, spent
<1>7. /\ scopes' \in Seq(Guard) /\ Len(scopes') = Len(scopes) /\ scopes'[i] = spent
      /\ \A j \in 1 .. Len(scopes) : j # i => scopes'[j] = scopes[j]
  BY <1>2, <1>3, <1>5, ExceptSeq
<1>8. FirstCaptured(scopes', base)
  <2>1. SUFFICES ASSUME NEW k \in 1 .. Len(scopes'), Live(scopes'[k]),
                        \A j \in 1 .. k - 1 : ~Live(scopes'[j])
                 PROVE  scopes'[k].original = AffinityOf(base)
    BY Zenon DEF FirstCaptured
  <2>2. k \in 1 .. Len(scopes) /\ k # i /\ scopes'[k] = scopes[k]
    BY <1>6, <1>7, <2>1, Zenon
  <2>3. ~(k \in i + 1 .. Len(scopes))
    BY <1>3, <2>1, <2>2, ZenonT(60)
  <2>4. \A j \in 1 .. k - 1 : j \in 1 .. Len(scopes) /\ j # i
    BY <1>2, <2>2, <2>3
  <2>5. \A j \in 1 .. k - 1 : ~Live(scopes[j])
    BY <1>7, <2>1, <2>4, Zenon
  <2>6. QED
    BY <1>2, <2>1, <2>2, <2>5, Zenon DEF FirstCaptured
<1>9. thread' \in Grantable
  BY <1>2, <1>3, AppliedGrantable, ZenonT(60)
<1>10. ASSUME \A j \in 1 .. Len(scopes') : ~Live(scopes'[j]) PROVE thread' = base
  <2>1. \A j \in 1 .. Len(scopes) : j # i => ~Live(scopes[j])
    BY <1>7, <1>10, Zenon
  <2>2. CASE Live(g)
    <3>1. \A j \in 1 .. i - 1 : j \in 1 .. Len(scopes) /\ j # i
      BY <1>2
    <3>2. g.original = AffinityOf(base)
      BY <1>2, <2>1, <2>2, <3>1, Zenon DEF FirstCaptured, g
    <3>3. QED
      BY <1>2, <1>3, <1>4, <2>2, <3>2, GuardGoes, ZenonT(60)
  <2>3. CASE ~Live(g)
    <3>1. thread = base
      BY <1>2, <2>1, <2>3, Zenon DEF g
    <3>2. WindowsApplied(g.original) = thread
      BY <1>2, <1>3, <1>4, <2>3, GuardGoes, ZenonT(60)
    <3>3. QED
      BY <1>3, <3>1, <3>2, ZenonT(60)
  <2>4. QED
    BY <2>2, <2>3
<1>11. QED
  BY <1>1, <1>3, <1>7, <1>8, <1>9, <1>10, GuardStep, ZenonT(60)

LEMMA GuardsInductive ==
  ASSUME GuardInv, [HostNext]_hostVars
  PROVE  GuardInv'
<1>1. CASE UNCHANGED hostVars
  BY <1>1, GuardsAlone, ZenonT(60) DEF hostVars, windowsVars, runtimeVars
<1>2. CASE Discover
  BY <1>2, GuardsAlone, ZenonT(60) DEF Discover
<1>3. ASSUME NEW node \in AnyNode, NEW apply \in BOOLEAN, BindWorker(node, apply)
      PROVE  GuardInv'
  BY <1>3, BindKeepsGuards, ZenonT(60)
<1>4. CASE ScopeStep
  <2>1. ASSUME NEW node \in AnyNode, NEW movable \in BOOLEAN, OpenScope(node, movable)
        PROVE  GuardInv'
    BY <2>1, OpenKeepsGuards, ZenonT(60)
  <2>2. ASSUME NEW i \in DOMAIN scopes, MoveScope(i) \/ RestoreNow(i)
        PROVE  GuardInv'
    BY <2>2, MoveKeepsGuards, RestoreKeepsGuards, ZenonT(60)
  <2>3. QED
    BY <1>4, <2>1, <2>2, CloseKeepsGuards, ZenonT(60) DEF ScopeStep
<1>5. CASE UNCHANGED <<windowsVars, topo, worker, scopes, base>>
  BY <1>5, GuardsAlone, ZenonT(60) DEF windowsVars
<1>6. QED
  BY <1>1, <1>2, <1>3, <1>4, <1>5, ZenonT(60) DEF HostNext

(* A thread gets its affinity back: when the guards that moved it are gone,  *)
(* in whatever way they nested, moved, restored early or were refused, it    *)
(* has what it was last given for good.                                      *)
THEOREM HostAffinityRestored == HostSpec => []AffinityRestored
<1>1. HostInit => GuardInv
  BY GuardsStart
<1>2. GuardInv /\ [HostNext]_hostVars => GuardInv'
  BY GuardsInductive
<1>3. GuardInv => AffinityRestored
  BY DEF GuardInv
<1> QED
  BY <1>1, <1>2, <1>3, PTL DEF HostSpec

-----------------------------------------------------------------------------
(* The books of the synthetic backend.  Only grants are counted on a node no *)
(* interleaved allocation has touched, and every one of them by its node.    *)
GrantBytes == [i \in DOMAIN grants |-> grants[i].bytes]

RegionsOn(n) == {i \in DOMAIN regionNode : regionNode[i] = n}

SyntheticInv ==
  /\ machine \in Machines \cup {Unused}
  /\ ~Windows =>
       /\ config \in Configs
       /\ DOMAIN used = SyntheticId(config) /\ used = [n \in DOMAIN used |-> used[n]]
       /\ grants \in Seq([bytes: Nat, node: Nat, spread: SUBSET Nat])
       /\ DOMAIN regionNode \subseteq 1 .. Len(grants)
       /\ \A n \in SyntheticId(config) \ Interleaved :
            used[n] = Booked(n) /\ used[n] <= CapacityFor(n)

LEMMA CapacityTyped ==
  ASSUME config \in Configs, NEW n
  PROVE  /\ CapacityFor(n) \in 0 .. ByteWord - 1 /\ ByteWord \in Nat \ {0}
         /\ config.nodes \in Nat \ {0} /\ config.local \in 0 .. config.nodes
<1>1. /\ ByteWord \in Nat /\ DefaultCapacity \in 0 .. ByteWord - 1
      /\ config.nodes \in Nat \ {0} /\ config.local \in 0 .. config.nodes
      /\ \A m \in DOMAIN config.capacities : config.capacities[m] \in 0 .. ByteWord - 1
  BY SyntheticConstants, Zenon
<1>2. CapacityFor(n) \in 0 .. ByteWord - 1
  BY <1>1, Zenon DEF CapacityFor
<1>3. QED
  BY <1>1, <1>2

LEMMA BookedTyped ==
  ASSUME grants \in Seq([bytes: Nat, node: Nat, spread: SUBSET Nat]),
         DOMAIN regionNode \subseteq 1 .. Len(grants), NEW n
  PROVE  /\ IsFiniteSet(RegionsOn(n))
         /\ \A i \in RegionsOn(n) : GrantBytes[i] \in Nat /\ GrantBytes[i] = grants[i].bytes
         /\ \A i \in RegionsOn(n) : i \in 1 .. Len(grants)
         /\ Booked(n) = SumFunctionOnSet(GrantBytes, RegionsOn(n))
         /\ Booked(n) \in Nat
<1>1. Len(grants) \in Nat /\ DOMAIN grants = 1 .. Len(grants)
  BY LenProperties
<1>2. \A i \in RegionsOn(n) : i \in 1 .. Len(grants)
  BY DEF RegionsOn
<1>3. IsFiniteSet(1 .. Len(grants))
  BY <1>1, FS_Interval
<1>4. IsFiniteSet(RegionsOn(n))
  BY <1>2, <1>3, FS_Subset, ZenonT(60)
<1>5. ASSUME NEW i \in 1 .. Len(grants)
      PROVE  GrantBytes[i] \in Nat /\ GrantBytes[i] = grants[i].bytes
  <2>1. grants[i] \in [bytes: Nat, node: Nat, spread: SUBSET Nat]
    BY ElementOfSeq, Zenon
  <2>2. QED
    BY <1>1, <2>1 DEF GrantBytes
<1>6. Booked(n) = SumFunctionOnSet(GrantBytes, RegionsOn(n))
  BY Zenon DEF Booked, GrantBytes, RegionsOn
<1>7. \A i \in RegionsOn(n) : GrantBytes[i] \in Nat /\ GrantBytes[i] = grants[i].bytes
  BY <1>2, <1>5, Zenon
<1>8. SumFunctionOnSet(GrantBytes, RegionsOn(n)) \in Nat
  BY <1>4, <1>7, SumNat, ZenonT(60)
<1>9. QED
  BY <1>2, <1>4, <1>6, <1>7, <1>8, ZenonT(60)

(* A grant only ever touches more nodes. *)
Granted(k, bytes, node, spread) ==
  /\ grants' \in Seq([bytes: Nat, node: Nat, spread: SUBSET Nat]) /\ Len(grants') = k
  /\ k \notin DOMAIN regionNode
  /\ DOMAIN regionNode' = DOMAIN regionNode \cup {k}
  /\ DOMAIN regionNode' \subseteq 1 .. Len(grants')
  /\ regionNode'[k] = node
  /\ \A i \in DOMAIN regionNode : regionNode'[i] = regionNode[i]
  /\ \A i \in 1 .. Len(grants) : grants'[i] = grants[i]
  /\ grants'[k].bytes = bytes
  /\ Interleaved' = Interleaved \cup spread

LEMMA GrantFacts ==
  ASSUME grants \in Seq([bytes: Nat, node: Nat, spread: SUBSET Nat]),
         DOMAIN regionNode \subseteq 1 .. Len(grants),
         NEW bytes \in Nat, NEW node \in Nat, NEW spread \in SUBSET Nat,
         Grant(bytes, node, spread)
  PROVE  Granted(Len(grants) + 1, bytes, node, spread)
<1> DEFINE k == Len(grants) + 1
           e == [bytes |-> bytes, node |-> node, spread |-> spread]
           G == [bytes: Nat, node: Nat, spread: SUBSET Nat]
<1>1. grants' = Append(grants, e) /\ e \in G
  BY Zenon DEF Grant
<1>2. regionNode' = [i \in DOMAIN regionNode \cup {k} |->
                       IF i \in DOMAIN regionNode THEN regionNode[i] ELSE node]
  BY Zenon DEF Grant
<1>3. Len(grants) \in Nat /\ DOMAIN grants = 1 .. Len(grants)
  BY LenProperties
<1>4. k \notin DOMAIN regionNode
  BY <1>3
<1>5. e.bytes = bytes /\ e.spread = spread
  OBVIOUS
<1> HIDE DEF e, G
<1>6. /\ grants' \in Seq(G) /\ Len(grants') = k /\ grants'[k] = e
      /\ \A i \in 1 .. Len(grants) : grants'[i] = grants[i]
  BY <1>1, AppendProperties DEF G
<1>7. DOMAIN grants' = 1 .. k
  BY <1>6, LenProperties, ZenonT(60)
<1>8. \A i : i \in 1 .. k <=> i \in 1 .. Len(grants) \/ i = k
  BY <1>3
<1> HIDE DEF k
<1>9. /\ DOMAIN regionNode' = DOMAIN regionNode \cup {k} /\ regionNode'[k] = node
      /\ \A i \in DOMAIN regionNode : regionNode'[i] = regionNode[i]
  BY <1>2, <1>4, Zenon
<1>10. DOMAIN regionNode' \subseteq 1 .. Len(grants')
  BY <1>6, <1>8, <1>9, ZenonT(60)
<1>11. Interleaved' = Interleaved \cup spread
  <2>1. \A x : x \in Interleaved <=> \E i \in 1 .. Len(grants) : x \in grants[i].spread
    BY <1>3 DEF Interleaved, Range
  <2>2. \A x : x \in Interleaved' <=> \E i \in 1 .. k : x \in grants'[i].spread
    BY <1>7 DEF Interleaved, Range
  <2>3. \A x : x \in Interleaved' <=> x \in Interleaved \/ x \in spread
    BY <1>5, <1>6, <1>8, <2>1, <2>2, Zenon
  <2>4. QED
    BY <2>3, ZenonT(60)
<1>12. QED
  BY <1>4, <1>5, <1>6, <1>9, <1>10, <1>11, ZenonT(60) DEF Granted, k, G

(* What is booked after a grant: on its node the bytes more, elsewhere the   *)
(* same.                                                                     *)
BookedMore(n, node, bytes) ==
  Booked(n)' = IF n = node THEN Booked(n) + bytes ELSE Booked(n)

LEMMA BookedByGrant ==
  ASSUME grants \in Seq([bytes: Nat, node: Nat, spread: SUBSET Nat]),
         DOMAIN regionNode \subseteq 1 .. Len(grants),
         NEW k, NEW bytes \in Nat, NEW node, NEW spread, Granted(k, bytes, node, spread), NEW n
  PROVE  BookedMore(n, node, bytes)
<1>1. /\ IsFiniteSet(RegionsOn(n)) /\ Booked(n) = SumFunctionOnSet(GrantBytes, RegionsOn(n))
      /\ \A i \in RegionsOn(n) : GrantBytes[i] \in Nat /\ GrantBytes[i] = grants[i].bytes
      /\ \A i \in RegionsOn(n) : i \in 1 .. Len(grants)
  BY BookedTyped, Zenon
<1>2. Booked(n)' = SumFunctionOnSet(GrantBytes', RegionsOn(n)')
  BY Zenon DEF Booked, GrantBytes, RegionsOn
<1>3. Len(grants') \in Nat /\ DOMAIN grants' = 1 .. Len(grants') /\ Len(grants) \in Nat
  BY LenProperties, Zenon DEF Granted
<1>4. \A i \in 1 .. Len(grants') : GrantBytes'[i] = grants'[i].bytes
  BY <1>3, ZenonT(60) DEF GrantBytes
<1>5. k \in 1 .. Len(grants') /\ k \notin RegionsOn(n)
  BY DEF Granted, RegionsOn
<1>6. GrantBytes'[k] = bytes
  BY <1>4, <1>5, Zenon DEF Granted
<1>7. \A i \in RegionsOn(n) : GrantBytes'[i] = GrantBytes[i]
  BY <1>1, <1>4, Zenon DEF Granted, RegionsOn
<1>8. CASE n = node
  <2>1. RegionsOn(n)' = RegionsOn(n) \cup {k}
    BY <1>8, ZenonT(60) DEF Granted, RegionsOn
  <2>2. SumFunctionOnSet(GrantBytes', RegionsOn(n)') = SumFunctionOnSet(GrantBytes, RegionsOn(n)) + GrantBytes'[k]
    BY <1>1, <1>5, <1>6, <1>7, <2>1, SumJoin, SMTT(30)
  <2>3. QED
    BY <1>1, <1>2, <1>6, <1>8, <2>2, ZenonT(60) DEF BookedMore
<1>9. CASE n # node
  <2>1. RegionsOn(n)' = RegionsOn(n)
    BY <1>9, ZenonT(60) DEF Granted, RegionsOn
  <2>2. SumFunctionOnSet(GrantBytes', RegionsOn(n)') = SumFunctionOnSet(GrantBytes, RegionsOn(n))
    BY <1>1, <1>7, <2>1, SumAgree, SMTT(30)
  <2>3. QED
    BY <1>1, <1>2, <1>9, <2>2, ZenonT(60) DEF BookedMore
<1>10. QED
  BY <1>8, <1>9

(* choose_node_for: a node it names has room, as remaining counts. *)
LEMMA ChosenHasRoom ==
  ASSUME config \in Configs, NEW bytes \in Nat, NEW target \in 0 .. config.nodes + 1,
         NEW fallback, NEW n, n = ChooseNodeFor(bytes, target, fallback), n # 0
  PROVE  n \in SyntheticId(config) /\ Remaining(n) >= bytes
<1> DEFINE room == {m \in 1 .. config.nodes : Remaining(m) >= bytes}
<1>0. config.nodes \in Nat
  BY CapacityTyped
<1>1. CASE target # 0 /\ Remaining(target) >= bytes
  BY <1>0, <1>1 DEF ChooseNodeFor, SyntheticId
<1>2. CASE ~(target # 0 /\ Remaining(target) >= bytes)
  <2>1. room # {} /\ n = Min(room)
    BY <1>2, Zenon DEF ChooseNodeFor
  <2>2. room \in SUBSET Nat
    BY <1>0
  <2>3. \E x \in room : \A y \in room : x <= y
    <3> HIDE DEF room
    <3>1. QED
      BY <2>1, <2>2, LeastNat, ZenonT(60)
  <2>4. n \in room
    BY <2>1, <2>3, Zenon DEF Min
  <2>5. QED
    BY <1>0, <2>4 DEF SyntheticId
<1>3. QED
  BY <1>1, <1>2, ZenonT(60)

(* A step of the synthetic backend keeps the invariant if it keeps types,    *)
(* and what is booked, where nothing is interleaved.                         *)
LEMMA SyntheticKept ==
  ASSUME SyntheticInv, ~Windows, machine' = machine, config' = config,
         DOMAIN used' = DOMAIN used, used' = [n \in DOMAIN used' |-> used'[n]],
         grants' \in Seq([bytes: Nat, node: Nat, spread: SUBSET Nat]),
         DOMAIN regionNode' \subseteq 1 .. Len(grants'),
         \A n \in SyntheticId(config) \ Interleaved' :
           used'[n] = Booked(n)' /\ used'[n] <= CapacityFor(n)
  PROVE  SyntheticInv'
<1>1. machine' \in Machines \cup {Unused}
  BY DEF SyntheticInv
<1>2. config' \in Configs /\ DOMAIN used' = SyntheticId(config')
  BY Zenon DEF SyntheticInv
<1>3. \A n : CapacityFor(n)' = CapacityFor(n)
  BY DEF CapacityFor
<1>4. \A n \in SyntheticId(config') \ Interleaved' :
        used'[n] = Booked(n)' /\ used'[n] <= CapacityFor(n)'
  BY <1>3, Zenon
<1>5. QED
  BY <1>1, <1>2, <1>4, ZenonT(60) DEF SyntheticInv

LEMMA SyntheticFacts ==
  ASSUME SyntheticInv, ~Windows
  PROVE  /\ config \in Configs /\ DOMAIN used = SyntheticId(config)
         /\ used = [n \in DOMAIN used |-> used[n]]
         /\ grants \in Seq([bytes: Nat, node: Nat, spread: SUBSET Nat])
         /\ DOMAIN regionNode \subseteq 1 .. Len(grants)
         /\ \A n \in SyntheticId(config) \ Interleaved :
              /\ used[n] = Booked(n) /\ used[n] <= CapacityFor(n)
              /\ used[n] \in Nat
<1>1. /\ config \in Configs /\ DOMAIN used = SyntheticId(config)
      /\ used = [n \in DOMAIN used |-> used[n]]
      /\ grants \in Seq([bytes: Nat, node: Nat, spread: SUBSET Nat])
      /\ DOMAIN regionNode \subseteq 1 .. Len(grants)
      /\ \A n \in SyntheticId(config) \ Interleaved :
           used[n] = Booked(n) /\ used[n] <= CapacityFor(n)
  BY Zenon DEF SyntheticInv
<1>2. \A n : Booked(n) \in Nat
  BY <1>1, BookedTyped, ZenonT(60)
<1>3. QED
  BY <1>1, <1>2, ZenonT(60)

LEMMA AllocateKeepsBooks ==
  ASSUME SyntheticInv, ~Windows, machine' = machine,
         NEW mode \in {"required", "preferred", "local", "any"},
         NEW node \in SyntheticId(config), NEW bytes \in AllocSizes,
         Allocate(mode, node, bytes)
  PROVE  SyntheticInv'
<1> DEFINE target == TargetNode(mode, node)
           c == ChooseNodeFor(bytes, target, mode # "required")
<1>1. /\ config \in Configs /\ DOMAIN used = SyntheticId(config)
      /\ used = [n \in DOMAIN used |-> used[n]]
      /\ grants \in Seq([bytes: Nat, node: Nat, spread: SUBSET Nat])
      /\ DOMAIN regionNode \subseteq 1 .. Len(grants)
      /\ \A n \in SyntheticId(config) \ Interleaved :
           used[n] = Booked(n) /\ used[n] <= CapacityFor(n) /\ used[n] \in Nat
  BY SyntheticFacts, Zenon
<1>2. bytes \in Nat /\ config.nodes \in Nat /\ config.local \in 0 .. config.nodes /\ ByteWord \in Nat
  BY <1>1, CapacityTyped, SyntheticConstants, ZenonT(60)
<1>3. target \in 0 .. config.nodes + 1
  BY <1>2 DEF TargetNode, SyntheticId
<1>4. /\ c # 0 /\ used' = [used EXCEPT ![c] = (@ + bytes) % ByteWord] /\ Grant(bytes, c, {})
      /\ config' = config
  BY Zenon DEF Allocate, Grant
<1>5. c \in SyntheticId(config) /\ Remaining(c) >= bytes
  BY <1>1, <1>2, <1>3, <1>4, ChosenHasRoom, ZenonT(60)
<1> HIDE DEF c, target
<1>6. c \in Nat
  BY <1>2, <1>5 DEF SyntheticId
<1>7. PICK k : Granted(k, bytes, c, {})
  BY <1>1, <1>2, <1>4, <1>6, GrantFacts, ZenonT(60)
<1>8. Interleaved' = Interleaved
  BY <1>7, ZenonT(60) DEF Granted
<1>9. ASSUME NEW n \in SyntheticId(config) \ Interleaved'
      PROVE  used'[n] = Booked(n)' /\ used'[n] <= CapacityFor(n)
  <2>1. /\ used[n] = Booked(n) /\ used[n] <= CapacityFor(n) /\ used[n] \in Nat
        /\ n \in DOMAIN used
    BY <1>1, <1>8, Zenon
  <2>2. Booked(n)' = IF n = c THEN Booked(n) + bytes ELSE Booked(n)
    <3>1. BookedMore(n, c, bytes)
      BY <1>1, <1>2, <1>7, BookedByGrant, ZenonT(60)
    <3>2. QED
      BY <3>1, Zenon DEF BookedMore
  <2>3. CASE n # c
    BY <1>4, <2>1, <2>2, <2>3, ZenonT(60)
  <2>4. CASE n = c
    <3>1. CapacityFor(n) \in 0 .. ByteWord - 1
      BY <1>1, CapacityTyped, ZenonT(60)
    <3>2. Remaining(n) = CapacityFor(n) - used[n]
      BY <1>2, <2>1, <3>1, SMTT(30) DEF Remaining
    <3>3. used[n] + bytes <= CapacityFor(n)
      BY <1>2, <1>5, <2>1, <2>4, <3>1, <3>2, SMTT(30)
    <3>4. (used[n] + bytes) % ByteWord = used[n] + bytes
      BY <1>2, <2>1, <3>1, <3>3, SMTT(30)
    <3>5. used'[n] = (used[n] + bytes) % ByteWord
      BY <1>4, <2>1, <2>4, ZenonT(60)
    <3>6. QED
      BY <2>1, <2>2, <2>4, <3>3, <3>4, <3>5, ZenonT(60)
  <2>5. QED
    BY <2>3, <2>4, ZenonT(60)
<1>10. DOMAIN used' = DOMAIN used /\ used' = [n \in DOMAIN used' |-> used'[n]]
  BY <1>4
<1>11. /\ grants' \in Seq([bytes: Nat, node: Nat, spread: SUBSET Nat])
       /\ DOMAIN regionNode' \subseteq 1 .. Len(grants')
  BY <1>7, Zenon DEF Granted
<1>12. QED
  BY <1>4, <1>9, <1>10, <1>11, SyntheticKept, ZenonT(60)

LEMMA InterleaveKeepsBooks ==
  ASSUME SyntheticInv, ~Windows, machine' = machine,
         NEW nodes \in Spreads, NEW bytes \in AllocSizes, AllocateInterleaved(nodes, bytes)
  PROVE  SyntheticInv'
<1> DEFINE on == IF nodes = <<>> THEN [i \in 1 .. config.nodes |-> i] ELSE nodes
           chunk == Max({1, bytes \div Len(on)})
           times(n) == Cardinality({i \in DOMAIN on : on[i] = n})
<1>1. /\ config \in Configs /\ DOMAIN used = SyntheticId(config)
      /\ used = [n \in DOMAIN used |-> used[n]]
      /\ grants \in Seq([bytes: Nat, node: Nat, spread: SUBSET Nat])
      /\ DOMAIN regionNode \subseteq 1 .. Len(grants)
      /\ \A n \in SyntheticId(config) \ Interleaved :
           used[n] = Booked(n) /\ used[n] <= CapacityFor(n) /\ used[n] \in Nat
  BY SyntheticFacts, Zenon
<1>2. bytes \in Nat /\ config.nodes \in Nat \ {0}
  BY <1>1, CapacityTyped, SyntheticConstants, ZenonT(60)
<1>3. /\ Range(on) \subseteq DOMAIN used
      /\ used' = [n \in DOMAIN used |-> (used[n] + chunk * times(n)) % ByteWord]
      /\ Grant(bytes, on[1], Range(on)) /\ config' = config
  BY Zenon DEF AllocateInterleaved, Grant
<1>4. Len(on) \in Nat \ {0} /\ DOMAIN on = 1 .. Len(on)
  <2>1. CASE nodes = <<>>
    <3>1. on = [i \in 1 .. config.nodes |-> i] /\ on \in Seq(Nat)
      BY <1>2, <2>1, IsASeq
    <3>2. Len(on) = config.nodes
      BY <1>2, <3>1, LenProperties, SMTT(30)
    <3>3. QED
      BY <1>2, <3>1, <3>2
  <2>2. CASE nodes # <<>>
    <3>1. DOMAIN nodes = 1 .. Len(nodes) /\ Len(nodes) \in Nat
      BY SyntheticConstants, Zenon
    <3>2. Len(nodes) # 0
      BY <2>2, SyntheticConstants
    <3>3. QED
      BY <2>2, <3>1, <3>2, ZenonT(60)
  <2>3. QED
    BY <2>1, <2>2
<1> HIDE DEF on
<1>5. on[1] \in Range(on) /\ Range(on) \in SUBSET Nat
  <2>1. 1 \in DOMAIN on
    BY <1>4
  <2>2. SyntheticId(config) \subseteq Nat
    BY <1>2 DEF SyntheticId
  <2>3. QED
    BY <1>1, <1>3, <2>1, <2>2, ZenonT(60) DEF Range
<1>6. PICK k : Granted(k, bytes, on[1], Range(on))
  <2>1. on[1] \in Nat
    BY <1>5, ZenonT(60)
  <2>2. QED
    BY <1>1, <1>2, <1>3, <1>5, <2>1, GrantFacts, ZenonT(60)
<1>7. Interleaved' = Interleaved \cup Range(on)
  BY <1>6, Zenon DEF Granted
<1>8. chunk \in Int
  <2>1. bytes \div Len(on) \in Int
    BY <1>2, <1>4
  <2>2. \E x \in {1, bytes \div Len(on)} : \A y \in {1, bytes \div Len(on)} : x >= y
    BY <2>1
  <2>3. chunk \in {1, bytes \div Len(on)}
    BY <2>2, ZenonT(60) DEF Max
  <2>4. QED
    BY <2>1, <2>3
<1> HIDE DEF chunk
<1>9. ASSUME NEW n \in SyntheticId(config) \ Interleaved'
      PROVE  used'[n] = Booked(n)' /\ used'[n] <= CapacityFor(n)
  <2>1. /\ used[n] = Booked(n) /\ used[n] <= CapacityFor(n) /\ used[n] \in Nat
        /\ n \in DOMAIN used /\ n \notin Range(on) /\ n # on[1]
    BY <1>1, <1>5, <1>7, ZenonT(60)
  <2>2. Booked(n)' = Booked(n)
    <3>1. BookedMore(n, on[1], bytes)
      BY <1>1, <1>2, <1>6, BookedByGrant, ZenonT(60)
    <3>2. QED
      BY <2>1, <3>1, Zenon DEF BookedMore
  <2>3. times(n) = 0
    <3>1. {i \in DOMAIN on : on[i] = n} = {}
      BY <2>1, ZenonT(60) DEF Range
    <3>2. QED
      BY <3>1, FS_EmptySet, ZenonT(60)
  <2>4. used'[n] = (used[n] + chunk * times(n)) % ByteWord
    BY <1>3, <2>1, ZenonT(60)
  <2> HIDE DEF times
  <2>5. CapacityFor(n) \in 0 .. ByteWord - 1 /\ ByteWord \in Nat \ {0}
    BY <1>1, CapacityTyped, ZenonT(60)
  <2>6. used'[n] = used[n]
    BY <1>8, <2>1, <2>3, <2>4, <2>5, SMTT(30)
  <2>7. QED
    BY <2>1, <2>2, <2>6, ZenonT(60)
<1>10. DOMAIN used' = DOMAIN used /\ used' = [n \in DOMAIN used' |-> used'[n]]
  BY <1>3
<1>11. /\ grants' \in Seq([bytes: Nat, node: Nat, spread: SUBSET Nat])
       /\ DOMAIN regionNode' \subseteq 1 .. Len(grants')
  BY <1>6, Zenon DEF Granted
<1>12. QED
  BY <1>3, <1>9, <1>10, <1>11, SyntheticKept, Zenon

(* free: a region is found once, and its bytes are all on its node. *)
LEMMA FreeKeepsBooks ==
  ASSUME SyntheticInv, ~Windows, machine' = machine, NEW i, Free(i)
  PROVE  SyntheticInv'
<1>1. /\ config \in Configs /\ DOMAIN used = SyntheticId(config)
      /\ used = [n \in DOMAIN used |-> used[n]]
      /\ grants \in Seq([bytes: Nat, node: Nat, spread: SUBSET Nat])
      /\ DOMAIN regionNode \subseteq 1 .. Len(grants)
      /\ \A n \in SyntheticId(config) \ Interleaved :
           used[n] = Booked(n) /\ used[n] <= CapacityFor(n) /\ used[n] \in Nat
  BY SyntheticFacts, Zenon
<1>2. config' = config /\ grants' = grants /\ Interleaved' = Interleaved
  BY DEF Free, Interleaved
<1>3. CASE i \notin DOMAIN regionNode
  <2>1. used' = used /\ regionNode' = regionNode
    BY <1>3, Zenon DEF Free
  <2>2. \A n : Booked(n)' = Booked(n)
    BY <1>2, <2>1, Zenon DEF Booked
  <2>3. QED
    BY <1>1, <1>2, <2>1, <2>2, SyntheticKept, ZenonT(60)
<1>4. CASE i \in DOMAIN regionNode
  <2> DEFINE b == grants[i].bytes
  <2>1. /\ used' = [used EXCEPT ![regionNode[i]] = Max({0, @ - b})]
        /\ regionNode' = [j \in DOMAIN regionNode \ {i} |-> regionNode[j]]
    BY <1>4, Zenon DEF Free
  <2>2. /\ DOMAIN regionNode' = DOMAIN regionNode \ {i}
        /\ \A j \in DOMAIN regionNode' : regionNode'[j] = regionNode[j]
    BY <2>1, ZenonT(60)
  <2>3. ASSUME NEW n \in SyntheticId(config) \ Interleaved'
        PROVE  used'[n] = Booked(n)' /\ used'[n] <= CapacityFor(n)
    <3>1. /\ used[n] = Booked(n) /\ used[n] <= CapacityFor(n) /\ used[n] \in Nat
          /\ n \in DOMAIN used
      BY <1>1, <1>2, Zenon
    <3>2. /\ IsFiniteSet(RegionsOn(n)) /\ Booked(n) = SumFunctionOnSet(GrantBytes, RegionsOn(n))
          /\ \A j \in RegionsOn(n) : GrantBytes[j] \in Nat /\ GrantBytes[j] = grants[j].bytes
      BY <1>1, BookedTyped, Zenon
    <3>3. Booked(n)' = SumFunctionOnSet(GrantBytes, RegionsOn(n)')
      BY <1>2, ZenonT(60) DEF Booked, GrantBytes, RegionsOn
    <3>4. CASE n = regionNode[i]
      <4>1. i \in RegionsOn(n) /\ RegionsOn(n)' = RegionsOn(n) \ {i}
        BY <1>4, <2>2, <3>4 DEF RegionsOn
      <4>2. Booked(n)' = Booked(n) - b /\ b \in Nat
        BY <3>2, <3>3, <4>1, SumLeave, SMTT(30)
      <4>3. b <= Booked(n)
        BY <3>2, <4>1, SumCovers
      <4>4. used'[n] = Max({0, used[n] - b})
        BY <2>1, <3>1, <3>4, ZenonT(60)
      <4>5. PICK d \in Nat : d = used[n] - b
        BY <3>1, <4>2, <4>3
      <4>6. Max({0, d}) = d
        BY DEF Max
      <4>7. QED
        BY <3>1, <4>2, <4>4, <4>5, <4>6, CapacityTyped, <1>1, SMTT(30)
    <3>5. CASE n # regionNode[i]
      <4>1. RegionsOn(n)' = RegionsOn(n)
        BY <1>4, <2>2, <3>5, ZenonT(60) DEF RegionsOn
      <4>2. used'[n] = used[n]
        BY <2>1, <3>1, <3>5, ZenonT(60)
      <4>3. QED
        BY <3>1, <3>2, <3>3, <4>1, <4>2, ZenonT(60)
    <3>6. QED
      BY <3>4, <3>5, ZenonT(60)
  <2>4. DOMAIN used' = DOMAIN used /\ used' = [n \in DOMAIN used' |-> used'[n]]
    BY <2>1
  <2>5. DOMAIN regionNode' \subseteq 1 .. Len(grants')
    BY <1>1, <1>2, <2>2, Zenon
  <2>6. QED
    BY <1>1, <1>2, <2>3, <2>4, <2>5, SyntheticKept, ZenonT(60)
<1>5. QED
  BY <1>3, <1>4, ZenonT(60)

LEMMA BooksStart == HostInit => SyntheticInv
<1> SUFFICES ASSUME HostInit PROVE SyntheticInv
  OBVIOUS
<1>1. CASE WindowsInit
  <2>1. machine \in Machines
    BY <1>1, ZenonT(60) DEF WindowsInit
  <2>2. QED
    BY <2>1, HostConstants DEF SyntheticInv, Windows
<1>2. CASE SyntheticInit /\ machine = Unused
  <2>1. /\ config \in Configs /\ used = [n \in SyntheticId(config) |-> 0]
        /\ regionNode = <<>> /\ grants = <<>>
    BY <1>2, ZenonT(60) DEF SyntheticInit
  <2>2. /\ grants \in Seq([bytes: Nat, node: Nat, spread: SUBSET Nat])
        /\ DOMAIN regionNode = {}
    BY <2>1, EmptySeq
  <2>3. ASSUME NEW n \in SyntheticId(config)
        PROVE  used[n] = Booked(n) /\ used[n] <= CapacityFor(n)
    <3>1. used[n] = 0
      BY <2>1, ZenonT(60)
    <3>2. RegionsOn(n) = {}
      BY <2>2, ZenonT(60) DEF RegionsOn
    <3>3. Booked(n) = 0
      BY <2>2, <3>2, BookedTyped, SumEmpty
    <3>4. CapacityFor(n) \in 0 .. ByteWord - 1
      BY <2>1, CapacityTyped
    <3>5. QED
      BY <3>1, <3>3, <3>4, CapacityTyped, <2>1, SMTT(30)
  <2>4. QED
    BY <1>2, <2>1, <2>2, <2>3, ZenonT(60) DEF SyntheticInv
<1>3. QED
  BY <1>1, <1>2 DEF HostInit

LEMMA BooksInductive ==
  ASSUME SyntheticInv, [HostNext]_hostVars
  PROVE  SyntheticInv'
<1>1. CASE UNCHANGED <<machine, syntheticVars>>
  <2>1. UNCHANGED <<machine, config, used, regionNode, grants>>
    BY <1>1, ZenonT(60) DEF syntheticVars
  <2>2. \A n : Booked(n)' = Booked(n) /\ CapacityFor(n)' = CapacityFor(n)
    BY <2>1, Zenon DEF Booked, CapacityFor
  <2>3. Interleaved' = Interleaved /\ (Windows <=> Windows')
    BY <2>1, ZenonT(60) DEF Interleaved, Windows
  <2>4. QED
    BY <2>1, <2>2, <2>3, ZenonT(60) DEF SyntheticInv
<1>2. CASE Discover
  BY <1>1, <1>2, ZenonT(60) DEF Discover
<1>3. ASSUME NEW node, NEW apply, BindWorker(node, apply) PROVE SyntheticInv'
  BY <1>1, <1>3, ZenonT(60) DEF BindWorker, Apply
<1>4. CASE ScopeStep
  <2>1. ASSUME NEW node, NEW movable, OpenScope(node, movable) PROVE SyntheticInv'
    BY <1>1, <2>1, ZenonT(60) DEF OpenScope, Apply
  <2>2. CASE CloseScope
    BY <1>1, <2>2, ZenonT(60) DEF CloseScope, Apply
  <2>3. ASSUME NEW i, MoveScope(i) PROVE SyntheticInv'
    BY <1>1, <2>3, ZenonT(60) DEF MoveScope, Quiet, windowsVars
  <2>4. ASSUME NEW i, RestoreNow(i) PROVE SyntheticInv'
    BY <1>1, <2>4, ZenonT(60) DEF RestoreNow, Apply
  <2>5. QED
    BY <1>4, <2>1, <2>2, <2>3, <2>4, ZenonT(60) DEF ScopeStep
<1>5. CASE ~Windows /\ SyntheticNext /\ UNCHANGED windowsVars
  <2>1. machine' = machine
    BY <1>5, ZenonT(60) DEF windowsVars
  <2>2. QED
    BY <1>5, <2>1, AllocateKeepsBooks, InterleaveKeepsBooks, FreeKeepsBooks, ZenonT(60) DEF SyntheticNext
<1>6. CASE UNCHANGED hostVars
  BY <1>1, <1>6, ZenonT(60) DEF hostVars, windowsVars
<1>7. QED
  BY <1>2, <1>3, <1>4, <1>5, <1>6, Zenon DEF HostNext

(* used_ is exact on every node no interleaved allocation has touched, and    *)
(* within the node's capacity: fallback, a second free of the same result    *)
(* and the modulo arithmetic of remaining included.                          *)
THEOREM HostSyntheticExact == HostSpec => []SyntheticExact
<1>1. HostInit => SyntheticInv
  BY BooksStart
<1>2. SyntheticInv /\ [HostNext]_hostVars => SyntheticInv'
  BY BooksInductive
<1>3. SyntheticInv => SyntheticExact
  BY Zenon DEF SyntheticInv, SyntheticExact
<1> QED
  BY <1>1, <1>2, <1>3, PTL DEF HostSpec
=============================================================================
