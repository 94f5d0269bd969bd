------------------------------ MODULE CopyProofs -----------------------------
(* What follows from one owner per buffer, if callers do not release a     *)
(* region that is being moved: the bytes accounted per node are those of   *)
(* the live regions, no live region loses its last copy, and no buffer is  *)
(* lost.                                                                   *)
EXTENDS MigrationProofs, MemoryAccounting, SumProofs

(* The usage map u accounts for the regions live, of given homes and sizes.*)
Accounts(u, live, home, size) ==
  /\ DOMAIN u = {n \in MemNode : \E r \in live : home[r] = n}
  /\ \A n \in DOMAIN u : u[n] = SumFunctionOnSet(size, {r \in live : home[r] = n})

(* add_node_usage for a region that becomes live. *)
LEMMA AddAccounts ==
  ASSUME NEW u, NEW live, NEW home, NEW size, NEW r, NEW home2, NEW size2,
         Accounts(u, live, home, size),
         IsFiniteSet(live), r \notin live,
         home2[r] \in MemNode \cup {NoNode}, size2[r] \in Nat,
         \A s \in live : size[s] \in Nat,
         \A s \in live : home2[s] = home[s],
         \A s \in live : size2[s] = size[s]
  PROVE  Accounts(Add(u, home2[r], size2[r]), live \cup {r}, home2, size2)
<1> DEFINE h == home2[r]
           v == Add(u, h, size2[r])
           On(n) == {s \in live : home[s] = n}
           On2(n) == {s \in live \cup {r} : home2[s] = n}
<1>1. NoNode \notin MemNode
  BY MemoryConstants, Zenon
<1>2. \A n : IsFiniteSet(On(n)) /\ On(n) \subseteq live
  BY FS_Subset, Zenon
<1>3. \A n : On2(n) = IF n = h THEN On(n) \cup {r} ELSE On(n)
  BY Zenon
<1>a. /\ DOMAIN u = {n \in MemNode : On(n) # {}}
      /\ \A n \in DOMAIN u : u[n] = SumFunctionOnSet(size, On(n))
  BY ZenonT(60) DEF Accounts
<1> HIDE DEF On, On2
<1>4. \A n : SumFunctionOnSet(size, On(n)) \in Nat
  BY <1>2, SumNat, Zenon
<1>5. ASSUME NEW n PROVE SumFunctionOnSet(size2, On2(n)) =
        SumFunctionOnSet(size, On(n)) + IF n = h THEN size2[r] ELSE 0
  <2>1. CASE n = h
    BY <1>2, <1>3, <2>1, SumJoin, SMTT(30)
  <2>2. CASE n # h
    BY <1>2, <1>3, <1>4, <2>2, SumAgree
  <2>3. QED
    BY <2>1, <2>2, Zenon
<1>6. \A n \in MemNode : UsageAt(u, n) = SumFunctionOnSet(size, On(n))
  <2>1. ASSUME NEW n \in MemNode, n \notin DOMAIN u PROVE On(n) = {}
    BY <1>a, <2>1, Zenon
  <2>2. QED
    BY <1>a, <2>1, SumEmpty, Zenon DEF UsageAt
<1>7. DOMAIN v = DOMAIN u \cup ({h} \cap MemNode)
  BY <1>1, Zenon DEF Add
<1>8. DOMAIN v = {n \in MemNode : On2(n) # {}}
  BY <1>3, <1>7, <1>a, Zenon
<1>9. ASSUME NEW n \in DOMAIN v PROVE v[n] = SumFunctionOnSet(size2, On2(n))
  <2>1. n \in MemNode
    BY <1>8, Zenon
  <2>2. CASE h = NoNode
    <3>1. v = u /\ n # h
      BY <1>1, <2>1, <2>2, Zenon DEF Add
    <3>2. QED
      BY <1>4, <1>5, <1>a, <3>1, SMTT(30)
  <2>3. CASE h # NoNode
    <3>1. v[n] = UsageAt(u, n) + IF n = h THEN size2[r] ELSE 0
      BY <2>3, ZenonT(60) DEF Add
    <3>2. QED
      BY <1>5, <1>6, <2>1, <3>1, ZenonT(60)
  <2>4. QED
    BY <2>2, <2>3, Zenon
<1>10. QED
  BY <1>8, <1>9 DEF Accounts, On2

(* The same with the results named. *)
LEMMA AddAccountsTo ==
  ASSUME NEW u, NEW live, NEW home, NEW size, NEW r, NEW home2, NEW size2, NEW w, NEW live2,
         w = Add(u, home2[r], size2[r]), live2 = live \cup {r},
         Accounts(u, live, home, size),
         IsFiniteSet(live), r \notin live,
         home2[r] \in MemNode \cup {NoNode}, size2[r] \in Nat,
         \A s \in live : size[s] \in Nat,
         \A s \in live : home2[s] = home[s],
         \A s \in live : size2[s] = size[s]
  PROVE  Accounts(w, live2, home2, size2)
BY AddAccounts, ZenonT(60)

(* sub_node_usage for a region that is live: its guard passes. *)
LEMMA SubAccounts ==
  ASSUME NEW u, NEW live, NEW home, NEW size, Accounts(u, live, home, size),
         IsFiniteSet(live), NEW r \in live, NEW home2, NEW size2,
         home[r] \in MemNode \cup {NoNode},
         \A s \in live : size[s] \in Nat \ {0},
         \A s \in live \ {r} : home2[s] = home[s] /\ size2[s] = size[s]
  PROVE  /\ ~Underflows(u, home[r], size[r])
         /\ Accounts(Sub(u, home[r], size[r]), live \ {r}, home2, size2)
<1> DEFINE h == home[r]
           v == Sub(u, h, size[r])
           On(n) == {s \in live : home[s] = n}
           On2(n) == {s \in live \ {r} : home2[s] = n}
<1>1. NoNode \notin MemNode
  BY MemoryConstants, Zenon
<1>2. \A n : IsFiniteSet(On(n)) /\ IsFiniteSet(On2(n))
  BY FS_Subset, Zenon
<1>3. \A n : On2(n) = IF n = h THEN On(n) \ {r} ELSE On(n)
  BY Zenon
<1>a. /\ DOMAIN u = {n \in MemNode : On(n) # {}}
      /\ \A n \in DOMAIN u : u[n] = SumFunctionOnSet(size, On(n))
  BY DEF Accounts
<1>b. /\ \A n : On(n) \subseteq live /\ On2(n) \subseteq live \ {r}
      /\ r \in On(h)
  BY Zenon
<1> HIDE DEF On, On2
<1>4. \A n : SumFunctionOnSet(size, On(n)) \in Nat
  BY <1>2, <1>b, SumNat, Zenon
<1>5. ASSUME NEW n PROVE SumFunctionOnSet(size2, On2(n)) =
        SumFunctionOnSet(size, On(n)) - IF n = h THEN size[r] ELSE 0
  <2>1. CASE n = h
    BY <1>2, <1>3, <1>b, <2>1, SumLeave, SMTT(30)
  <2>2. CASE n # h
    BY <1>2, <1>3, <1>4, <1>b, <2>2, SumAgree, SMTT(30)
  <2>3. QED
    BY <2>1, <2>2, ZenonT(60)
<1>6. \A n \in DOMAIN u : n \in MemNode /\ u[n] = SumFunctionOnSet(size, On(n))
  BY <1>a, Zenon
<1>7. h # NoNode => h \in DOMAIN u
  BY <1>a, <1>b, ZenonT(60)
<1>8. size[r] \in Nat /\ size[r] <= SumFunctionOnSet(size, On(h))
  BY <1>2, <1>b, SumCovers, ZenonT(60)
<1>9. ~Underflows(u, h, size[r])
  BY <1>4, <1>6, <1>7, <1>8, SMTT(30) DEF Underflows, UsageAt
<1>10. ASSUME NEW n \in DOMAIN u
       PROVE  n = h /\ u[n] = size[r] <=> On2(n) = {}
  <2>1. CASE n = h /\ u[n] = size[r]
    <3>1. SumFunctionOnSet(size2, On2(n)) = 0
      BY <1>5, <1>6, <1>8, <2>1, SMTT(30)
    <3>2. \A s \in On2(n) : size2[s] \in Nat /\ size2[s] # 0
      BY <1>b, Zenon
    <3>3. \A s \in On2(n) : size2[s] <= SumFunctionOnSet(size2, On2(n))
      BY <1>2, <3>2, SumCovers, ZenonT(60)
    <3>4. QED
      BY <2>1, <3>1, <3>2, <3>3, SMTT(30)
  <2>2. CASE n # h
    BY <1>3, <1>a, <2>2, ZenonT(60)
  <2>3. CASE n = h /\ u[n] # size[r]
    <3>1. SumFunctionOnSet(size2, On2(n)) # 0
      BY <1>4, <1>5, <1>6, <1>8, <2>3, SMTT(30)
    <3>2. QED
      BY <2>3, <3>1, SumEmpty, ZenonT(60)
  <2>4. QED
    BY <2>1, <2>2, <2>3, ZenonT(60)
<1>11. DOMAIN v = {n \in DOMAIN u : On2(n) # {}}
  <2>1. CASE h = NoNode
    BY <1>1, <1>6, <1>10, <2>1, ZenonT(60) DEF Sub
  <2>2. CASE h # NoNode
    <3>1. DOMAIN v = DOMAIN u \ {k \in {h} : UsageAt(u, k) = size[r]}
      BY <2>2, Zenon DEF Sub
    <3>2. QED
      BY <1>7, <1>10, <2>2, <3>1, Zenon DEF UsageAt
  <2>3. QED
    BY <2>1, <2>2, ZenonT(60)
<1>12. DOMAIN v = {n \in MemNode : On2(n) # {}}
  BY <1>3, <1>11, <1>a, Zenon
<1>13. ASSUME NEW n \in DOMAIN v PROVE v[n] = SumFunctionOnSet(size2, On2(n))
  <2>1. n \in DOMAIN u
    BY <1>11, Zenon
  <2>2. CASE h = NoNode
    <3>1. v = u /\ n # h
      BY <1>1, <1>6, <2>1, <2>2, ZenonT(60) DEF Sub
    <3>2. QED
      BY <1>4, <1>5, <1>6, <2>1, <3>1, SMTT(30)
  <2>3. CASE h # NoNode
    <3>1. v[n] = u[n] - IF n = h THEN size[r] ELSE 0
      BY <2>3, Zenon DEF Sub
    <3>2. QED
      BY <1>5, <1>6, <2>1, <3>1, ZenonT(60)
  <2>4. QED
    BY <2>2, <2>3, Zenon
<1>14. QED
  BY <1>9, <1>12, <1>13 DEF Accounts, On2

(* A region that goes from one home to another is accounted at the new one. *)
LEMMA MoveAccounts ==
  ASSUME NEW u, NEW live, NEW home, NEW size, Accounts(u, live, home, size),
         IsFiniteSet(live), NEW r \in live, NEW home2, NEW size2,
         home[r] \in MemNode \cup {NoNode}, home2[r] \in MemNode \cup {NoNode},
         \A s \in live : size[s] \in Nat \ {0},
         \A s \in live : size2[s] = size[s],
         \A s \in live \ {r} : home2[s] = home[s]
  PROVE  Accounts(Add(Sub(u, home[r], size[r]), home2[r], size2[r]), live, home2, size2)
<1>1. Accounts(Sub(u, home[r], size[r]), live \ {r}, home, size)
  BY SubAccounts, ZenonT(60)
<1>2. IsFiniteSet(live \ {r}) /\ live = (live \ {r}) \cup {r}
  BY FS_Subset, Zenon
<1>3. size2[r] \in Nat /\ \A s \in live : size[s] \in Nat
  BY Zenon
<1>4. ASSUME NEW v, NEW rest, Accounts(v, rest, home, size), IsFiniteSet(rest), r \notin rest,
             rest \subseteq live
      PROVE  Accounts(Add(v, home2[r], size2[r]), rest \cup {r}, home2, size2)
  <2>1. /\ \A s \in rest : size[s] \in Nat
        /\ \A s \in rest : home2[s] = home[s]
        /\ \A s \in rest : size2[s] = size[s]
    BY <1>3, <1>4, Zenon
  <2>2. Accounts(v, rest, home, size) /\ IsFiniteSet(rest) /\ r \notin rest
    BY <1>4, Zenon
  <2>3. home2[r] \in MemNode \cup {NoNode} /\ size2[r] \in Nat
    BY <1>3, Zenon
  <2>4. PICK w, live2 : w = Add(v, home2[r], size2[r]) /\ live2 = rest \cup {r}
    BY ZenonT(60)
  <2>5. Accounts(w, live2, home2, size2)
    BY <2>1, <2>2, <2>3, <2>4, AddAccountsTo, SMTT(30)
  <2>6. QED
    BY <2>4, <2>5, ZenonT(60)
<1>5. QED
  BY <1>1, <1>2, <1>4, ZenonT(60)

-----------------------------------------------------------------------------
(* Accounting and copies, besides ownership: a mover knows where its       *)
(* region is accounted and, from vacate on, holds the buffer that replaces *)
(* the old one; every region that is Migrating has a mover, which takes    *)
(* that a commit never throws, and therefore that the accounting is exact; *)
(* a buffer that was vacated is the region's until the commit, and no      *)
(* other's; and no buffer is lost.                                         *)
CopyInv ==
  /\ \A r \in RegionId : IsLive(r) => regions[r].bytes > 0 /\ regions[r].buffer # NoBuffer
  /\ \A t \in Thread : Moving(t) => job[t].home = Home(job[t].region)
  /\ \A t \in Thread : pc[t] \in {"vacate", "commit"} => job[t].new # NoBuffer
  /\ \A r \in RegionId : regions[r].state = "Migrating" =>
       \E t \in Thread : Moving(t) /\ job[t].region = r
  /\ \A t \in Thread : pc[t] = "commit" =>
       /\ regions[job[t].region].buffer = job[t].old
       /\ frees[job[t].old] > 0
       /\ \A u \in Thread \ {t} : pc[u] = "commit" => job[u].old # job[t].old
  /\ \A b \in 1 .. next_buffer - 1 : frees[b] > 0 \/ ~Unowned(b)

UsageInv == OwnInv /\ UsageExact /\ CopyInv

Homes == [r \in LiveIds |-> Home(r)]

LEMMA UsageAccounts ==
  /\ UsageExact <=> Accounts(node_usage, LiveIds, Homes, RegionBytes)
  /\ UsageExact' <=> Accounts(node_usage', LiveIds', Homes', RegionBytes')
<1>1. \A n : LiveOn(n) = {r \in LiveIds : Homes[r] = n}
  BY Zenon DEF LiveOn, Homes
<1>2. \A n : LiveOn(n)' = {r \in LiveIds' : Homes'[r] = n}
  BY Zenon DEF LiveOn, Homes
<1>3. UsageExact <=> /\ DOMAIN node_usage = {n \in MemNode : LiveOn(n) # {}}
                     /\ \A n \in DOMAIN node_usage :
                          node_usage[n] = SumFunctionOnSet(RegionBytes, LiveOn(n))
  BY Zenon DEF UsageExact, LiveBytes
<1>4. UsageExact' <=> /\ DOMAIN node_usage' = {n \in MemNode : LiveOn(n)' # {}}
                      /\ \A n \in DOMAIN node_usage' :
                           node_usage'[n] = SumFunctionOnSet(RegionBytes', LiveOn(n)')
  BY Zenon DEF UsageExact, LiveBytes
<1>5. QED
  BY <1>1, <1>2, <1>3, <1>4, ZenonT(60) DEF Accounts

LEMMA LiveFacts ==
  ASSUME MigTypeOK, CopyInv
  PROVE  /\ IsFiniteSet(LiveIds)
         /\ \A r \in LiveIds : /\ r \in RegionId /\ regions[r] \in Region
                              /\ RegionBytes[r] = regions[r].bytes
                              /\ RegionBytes[r] \in Nat \ {0}
                              /\ Homes[r] = Home(r)
                              /\ Homes[r] \in MemNode \cup {NoNode}
<1>1. IsFiniteSet(RegionId)
  BY FS_Interval, MemoryConstants DEF RegionId
<1>2. IsFiniteSet(LiveIds)
  BY <1>1, FS_Subset, ZenonT(60) DEF LiveIds
<1>3. \A r \in LiveIds : r \in RegionId /\ regions[r] \in Region /\ regions[r].bytes > 0
  BY DEF LiveIds, IsLive, MigTypeOK, NoRegion, CopyInv
<1>4. QED
  BY <1>2, <1>3 DEF RegionBytes, Homes, Home, HomeOf, Region

(* A region that is accounted as before. *)
Alike(r) ==
  /\ IsLive(r)' <=> IsLive(r)
  /\ IsLive(r) => /\ regions'[r].bytes = regions[r].bytes
                  /\ regions'[r].node = regions[r].node
                  /\ regions'[r].intended = regions[r].intended

LEMMA UsageQuiet ==
  ASSUME UsageExact, node_usage' = node_usage, \A r \in RegionId : Alike(r)
  PROVE  UsageExact'
<1>1. LiveIds' = LiveIds
  BY Zenon DEF Alike, LiveIds
<1>2. \A r \in LiveIds : r \in RegionId /\ IsLive(r)
  BY Zenon DEF LiveIds
<1>3. Homes' = Homes /\ RegionBytes' = RegionBytes
  BY <1>1, <1>2, Zenon DEF Homes, RegionBytes, Home, HomeOf, Alike
<1>4. QED
  BY <1>1, <1>3, UsageAccounts, ZenonT(60)

(* The bytes of a live region are in the account of its home: neither a    *)
(* release nor a commit throws "accounting underflow".                     *)
LEMMA NeverUnderflows ==
  ASSUME UsageInv, NEW r \in LiveIds
  PROVE  ~Underflows(node_usage, Home(r), regions[r].bytes)
<1>1. MigTypeOK /\ CopyInv /\ Accounts(node_usage, LiveIds, Homes, RegionBytes)
  BY UsageAccounts, Zenon DEF UsageInv, OwnInv, MigInv, OneMover
<1>2. ~Underflows(node_usage, Homes[r], RegionBytes[r])
  BY <1>1, LiveFacts, SubAccounts, ZenonT(60)
<1>3. QED
  BY <1>1, <1>2, LiveFacts, ZenonT(60)

LEMMA RecordUsage ==
  ASSUME UsageInv, NEW t \in Thread, RecordRegion(t)
  PROVE  UsageExact'
<1>1. MigTypeOK /\ CopyInv /\ Accounts(node_usage, LiveIds, Homes, RegionBytes)
  BY UsageAccounts, ZenonT(60) DEF UsageInv, OwnInv, MigInv, OneMover
<1> DEFINE j == job[t]
<1>2. PICK n \in RegionId : n = next_region /\ regions[n] = NoRegion
  BY <1>1 DEF RecordRegion, UsageInv, OwnInv, MigInv, MigTypeOK, RegionId
<1>3. n \notin LiveIds
  BY <1>2, SMTT(30) DEF LiveIds, IsLive, NoRegion
<1>4. /\ j.req.bytes \in Nat
      /\ HomeOf(j.node, j.req.intended) \in MemNode \cup {NoNode}
  BY <1>1, MemoryConstants DEF RecordRegion, MigTypeOK, JobOK, HomeOf
<1>5. \A r \in RegionId \ {n} : regions'[r] = regions[r]
  BY <1>1, <1>2, Zenon DEF RecordRegion, MigTypeOK
<1>6. \A r \in LiveIds : r \in RegionId \ {n}
  BY <1>3, Zenon DEF LiveIds
<1>7. CASE j.buffer = NoBuffer
  <2>1. regions'[n].state = "Failed" /\ node_usage' = node_usage
    BY <1>1, <1>2, <1>7, ZenonT(60) DEF RecordRegion, MigTypeOK
  <2>2. \A r \in RegionId : Alike(r)
    BY <1>2, <1>5, <2>1 DEF Alike, IsLive, NoRegion
  <2>3. QED
    BY <2>1, <2>2, UsageQuiet, ZenonT(60) DEF UsageInv
<1>8. CASE j.buffer # NoBuffer
  <2>1. /\ regions'[n].state \in {"Active", "Allocated"}
        /\ regions'[n].bytes = j.req.bytes /\ regions'[n].node = j.node
        /\ regions'[n].intended = j.req.intended
        /\ node_usage' = Add(node_usage, HomeOf(j.node, j.req.intended), j.req.bytes)
    BY <1>1, <1>2, <1>8, ZenonT(60) DEF RecordRegion, MigTypeOK
  <2>2. LiveIds' = LiveIds \cup {n}
    BY <1>5, <2>1, ZenonT(60) DEF LiveIds, IsLive
  <2>3. /\ \A r \in LiveIds : Homes'[r] = Homes[r] /\ RegionBytes'[r] = RegionBytes[r]
        /\ Homes'[n] = HomeOf(j.node, j.req.intended)
        /\ RegionBytes'[n] = j.req.bytes
    BY <1>5, <1>6, <2>1, <2>2, ZenonT(60) DEF Homes, RegionBytes, Home, HomeOf
  <2>4. Accounts(Add(node_usage, Homes'[n], RegionBytes'[n]), LiveIds \cup {n},
                 Homes', RegionBytes')
    <3>1. IsFiniteSet(LiveIds)
      BY <1>1, LiveFacts, ZenonT(60)
    <3>2. /\ \A s \in LiveIds : RegionBytes[s] \in Nat
          /\ \A s \in LiveIds : Homes'[s] = Homes[s]
          /\ \A s \in LiveIds : RegionBytes'[s] = RegionBytes[s]
      BY <1>1, <2>3, LiveFacts, ZenonT(60)
    <3>3. Homes'[n] \in MemNode \cup {NoNode} /\ RegionBytes'[n] \in Nat
      BY <1>4, <2>3, ZenonT(60)
    <3>4. QED
      BY <1>1, <1>3, <3>1, <3>2, <3>3, AddAccounts, ZenonT(60)
  <2>5. QED
    BY <2>1, <2>2, <2>3, <2>4, UsageAccounts, ZenonT(60)
<1>9. QED
  BY <1>7, <1>8, Zenon

LEMMA ReleaseUsage ==
  ASSUME UsageInv, NEW t \in Thread, NEW r \in RegionId, NEW expected,
         Release(t, r, expected)
  PROVE  /\ UsageExact' /\ r \in LiveIds
         /\ ~Underflows(node_usage, Home(r), regions[r].bytes)
<1>1. MigTypeOK /\ CopyInv /\ Accounts(node_usage, LiveIds, Homes, RegionBytes)
  BY UsageAccounts, ZenonT(60) DEF UsageInv, OwnInv, MigInv, OneMover
<1>2. r \in LiveIds
  BY <1>1
  DEF Release, ReleaseAllowed, IsReleased, LiveIds, IsLive, UsageInv, OwnInv, NoRegion, MigTypeOK,
      Region, Lifecycle
<1>3. ~Underflows(node_usage, Home(r), regions[r].bytes)
  BY <1>2, NeverUnderflows, ZenonT(60)
<1>4. /\ node_usage' = Sub(node_usage, Home(r), regions[r].bytes)
      /\ \A s \in RegionId \ {r} : regions'[s] = regions[s]
      /\ regions'[r].state = "Released"
  BY <1>1, <1>2, <1>3, LiveFacts, SMTT(30) DEF Release, MigTypeOK, Region
<1>5. LiveIds' = LiveIds \ {r}
  BY <1>4, Zenon DEF LiveIds, IsLive
<1>6. \A s \in LiveIds \ {r} : Homes'[s] = Homes[s] /\ RegionBytes'[s] = RegionBytes[s]
  <2>1. \A s \in LiveIds : s \in RegionId
    BY Zenon DEF LiveIds
  <2>2. QED
    BY <1>4, <1>5, <2>1, ZenonT(60) DEF Homes, RegionBytes, Home, HomeOf
<1>7. Accounts(Sub(node_usage, Homes[r], RegionBytes[r]), LiveIds \ {r}, Homes', RegionBytes')
  BY <1>1, <1>2, <1>6, LiveFacts, SubAccounts, ZenonT(60)
<1>8. QED
  BY <1>1, <1>2, <1>3, <1>4, <1>5, <1>7, LiveFacts, UsageAccounts, ZenonT(60)

LEMMA CommitUsage ==
  ASSUME UsageInv, NEW t \in Thread, pc[t] = "commit"
  PROVE  /\ ~CommitThrows(t)
         /\ job[t].region \in LiveIds
         /\ CommitMove(t) => UsageExact'
<1>1. MigTypeOK /\ CopyInv /\ Accounts(node_usage, LiveIds, Homes, RegionBytes)
  BY UsageAccounts, ZenonT(60) DEF UsageInv, OwnInv, MigInv, OneMover
<1>2. PICK r \in RegionId : r = job[t].region /\ regions[r] \in Region
                           /\ regions[r].state = "Migrating" /\ job[t].home = Home(r)
                           /\ job[t].target \in MemNode
  BY Movers, ZenonT(60) DEF UsageInv, OwnInv, CopyInv, Moving, MovePart
<1>3. r \in LiveIds
  BY <1>2, Zenon DEF LiveIds, IsLive
<1>4. ~CommitThrows(t)
  BY <1>2, <1>3, NeverUnderflows, ZenonT(60) DEF CommitThrows
<1>5. ASSUME CommitMove(t) PROVE UsageExact'
  <2>1. /\ node_usage' = Add(Sub(node_usage, Home(r), regions[r].bytes), job[t].target,
                             regions[r].bytes)
        /\ \A s \in RegionId \ {r} : regions'[s] = regions[s]
        /\ regions'[r].state = "Rebound" /\ regions'[r].bytes = regions[r].bytes
        /\ regions'[r].node = job[t].target /\ regions'[r].intended = job[t].target
    BY <1>1, <1>2, <1>5, ZenonT(60) DEF CommitMove, MigTypeOK
  <2>2. LiveIds' = LiveIds
    BY <1>3, <2>1, ZenonT(60) DEF LiveIds, IsLive
  <2>3. \A s \in LiveIds \ {r} : Homes'[s] = Homes[s] /\ RegionBytes'[s] = RegionBytes[s]
    <3>1. \A s \in LiveIds \ {r} : s \in RegionId \ {r}
      BY Zenon DEF LiveIds
    <3>2. QED
      BY <2>1, <2>2, <3>1, ZenonT(60) DEF Homes, RegionBytes, Home, HomeOf
  <2>4. Homes'[r] = job[t].target /\ RegionBytes'[r] = regions[r].bytes
    BY <1>3, <2>1, <2>2, ZenonT(60) DEF Homes, RegionBytes, Home, HomeOf
  <2>5. Homes[r] = Home(r) /\ RegionBytes[r] = regions[r].bytes
    BY <1>1, <1>3, LiveFacts, ZenonT(60)
  <2>6. /\ IsFiniteSet(LiveIds) /\ Homes[r] \in MemNode \cup {NoNode}
        /\ Homes'[r] \in MemNode \cup {NoNode}
        /\ \A s \in LiveIds : RegionBytes[s] \in Nat \ {0}
        /\ \A s \in LiveIds : RegionBytes'[s] = RegionBytes[s]
    BY <1>1, <1>2, <1>3, <2>3, <2>4, <2>5, LiveFacts, ZenonT(60)
  <2>7. Accounts(Add(Sub(node_usage, Homes[r], RegionBytes[r]), Homes'[r], RegionBytes'[r]),
                 LiveIds, Homes', RegionBytes')
    BY <1>1, <1>3, <2>3, <2>6, MoveAccounts, ZenonT(60)
  <2>8. QED
    BY <2>1, <2>2, <2>4, <2>5, <2>7, UsageAccounts, ZenonT(60)
<1>6. QED
  BY <1>2, <1>3, <1>4, <1>5, ZenonT(60)

-----------------------------------------------------------------------------
(* The region a thread of S moves. *)
MovedBy(S, r) == \E t \in S : Moving(t) /\ job[t].region = r

(* It stays where it is. *)
Placed(r) ==
  /\ regions'[r].buffer = regions[r].buffer
  /\ regions'[r].node = regions[r].node /\ regions'[r].intended = regions[r].intended

(* A step of the threads S (one thread, or none for a call that is a       *)
(* single step) keeps CopyInv if it leaves the regions that others move    *)
(* alone, does what CopyInv asks of S, and loses no buffer.                *)
LEMMA CopyKept ==
  ASSUME UsageInv, NEW S, S \subseteq Thread,
         \A u \in Thread \ S : pc'[u] = pc[u] /\ job'[u] = job[u],
         \A r \in RegionId : IsLive(r)' => regions'[r].bytes > 0 /\ regions'[r].buffer # NoBuffer,
         \A r \in RegionId : regions[r].state = "Migrating" /\ ~MovedBy(S, r) => Placed(r),
         \A r \in RegionId : regions'[r].state = "Migrating" =>
           MovedBy(S, r)' \/ (regions[r].state = "Migrating" /\ ~MovedBy(S, r)),
         \A u \in S : Moving(u)' => job'[u].home = Home(job[u].region)',
         \A u \in S : pc'[u] \in {"vacate", "commit"} => job'[u].new # NoBuffer,
         \A u \in S : pc'[u] = "commit" =>
           /\ regions'[job'[u].region].buffer = job'[u].old
           /\ frees'[job'[u].old] > 0
           /\ \A v \in Thread \ {u} : pc'[v] = "commit" => job'[v].old # job'[u].old,
         \A b \in BufferId : frees'[b] \in Nat /\ frees'[b] >= frees[b],
         \A b \in 1 .. next_buffer' - 1 : frees'[b] > 0 \/ ~Unowned(b)'
  PROVE  CopyInv'
<1>1. MigInv /\ MigTypeOK /\ CopyInv /\ OwnInv
  BY Zenon DEF UsageInv, OwnInv, MigInv, OneMover
<1>2. \A u \in Thread \ S : Moving(u)' <=> Moving(u)
  BY Zenon DEF Moving
<1>3. ASSUME NEW u \in Thread \ S, Moving(u)
      PROVE  /\ job[u].region \in RegionId /\ regions[job[u].region] \in Region
             /\ regions[job[u].region].state = "Migrating"
             /\ Placed(job[u].region)
  <2>1. /\ job[u].region \in RegionId /\ regions[job[u].region] \in Region
        /\ regions[job[u].region].state = "Migrating"
    BY <1>1, <1>3, Movers, ZenonT(60) DEF OwnInv, Moving, MovePart
  <2>2. ~MovedBy(S, job[u].region)
    BY <1>1, <1>3, ZenonT(60) DEF MovedBy, MigInv, OneMover
  <2>3. QED
    BY <2>1, <2>2, ZenonT(60)
<1>4. ASSUME NEW u \in Thread, Moving(u)' PROVE job'[u].home = Home(job[u].region)'
  <2>1. CASE u \in S
    BY <1>4, <2>1, ZenonT(60)
  <2>2. CASE u \notin S
    <3>1. Moving(u) /\ job'[u] = job[u] /\ job[u].home = Home(job[u].region)
      BY <1>1, <1>2, <1>4, <2>2, ZenonT(60) DEF CopyInv
    <3>2. Placed(job[u].region)
      BY <1>3, <2>2, <3>1, ZenonT(60)
    <3>3. QED
      BY <3>1, <3>2 DEF Home, HomeOf, Placed
  <2>3. QED
    BY <2>1, <2>2, ZenonT(60)
<1>5. \A u \in Thread : pc'[u] \in {"vacate", "commit"} => job'[u].new # NoBuffer
  BY <1>1, Zenon DEF CopyInv
<1>6. ASSUME NEW r \in RegionId, regions'[r].state = "Migrating"
      PROVE  \E u \in Thread : Moving(u)' /\ job'[u].region = r
  <2>1. CASE MovedBy(S, r)'
    BY <2>1, ZenonT(60) DEF MovedBy
  <2>2. CASE regions[r].state = "Migrating" /\ ~MovedBy(S, r)
    <3>1. PICK u \in Thread : Moving(u) /\ job[u].region = r
      BY <1>1, <2>2, ZenonT(60) DEF CopyInv
    <3>2. u \notin S
      BY <2>2, <3>1, ZenonT(60) DEF MovedBy
    <3>3. QED
      BY <1>2, <3>1, <3>2, ZenonT(60)
  <2>3. QED
    BY <1>6, <2>1, <2>2, ZenonT(60)
<1>7. ASSUME NEW u \in Thread, pc'[u] = "commit"
      PROVE  /\ regions'[job'[u].region].buffer = job'[u].old
             /\ frees'[job'[u].old] > 0
             /\ \A v \in Thread \ {u} : pc'[v] = "commit" => job'[v].old # job'[u].old
  <2>1. CASE u \in S
    BY <1>7, <2>1, ZenonT(60)
  <2>2. CASE u \notin S
    <3>1. Moving(u) /\ pc[u] = "commit" /\ job'[u] = job[u]
      BY <1>7, <2>2, ZenonT(60) DEF Moving
    <3>2. /\ regions[job[u].region].buffer = job[u].old
          /\ frees[job[u].old] > 0
          /\ \A v \in Thread \ {u} : pc[v] = "commit" => job[v].old # job[u].old
      BY <1>1, <3>1, ZenonT(60) DEF CopyInv
    <3>3. job[u].old \in BufferId
      BY <1>1, <1>3, <2>2, <3>1, <3>2, ZenonT(60) DEF CopyInv, IsLive, Region
    <3>4. frees'[job[u].old] > 0
      <4>1. /\ frees'[job[u].old] >= frees[job[u].old]
            /\ frees[job[u].old] \in Nat /\ frees'[job[u].old] \in Nat
        BY <1>1, <3>3, ZenonT(60) DEF MigTypeOK
      <4>2. QED
        BY <3>2, <4>1
    <3>5. ASSUME NEW v \in Thread \ {u}, pc'[v] = "commit" PROVE job'[v].old # job'[u].old
      <4>1. CASE v \in S
        BY <1>7, <3>5, <4>1, ZenonT(60)
      <4>2. CASE v \notin S
        BY <3>1, <3>2, <3>5, <4>2, ZenonT(60)
      <4>3. QED
        BY <4>1, <4>2, ZenonT(60)
    <3>6. QED
      BY <1>3, <2>2, <3>1, <3>2, <3>4, <3>5, SMTT(30) DEF Placed
  <2>3. QED
    BY <2>1, <2>2, ZenonT(60)
<1>8. QED
  BY <1>4, <1>5, <1>6, <1>7, ZenonT(60) DEF CopyInv

(* Nothing is lost if what had an owner has one afterwards, or was freed. *)
LEMMA NoneLost ==
  ASSUME UsageInv, next_buffer' = next_buffer,
         \A b \in BufferId : frees'[b] \in Nat /\ frees'[b] >= frees[b],
         \A b \in BufferId, r \in RegionId : RegionOwns(r, b) => frees'[b] > 0 \/ ~Unowned(b)',
         \A b \in BufferId, u \in Thread : ThreadOwns(u, b) => frees'[b] > 0 \/ ~Unowned(b)'
  PROVE  \A b \in 1 .. next_buffer' - 1 : frees'[b] > 0 \/ ~Unowned(b)'
<1>1. MigTypeOK /\ CopyInv
  BY Zenon DEF UsageInv, OwnInv, MigInv, OneMover
<1> SUFFICES ASSUME NEW b \in 1 .. next_buffer - 1 PROVE frees'[b] > 0 \/ ~Unowned(b)'
  BY ZenonT(60)
<1>2. b \in BufferId /\ frees[b] \in Nat
  BY <1>1, MemoryConstants, SMTT(30) DEF MigTypeOK, BufferId
<1>3. CASE frees[b] > 0
  BY <1>2, <1>3
<1>4. CASE ~Unowned(b)
  <2>1. (\E r \in RegionId : RegionOwns(r, b)) \/ (\E u \in Thread : ThreadOwns(u, b))
    BY <1>4, Zenon DEF Unowned
  <2>2. QED
    BY <1>2, <2>1, ZenonT(60)
<1>5. QED
  BY <1>1, <1>3, <1>4, ZenonT(60) DEF CopyInv

(* The parts of a migration in which its thread has no buffer in hand. *)
Inert == {"idle", "execute", "claim", "settle"}

(* A region that keeps its owner, its buffer and its size. *)
Kept(r) ==
  \/ regions'[r] = regions[r]
  \/ /\ regions'[r].bytes = regions[r].bytes /\ Placed(r)
     /\ \/ regions'[r].state = regions[r].state
        \/ regions'[r].state \in Owning /\ regions[r].state \in Owning

LEMMA CopyQuiet ==
  ASSUME UsageInv, NEW S, S \subseteq Thread,
         \A u \in Thread \ S : pc'[u] = pc[u] /\ job'[u] = job[u],
         \A u \in S : pc[u] \in Inert /\ pc'[u] \in Inert,
         UNCHANGED <<frees, next_buffer>>,
         \A r \in RegionId : Kept(r)
  PROVE  CopyInv'
<1>1. MigTypeOK /\ CopyInv
  BY Zenon DEF UsageInv, OwnInv, MigInv, OneMover
<1>2. \A r : ~MovedBy(S, r)
  BY Zenon DEF MovedBy, Moving, Inert
<1>3. /\ \A r \in RegionId : IsLive(r)' => regions'[r].bytes > 0 /\ regions'[r].buffer # NoBuffer
      /\ \A r \in RegionId : regions[r].state = "Migrating" => Placed(r)
      /\ \A r \in RegionId : regions'[r].state = "Migrating" => regions[r].state = "Migrating"
  BY <1>1, ZenonT(60) DEF Kept, Placed, Owning, IsLive, CopyInv
<1>4. \A b \in BufferId : frees'[b] \in Nat /\ frees'[b] >= frees[b]
  BY <1>1 DEF MigTypeOK
<1>5. ASSUME NEW b \in BufferId, NEW r \in RegionId, RegionOwns(r, b) PROVE ~Unowned(b)'
  BY <1>5, ZenonT(60) DEF Kept, Placed, RegionOwns, Owning, Unowned
<1>6. ASSUME NEW b \in BufferId, NEW u \in Thread, ThreadOwns(u, b) PROVE ~Unowned(b)'
  <2>1. u \notin S
    BY <1>6, Zenon DEF ThreadOwns, Inert
  <2>2. QED
    BY <1>6, <2>1, ZenonT(60) DEF ThreadOwns, Unowned
<1>7. \A b \in 1 .. next_buffer' - 1 : frees'[b] > 0 \/ ~Unowned(b)'
  BY <1>4, <1>5, <1>6, NoneLost, ZenonT(60)
<1>8. \A u \in S : ~Moving(u)' /\ pc'[u] \notin {"vacate", "commit"}
  BY ZenonT(60) DEF Inert, Moving
<1>9. QED
  BY <1>2, <1>3, <1>4, <1>7, <1>8, CopyKept, ZenonT(60)

(* The step of a thread that moves no region. *)
LEMMA CopyStill ==
  ASSUME UsageInv, NEW t \in Thread, Others(t), ~Moving(t), ~Moving(t)',
         \A r \in RegionId : IsLive(r)' => regions'[r].bytes > 0 /\ regions'[r].buffer # NoBuffer,
         \A r \in RegionId : regions[r].state = "Migrating" => Placed(r),
         \A r \in RegionId : regions'[r].state = "Migrating" => regions[r].state = "Migrating",
         \A b \in BufferId : frees'[b] \in Nat /\ frees'[b] >= frees[b],
         \A b \in 1 .. next_buffer' - 1 : frees'[b] > 0 \/ ~Unowned(b)'
  PROVE  CopyInv'
<1>1. PICK S : S = {t}
  BY Zenon
<1>2. \A r : ~MovedBy(S, r)
  BY <1>1, Zenon DEF MovedBy
<1>3. \A u \in S : ~Moving(u)' /\ pc'[u] \notin {"vacate", "commit"}
  BY <1>1, Zenon DEF Moving
<1>4. S \subseteq Thread /\ \A u \in Thread \ S : pc'[u] = pc[u] /\ job'[u] = job[u]
  BY <1>1, ZenonT(60) DEF Others
<1>5. QED
  BY <1>2, <1>3, <1>4, CopyKept, ZenonT(60)

(* What the steps that change hands do: a buffer is obtained, recorded in  *)
(* a region, taken over by the thread that moves or releases the region,   *)
(* and given back.                                                         *)
LEMMA CopyAllocate ==
  ASSUME UsageInv, NEW t \in Thread, NEW req \in Requests, Allocate(t, req)
  PROVE  CopyInv'
<1>1. MigTypeOK /\ CopyInv /\ ThreadsOK
  BY Zenon DEF UsageInv, OwnInv, MigInv, OneMover, MigTypeOK, ThreadsOK, Part
<1>2. Others(t) /\ pc[t] = "idle" /\ pc'[t] = "record" /\ UNCHANGED <<regions, frees>>
  BY <1>1, ZenonT(60) DEF Allocate, TakeBuffer, backendVars, Others, ThreadsOK
<1>3. \/ job'[t].buffer = NoBuffer /\ next_buffer' = next_buffer
      \/ job'[t].buffer = next_buffer /\ next_buffer' = next_buffer + 1
  BY <1>1, SMTT(30) DEF Allocate, TakeBuffer, backendVars, ThreadsOK
<1>4. ASSUME NEW b \in 1 .. next_buffer' - 1 PROVE frees'[b] > 0 \/ ~Unowned(b)'
  <2>1. CASE b \in 1 .. next_buffer - 1
    <3>1. CASE frees[b] > 0
      BY <1>2, <3>1, ZenonT(60)
    <3>2. CASE \E r \in RegionId : RegionOwns(r, b)
      BY <1>2, <3>2, ZenonT(60) DEF RegionOwns, Unowned
    <3>3. CASE \E u \in Thread : ThreadOwns(u, b)
      <4>1. PICK u \in Thread : ThreadOwns(u, b)
        BY <3>3, ZenonT(60)
      <4>2. u # t
        BY <1>2, <4>1, ZenonT(60) DEF ThreadOwns
      <4>3. ThreadOwns(u, b)'
        BY <1>2, <4>1, <4>2, ZenonT(60) DEF ThreadOwns, Others
      <4>4. QED
        BY <4>3, ZenonT(60) DEF Unowned
    <3>4. QED
      BY <1>1, <2>1, <3>1, <3>2, <3>3, ZenonT(60) DEF CopyInv, Unowned
  <2>2. CASE b = next_buffer /\ next_buffer' = next_buffer + 1
    <3>1. ThreadOwns(t, b)'
      BY <1>1, <1>2, <1>3, <2>2, SMTT(30) DEF ThreadOwns, MigTypeOK
    <3>2. QED
      BY <3>1, ZenonT(60) DEF Unowned
  <2>3. QED
    BY <1>1, <1>3, <2>1, <2>2, SMTT(30) DEF MigTypeOK
<1>5. /\ \A r \in RegionId : IsLive(r)' => regions'[r].bytes > 0 /\ regions'[r].buffer # NoBuffer
      /\ \A r \in RegionId : Placed(r)
      /\ \A r \in RegionId : regions'[r].state = "Migrating" => regions[r].state = "Migrating"
  BY <1>1, <1>2, ZenonT(60) DEF Placed, IsLive, CopyInv
<1>6. \A b \in BufferId : frees'[b] \in Nat /\ frees'[b] >= frees[b]
  BY <1>1, <1>2 DEF MigTypeOK
<1>7. ~Moving(t) /\ ~Moving(t)'
  BY <1>2, ZenonT(60) DEF Moving
<1>8. QED
  BY <1>2, <1>4, <1>5, <1>6, <1>7, CopyStill, ZenonT(60)

LEMMA CopyRecord ==
  ASSUME UsageInv, NEW t \in Thread, RecordRegion(t)
  PROVE  CopyInv'
<1>1. MigInv /\ MigTypeOK /\ CopyInv /\ ThreadsOK
  BY Zenon DEF UsageInv, OwnInv, MigInv, OneMover, MigTypeOK, ThreadsOK, Part
<1>2. /\ Others(t) /\ pc[t] = "record" /\ pc'[t] = "idle" /\ UNCHANGED <<frees, next_buffer>>
  BY <1>1, Returned, ZenonT(60) DEF RecordRegion, backendVars
<1>3. PICK n \in RegionId : n = next_region /\ regions[n] = NoRegion
  BY <1>1 DEF RecordRegion, MigInv, MigTypeOK, RegionId
<1>4. /\ \A s \in RegionId \ {n} : regions'[s] = regions[s]
      /\ regions'[n].buffer = job[t].buffer
      /\ job[t].buffer = NoBuffer => regions'[n].state = "Failed"
      /\ job[t].buffer # NoBuffer =>
           regions'[n].state \in {"Active", "Allocated"} /\ regions'[n].bytes = job[t].req.bytes
  BY <1>1, <1>3, ZenonT(60) DEF RecordRegion, MigTypeOK
<1>5. job[t].req.bytes > 0
  BY <1>1, <1>2, MemoryConstants, SMTT(30) DEF ThreadsOK, JobOK
<1>6. /\ \A r \in RegionId : IsLive(r)' => regions'[r].bytes > 0 /\ regions'[r].buffer # NoBuffer
      /\ \A r \in RegionId : regions[r].state = "Migrating" => Placed(r)
      /\ \A r \in RegionId : regions'[r].state = "Migrating" => regions[r].state = "Migrating"
  BY <1>1, <1>3, <1>4, <1>5, SMTT(30) DEF Placed, IsLive, CopyInv, NoRegion
<1>7. \A b \in BufferId : frees'[b] \in Nat /\ frees'[b] >= frees[b]
  BY <1>1, <1>2, SMTT(30) DEF MigTypeOK
<1>8. ASSUME NEW b \in BufferId, NEW r \in RegionId, RegionOwns(r, b) PROVE ~Unowned(b)'
  BY <1>3, <1>4, <1>8, SMTT(30) DEF RegionOwns, Owning, Unowned, NoRegion
<1>9. ASSUME NEW b \in BufferId, NEW u \in Thread, ThreadOwns(u, b) PROVE ~Unowned(b)'
  <2>1. CASE u = t
    <3>1. job[t].buffer = b /\ b # NoBuffer
      BY <1>2, <1>9, <2>1, SMTT(30) DEF ThreadOwns, BufferId, NoBuffer
    <3>2. RegionOwns(n, b)'
      BY <1>4, <3>1, ZenonT(60) DEF RegionOwns, Owning
    <3>3. QED
      BY <3>2, ZenonT(60) DEF Unowned
  <2>2. CASE u # t
    BY <1>2, <1>9, <2>2, ZenonT(60) DEF ThreadOwns, Unowned, Others
  <2>3. QED
    BY <2>1, <2>2, ZenonT(60)
<1>10. \A b \in 1 .. next_buffer' - 1 : frees'[b] > 0 \/ ~Unowned(b)'
  BY <1>2, <1>7, <1>8, <1>9, NoneLost, ZenonT(60)
<1>11. ~Moving(t) /\ ~Moving(t)'
  BY <1>2, ZenonT(60) DEF Moving
<1>12. QED
  BY <1>2, <1>6, <1>7, <1>10, <1>11, CopyStill, ZenonT(60)

LEMMA CopyRelease ==
  ASSUME UsageInv, NEW t \in Thread, NEW r \in RegionId, NEW expected,
         regions[r].state # "Migrating", Release(t, r, expected)
  PROVE  CopyInv'
<1>1. MigInv /\ MigTypeOK /\ CopyInv /\ ThreadsOK
  BY ZenonT(60) DEF UsageInv, OwnInv, MigInv, OneMover, MigTypeOK, ThreadsOK, Part
<1>2. r \in LiveIds /\ ~Underflows(node_usage, Home(r), regions[r].bytes)
  BY ReleaseUsage, ZenonT(60)
<1>3. regions[r] \in Region /\ regions[r].state \in Owning
  BY <1>1, <1>2, SMTT(30) DEF LiveIds, IsLive, MigTypeOK, NoRegion, Owning
<1>4. /\ Others(t) /\ pc[t] = "idle" /\ pc'[t] = "free" /\ job'[t].buffer = regions[r].buffer
      /\ UNCHANGED <<frees, next_buffer>>
  BY <1>1, <1>2, SMTT(30) DEF Release, ThreadsOK, Others, backendVars
<1>5. /\ \A s \in RegionId \ {r} : regions'[s] = regions[s]
      /\ regions'[r].state = "Released" /\ regions[r].state # "Migrating"
  BY <1>1, <1>2, <1>3, SMTT(30) DEF Release, MigTypeOK, Region
<1>6. /\ \A s \in RegionId : IsLive(s)' => regions'[s].bytes > 0 /\ regions'[s].buffer # NoBuffer
      /\ \A s \in RegionId : regions[s].state = "Migrating" => Placed(s)
      /\ \A s \in RegionId : regions'[s].state = "Migrating" => regions[s].state = "Migrating"
  BY <1>1, <1>5, ZenonT(60) DEF Placed, IsLive, CopyInv
<1>7. \A b \in BufferId : frees'[b] \in Nat /\ frees'[b] >= frees[b]
  BY <1>1, <1>4, SMTT(30) DEF MigTypeOK
<1>8. ASSUME NEW b \in BufferId, NEW s \in RegionId, RegionOwns(s, b) PROVE ~Unowned(b)'
  <2>1. CASE s = r
    BY <1>4, <1>8, <2>1, ZenonT(60) DEF RegionOwns, ThreadOwns, Unowned
  <2>2. CASE s # r
    BY <1>5, <1>8, <2>2, ZenonT(60) DEF RegionOwns, Owning, Unowned
  <2>3. QED
    BY <2>1, <2>2, ZenonT(60)
<1>9. ASSUME NEW b \in BufferId, NEW u \in Thread, ThreadOwns(u, b) PROVE ~Unowned(b)'
  BY <1>4, <1>9, ZenonT(60) DEF ThreadOwns, Unowned, Others
<1>10. \A b \in 1 .. next_buffer' - 1 : frees'[b] > 0 \/ ~Unowned(b)'
  BY <1>4, <1>7, <1>8, <1>9, NoneLost, ZenonT(60)
<1>11. ~Moving(t) /\ ~Moving(t)'
  BY <1>4, ZenonT(60) DEF Moving
<1>12. QED
  BY <1>4, <1>6, <1>7, <1>10, <1>11, CopyStill, ZenonT(60)

LEMMA CopyFree ==
  ASSUME UsageInv, NEW t \in Thread, FreeReleased(t)
  PROVE  CopyInv'
<1>1. MigTypeOK /\ CopyInv /\ ThreadsOK
  BY Zenon DEF UsageInv, OwnInv, MigInv, OneMover, MigTypeOK, ThreadsOK, Part
<1>2. /\ Others(t) /\ pc[t] = "free" /\ pc'[t] = "idle" /\ UNCHANGED <<regions, next_buffer>>
  BY <1>1, Returned, ZenonT(60) DEF FreeReleased, GiveBack
<1>3. \A b \in BufferId : frees'[b] = frees[b] + IF b = job[t].buffer THEN 1 ELSE 0
  BY Zenon DEF FreeReleased, GiveBack
<1>4. /\ \A r \in RegionId : IsLive(r)' => regions'[r].bytes > 0 /\ regions'[r].buffer # NoBuffer
      /\ \A r \in RegionId : Placed(r)
      /\ \A r \in RegionId : regions'[r].state = "Migrating" => regions[r].state = "Migrating"
  BY <1>1, <1>2, ZenonT(60) DEF Placed, IsLive, CopyInv
<1>5. \A b \in BufferId : frees'[b] \in Nat /\ frees'[b] >= frees[b]
  BY <1>1, <1>3, SMTT(30) DEF MigTypeOK
<1>6. ASSUME NEW b \in BufferId, NEW r \in RegionId, RegionOwns(r, b) PROVE ~Unowned(b)'
  BY <1>2, <1>6, ZenonT(60) DEF RegionOwns, Unowned
<1>7. ASSUME NEW b \in BufferId, NEW u \in Thread, ThreadOwns(u, b)
      PROVE  frees'[b] > 0 \/ ~Unowned(b)'
  <2>1. CASE u = t
    <3>1. b = job[t].buffer /\ frees[b] \in Nat
      BY <1>1, <1>2, <1>7, <2>1, ZenonT(60) DEF ThreadOwns, MigTypeOK
    <3>2. QED
      BY <1>3, <3>1, SMTT(30)
  <2>2. CASE u # t
    BY <1>2, <1>7, <2>2, ZenonT(60) DEF ThreadOwns, Unowned, Others
  <2>3. QED
    BY <2>1, <2>2, ZenonT(60)
<1>8. \A b \in 1 .. next_buffer' - 1 : frees'[b] > 0 \/ ~Unowned(b)'
  BY <1>2, <1>5, <1>6, <1>7, NoneLost, ZenonT(60)
<1>9. ~Moving(t) /\ ~Moving(t)'
  BY <1>2, ZenonT(60) DEF Moving
<1>10. QED
  BY <1>2, <1>4, <1>5, <1>8, <1>9, CopyStill, ZenonT(60)

(* A thread in the middle of a move: it keeps the buffers it holds, frees  *)
(* the old one, or hands one to the region.                                *)
LEMMA CopyMover ==
  ASSUME UsageInv, NEW t \in Thread, Others(t), NEW r \in RegionId, r = job[t].region,
         Moving(t) \/ regions[r].state = "MigrationPending",
         Moving(t)' => job'[t].region = r /\ job'[t].home = Home(r)',
         \A s \in RegionId \ {r} : regions'[s] = regions[s],
         regions'[r].state = "Migrating" => Moving(t)',
         IsLive(r)' => regions'[r].bytes > 0 /\ regions'[r].buffer # NoBuffer,
         pc'[t] \in {"vacate", "commit"} => job'[t].new # NoBuffer,
         pc'[t] = "commit" =>
           /\ regions'[r].buffer = job'[t].old
           /\ frees'[job'[t].old] > 0
           /\ \A u \in Thread \ {t} : pc[u] = "commit" => job[u].old # job'[t].old,
         \A b \in BufferId : frees'[b] \in Nat /\ frees'[b] >= frees[b],
         \A b \in 1 .. next_buffer' - 1 : frees'[b] > 0 \/ ~Unowned(b)'
  PROVE  CopyInv'
<1>1. PICK S : S = {t}
  BY Zenon
<1>2. CopyInv
  BY Zenon DEF UsageInv
<1>3. S \subseteq Thread /\ \A u \in Thread \ S : pc'[u] = pc[u] /\ job'[u] = job[u]
  BY <1>1, ZenonT(60) DEF Others
<1>4. \A s \in RegionId : IsLive(s)' => regions'[s].bytes > 0 /\ regions'[s].buffer # NoBuffer
  BY <1>2 DEF CopyInv, IsLive
<1>5. ASSUME NEW s \in RegionId, regions[s].state = "Migrating", ~MovedBy(S, s) PROVE Placed(s)
  BY <1>1, <1>5, ZenonT(60) DEF MovedBy, Placed
<1>6. ASSUME NEW s \in RegionId, regions'[s].state = "Migrating"
      PROVE  MovedBy(S, s)' \/ (regions[s].state = "Migrating" /\ ~MovedBy(S, s))
  <2>1. CASE s = r
    BY <1>1, <1>6, <2>1, ZenonT(60) DEF MovedBy
  <2>2. CASE s # r
    BY <1>1, <1>6, <2>2, ZenonT(60) DEF MovedBy
  <2>3. QED
    BY <2>1, <2>2, ZenonT(60)
<1>7. \A u \in S : Moving(u)' => job'[u].home = Home(job[u].region)'
  BY <1>1, ZenonT(60)
<1>8. \A u \in S : pc'[u] \in {"vacate", "commit"} => job'[u].new # NoBuffer
  BY <1>1, ZenonT(60)
<1>9. \A u \in S : pc'[u] = "commit" =>
        /\ regions'[job'[u].region].buffer = job'[u].old
        /\ frees'[job'[u].old] > 0
        /\ \A v \in Thread \ {u} : pc'[v] = "commit" => job'[v].old # job'[u].old
  BY <1>1, SMTT(30) DEF Others, Moving
<1>10. QED
  BY <1>3, <1>4, <1>5, <1>6, <1>7, <1>8, <1>9, CopyKept, ZenonT(60)

LEMMA CopyClaim ==
  ASSUME UsageInv, NEW t \in Thread, ClaimRegion(t)
  PROVE  CopyInv'
<1>1. MigInv /\ MigTypeOK /\ CopyInv /\ ThreadsOK
  BY Zenon DEF UsageInv, OwnInv, MigInv, OneMover, MigTypeOK, ThreadsOK, Part
<1>2. PICK r \in RegionId :
        /\ pc[t] = "claim" /\ r = job[t].region
        /\ regions[r] \in Region /\ regions[r].state = "MigrationPending"
  BY <1>1, Movers, Table, ZenonT(60) DEF ClaimRegion, Claimable, MigTypeOK, MovePart
<1>3. /\ Others(t) /\ pc'[t] = "obtain"
      /\ job'[t].region = r /\ job'[t].old = regions[r].buffer /\ job'[t].home = Home(r)
      /\ UNCHANGED <<frees, next_buffer>>
  BY <1>1, <1>2, Movers, ZenonT(60) DEF ClaimRegion, ThreadsOK, Others, MovePart, backendVars
<1>4. /\ \A s \in RegionId \ {r} : regions'[s] = regions[s]
      /\ regions'[r].state = "Migrating" /\ regions'[r].buffer = regions[r].buffer
      /\ regions'[r].bytes = regions[r].bytes /\ Home(r)' = Home(r)
  BY <1>1, <1>2, ZenonT(60) DEF ClaimRegion, MigTypeOK, Region, Home
<1>5. regions[r].bytes > 0 /\ regions[r].buffer # NoBuffer
  BY <1>1, <1>2, ZenonT(60) DEF CopyInv, IsLive
<1>6. \A b \in BufferId : frees'[b] \in Nat /\ frees'[b] >= frees[b]
  BY <1>1, <1>3, SMTT(30) DEF MigTypeOK
<1>7. ASSUME NEW b \in BufferId, NEW s \in RegionId, RegionOwns(s, b) PROVE ~Unowned(b)'
  <2>1. CASE s = r
    BY <1>3, <1>7, <2>1, ZenonT(60) DEF RegionOwns, ThreadOwns, Unowned
  <2>2. CASE s # r
    BY <1>4, <1>7, <2>2, ZenonT(60) DEF RegionOwns, Owning, Unowned
  <2>3. QED
    BY <2>1, <2>2, ZenonT(60)
<1>8. ASSUME NEW b \in BufferId, NEW u \in Thread, ThreadOwns(u, b) PROVE ~Unowned(b)'
  <2>1. u # t
    BY <1>2, <1>8, ZenonT(60) DEF ThreadOwns
  <2>2. QED
    BY <1>3, <1>8, <2>1, ZenonT(60) DEF ThreadOwns, Unowned, Others
<1>9. \A b \in 1 .. next_buffer' - 1 : frees'[b] > 0 \/ ~Unowned(b)'
  BY <1>3, <1>6, <1>7, <1>8, NoneLost, ZenonT(60)
<1>10. Moving(t)'
  BY <1>3, ZenonT(60) DEF Moving
<1>11. QED
  BY <1>2, <1>3, <1>4, <1>5, <1>6, <1>9, <1>10, CopyMover, ZenonT(60)

(* What a mover knows. *)
LEMMA MoverFacts ==
  ASSUME UsageInv, NEW t \in Thread, Moving(t)
  PROVE  /\ job[t].region \in RegionId /\ regions[job[t].region] \in Region
         /\ regions[job[t].region].state = "Migrating"
         /\ regions[job[t].region].bytes > 0
         /\ regions[job[t].region].buffer = job[t].old /\ job[t].old \in BufferId
         /\ job[t].home = Home(job[t].region)
         /\ job[t].new \in BufferId \cup {NoBuffer}
<1>1. MigInv /\ CopyInv /\ OwnInv
  BY Zenon DEF UsageInv, OwnInv
<1>2. /\ job[t].region \in RegionId /\ regions[job[t].region] \in Region
      /\ regions[job[t].region].state = "Migrating"
      /\ job[t].new \in BufferId \cup {NoBuffer}
  BY <1>1, Movers, ZenonT(60) DEF OwnInv, Moving, MovePart
<1>3. regions[job[t].region].buffer = job[t].old
  BY <1>1, Zenon DEF OwnInv, CopyInv
<1>4. /\ regions[job[t].region].bytes > 0 /\ regions[job[t].region].buffer # NoBuffer
      /\ job[t].home = Home(job[t].region)
  BY <1>1, <1>2, ZenonT(60) DEF CopyInv, IsLive
<1>5. QED
  BY <1>2, <1>3, <1>4, ZenonT(60) DEF Region

LEMMA CopyObtain ==
  ASSUME UsageInv, NEW t \in Thread, ObtainTarget(t)
  PROVE  CopyInv'
<1>1. MigInv /\ MigTypeOK /\ CopyInv /\ ThreadsOK
  BY Zenon DEF UsageInv, OwnInv, MigInv, OneMover, MigTypeOK, ThreadsOK, Part
<1>2. /\ Others(t) /\ pc[t] = "obtain" /\ pc'[t] = "vacate"
      /\ job'[t].region = job[t].region /\ job'[t].old = job[t].old /\ job'[t].home = job[t].home
      /\ job'[t].new = next_buffer /\ next_buffer' = next_buffer + 1
      /\ UNCHANGED <<regions, frees>>
  BY <1>1, Movers, ZenonT(60) DEF ObtainTarget, TakeBuffer, ThreadsOK, Others, MovePart
<1>3. Moving(t) /\ Moving(t)'
  BY <1>2, ZenonT(60) DEF Moving
<1>4. PICK r \in RegionId : /\ r = job[t].region /\ job[t].home = Home(r)
                           /\ regions[r].bytes > 0 /\ regions[r].buffer # NoBuffer
  BY <1>3, MoverFacts, SMTT(30) DEF BufferId, NoBuffer
<1>5. Home(r)' = Home(r)
  BY <1>2, ZenonT(60) DEF Home
<1>6. \A b \in BufferId : frees'[b] \in Nat /\ frees'[b] >= frees[b]
  BY <1>1, <1>2, SMTT(30) DEF MigTypeOK
<1>7. next_buffer # NoBuffer
  BY <1>1, SMTT(30) DEF MigTypeOK, NoBuffer
<1>8. ASSUME NEW b \in 1 .. next_buffer' - 1 PROVE frees'[b] > 0 \/ ~Unowned(b)'
  <2>1. CASE b \in 1 .. next_buffer - 1
    <3>1. CASE frees[b] > 0
      BY <1>2, <3>1, ZenonT(60)
    <3>2. CASE \E s \in RegionId : RegionOwns(s, b)
      BY <1>2, <3>2, ZenonT(60) DEF RegionOwns, Unowned
    <3>3. CASE \E u \in Thread : ThreadOwns(u, b)
      <4>1. PICK u \in Thread : ThreadOwns(u, b)
        BY <3>3, ZenonT(60)
      <4>2. ThreadOwns(u, b)'
        BY <1>2, <4>1, ZenonT(60) DEF ThreadOwns, Others
      <4>3. QED
        BY <4>2, ZenonT(60) DEF Unowned
    <3>4. QED
      BY <1>1, <2>1, <3>1, <3>2, <3>3, ZenonT(60) DEF CopyInv, Unowned
  <2>2. CASE b = next_buffer
    <3>1. ThreadOwns(t, b)'
      BY <1>2, <2>2, ZenonT(60) DEF ThreadOwns
    <3>2. QED
      BY <3>1, ZenonT(60) DEF Unowned
  <2>3. QED
    BY <1>1, <1>2, <2>1, <2>2, SMTT(30) DEF MigTypeOK
<1>9. pc'[t] # "commit" /\ job'[t].new # NoBuffer
  BY <1>2, <1>7, ZenonT(60)
<1>10. QED
  BY <1>2, <1>3, <1>4, <1>5, <1>6, <1>8, <1>9, CopyMover, ZenonT(60)

LEMMA CopyExhausted ==
  ASSUME UsageInv, NEW t \in Thread, TargetExhausted(t)
  PROVE  CopyInv'
<1>1. MigInv /\ MigTypeOK /\ CopyInv /\ ThreadsOK
  BY Zenon DEF UsageInv, OwnInv, MigInv, OneMover, MigTypeOK, ThreadsOK, Part
<1>2. /\ Others(t) /\ pc[t] = "obtain" /\ pc'[t] = "retain" /\ job'[t] = job[t]
      /\ UNCHANGED <<regions, frees, next_buffer>>
  BY <1>1, Went, ZenonT(60) DEF TargetExhausted, MovePart, backendVars
<1>3. Moving(t) /\ Moving(t)'
  BY <1>2, ZenonT(60) DEF Moving
<1>4. PICK r \in RegionId : /\ r = job[t].region /\ job[t].home = Home(r)
                           /\ regions[r].bytes > 0 /\ regions[r].buffer # NoBuffer
  BY <1>3, MoverFacts DEF BufferId, NoBuffer
<1>5. Home(r)' = Home(r)
  BY <1>2, ZenonT(60) DEF Home
<1>6. \A b \in BufferId : frees'[b] \in Nat /\ frees'[b] >= frees[b]
  BY <1>1, <1>2, SMTT(30) DEF MigTypeOK
<1>7. ASSUME NEW b \in BufferId, NEW s \in RegionId, RegionOwns(s, b) PROVE ~Unowned(b)'
  BY <1>2, <1>7, ZenonT(60) DEF RegionOwns, Unowned
<1>8. ASSUME NEW b \in BufferId, NEW u \in Thread, ThreadOwns(u, b) PROVE ~Unowned(b)'
  BY <1>2, <1>8, ZenonT(60) DEF ThreadOwns, Unowned, Others
<1>9. \A b \in 1 .. next_buffer' - 1 : frees'[b] > 0 \/ ~Unowned(b)'
  BY <1>2, <1>6, <1>7, <1>8, NoneLost, ZenonT(60)
<1>10. pc'[t] \notin {"vacate", "commit"}
  BY <1>2, ZenonT(60)
<1>11. QED
  BY <1>2, <1>3, <1>4, <1>5, <1>6, <1>9, <1>10, CopyMover, ZenonT(60)

LEMMA CopyRetain ==
  ASSUME UsageInv, NEW t \in Thread, RetainOriginal(t)
  PROVE  CopyInv'
<1>1. MigInv /\ MigTypeOK /\ CopyInv /\ ThreadsOK
  BY Zenon DEF UsageInv, OwnInv, MigInv, OneMover, MigTypeOK, ThreadsOK, Part
<1>2. /\ Others(t) /\ pc[t] = "retain" /\ pc'[t] = "settle"
      /\ UNCHANGED <<frees, next_buffer>>
  BY <1>1, Went, ZenonT(60) DEF RetainOriginal, MovePart, backendVars
<1>3. Moving(t) /\ ~Moving(t)' /\ pc'[t] \notin {"vacate", "commit"}
  BY <1>2, ZenonT(60) DEF Moving
<1>4. PICK r \in RegionId :
        /\ r = job[t].region /\ regions[r] \in Region /\ regions[r].state = "Migrating"
        /\ regions[r].bytes > 0 /\ regions[r].buffer = job[t].old /\ job[t].old # NoBuffer
  BY <1>3, MoverFacts, SMTT(30) DEF BufferId, NoBuffer
<1>5. /\ \A s \in RegionId \ {r} : regions'[s] = regions[s]
      /\ regions'[r].state = "Active" /\ regions'[r].buffer = job[t].old
      /\ regions'[r].bytes = regions[r].bytes
  BY <1>1, <1>4, ZenonT(60) DEF RetainOriginal, MigTypeOK, Region
<1>6. \A b \in BufferId : frees'[b] \in Nat /\ frees'[b] >= frees[b]
  BY <1>1, <1>2, SMTT(30) DEF MigTypeOK
<1>7. ASSUME NEW b \in BufferId, NEW s \in RegionId, RegionOwns(s, b) PROVE ~Unowned(b)'
  BY <1>4, <1>5, <1>7, ZenonT(60) DEF RegionOwns, Owning, Unowned
<1>8. ASSUME NEW b \in BufferId, NEW u \in Thread, ThreadOwns(u, b) PROVE ~Unowned(b)'
  <2>1. CASE u = t
    <3>1. RegionOwns(r, b)'
      BY <1>2, <1>5, <1>8, <2>1, ZenonT(60) DEF ThreadOwns, RegionOwns, Owning
    <3>2. QED
      BY <3>1, Zenon DEF Unowned
  <2>2. CASE u # t
    BY <1>2, <1>8, <2>2, ZenonT(60) DEF ThreadOwns, Unowned, Others
  <2>3. QED
    BY <2>1, <2>2, Zenon
<1>9. \A b \in 1 .. next_buffer' - 1 : frees'[b] > 0 \/ ~Unowned(b)'
  BY <1>2, <1>6, <1>7, <1>8, NoneLost, ZenonT(60)
<1>10. QED
  BY <1>2, <1>3, <1>4, <1>5, <1>6, <1>9, CopyMover, ZenonT(60)

LEMMA CopyVacate ==
  ASSUME UsageInv, NEW t \in Thread, VacateOld(t)
  PROVE  CopyInv'
<1>1. MigInv /\ MigTypeOK /\ CopyInv /\ ThreadsOK /\ OwnInv
  BY Zenon DEF UsageInv, OwnInv, MigInv, OneMover, MigTypeOK, ThreadsOK, Part
<1>2. /\ Others(t) /\ pc[t] = "vacate" /\ pc'[t] = "commit" /\ job'[t] = job[t]
      /\ UNCHANGED <<regions, next_buffer>>
  BY <1>1, Went, ZenonT(60) DEF VacateOld, GiveBack, MovePart
<1>3. Moving(t) /\ Moving(t)'
  BY <1>2, ZenonT(60) DEF Moving
<1>4. PICK r \in RegionId :
        /\ r = job[t].region /\ job[t].home = Home(r)
        /\ regions[r].bytes > 0 /\ regions[r].buffer = job[t].old
        /\ job[t].old \in BufferId /\ job[t].old # NoBuffer
  BY <1>3, MoverFacts DEF BufferId, NoBuffer
<1>5. Home(r)' = Home(r)
  BY <1>2, ZenonT(60) DEF Home
<1>6. \A b \in BufferId : frees'[b] = frees[b] + IF b = job[t].old THEN 1 ELSE 0
  BY ZenonT(60) DEF VacateOld, GiveBack
<1>7. \A b \in BufferId : frees'[b] \in Nat /\ frees'[b] >= frees[b]
  BY <1>1, <1>6, SMTT(30) DEF MigTypeOK
<1>8. frees[job[t].old] = 0 /\ frees'[job[t].old] > 0
  <2>1. ThreadOwns(t, job[t].old) /\ Exclusive(job[t].old)
    BY <1>1, <1>2, <1>4, ZenonT(60) DEF ThreadOwns, OwnInv
  <2>2. frees[job[t].old] = 0
    BY <2>1, ZenonT(60) DEF Exclusive, Unowned
  <2>3. QED
    BY <1>4, <1>6, <2>2, SMTT(30)
<1>9. \A u \in Thread \ {t} : pc[u] = "commit" => job[u].old # job[t].old
  BY <1>1, <1>8 DEF CopyInv
<1>10. job[t].new # NoBuffer
  BY <1>1, <1>2, ZenonT(60) DEF CopyInv
<1>11. ASSUME NEW b \in BufferId, NEW s \in RegionId, RegionOwns(s, b) PROVE ~Unowned(b)'
  BY <1>2, <1>11, ZenonT(60) DEF RegionOwns, Unowned
<1>12. ASSUME NEW b \in BufferId, NEW u \in Thread, ThreadOwns(u, b)
       PROVE  frees'[b] > 0 \/ ~Unowned(b)'
  <2>1. CASE u = t /\ b = job[t].old
    BY <1>8, <2>1, ZenonT(60)
  <2>2. CASE u # t \/ b # job[t].old
    <3>1. ThreadOwns(u, b)'
      BY <1>2, <1>12, <2>2, ZenonT(60) DEF ThreadOwns, Others
    <3>2. QED
      BY <3>1, ZenonT(60) DEF Unowned
  <2>3. QED
    BY <2>1, <2>2, ZenonT(60)
<1>13. \A b \in 1 .. next_buffer' - 1 : frees'[b] > 0 \/ ~Unowned(b)'
  BY <1>2, <1>7, <1>11, <1>12, NoneLost, ZenonT(60)
<1>14. QED
  BY <1>2, <1>3, <1>4, <1>5, <1>7, <1>8, <1>9, <1>10, <1>13, CopyMover, ZenonT(60)

LEMMA CopyCommit ==
  ASSUME UsageInv, NEW t \in Thread, CommitMove(t)
  PROVE  CopyInv'
<1>1. MigInv /\ MigTypeOK /\ CopyInv /\ ThreadsOK /\ OwnInv
  BY Zenon DEF UsageInv, OwnInv, MigInv, OneMover, MigTypeOK, ThreadsOK, Part
<1>2. /\ Others(t) /\ pc[t] = "commit" /\ pc'[t] = "settle"
      /\ UNCHANGED <<frees, next_buffer>>
  BY <1>1, ZenonT(60) DEF CommitMove, ThreadsOK, Others, backendVars
<1>3. Moving(t) /\ ~Moving(t)' /\ pc'[t] \notin {"vacate", "commit"}
  BY <1>2, ZenonT(60) DEF Moving
<1>4. PICK r \in RegionId :
        /\ r = job[t].region /\ regions[r].state = "Migrating" /\ regions[r].bytes > 0
  BY <1>3, MoverFacts, ZenonT(60)
<1>5. /\ \A s \in RegionId \ {r} : regions'[s] = regions[s]
      /\ regions'[r].state = "Rebound" /\ regions'[r].buffer = job[t].new
      /\ regions'[r].bytes = regions[r].bytes
  BY <1>1, <1>4, ZenonT(60) DEF CommitMove, MigTypeOK
<1>6. job[t].new # NoBuffer
  BY <1>1, <1>2, ZenonT(60) DEF CopyInv
<1>7. \A b \in BufferId : frees'[b] \in Nat /\ frees'[b] >= frees[b]
  BY <1>1, <1>2, SMTT(30) DEF MigTypeOK
<1>8. ASSUME NEW b \in BufferId, NEW s \in RegionId, RegionOwns(s, b) PROVE ~Unowned(b)'
  BY <1>4, <1>5, <1>8, ZenonT(60) DEF RegionOwns, Owning, Unowned
<1>9. ASSUME NEW b \in BufferId, NEW u \in Thread, ThreadOwns(u, b) PROVE ~Unowned(b)'
  <2>1. CASE u = t
    <3>1. RegionOwns(r, b)'
      BY <1>2, <1>5, <1>9, <2>1, ZenonT(60) DEF ThreadOwns, RegionOwns, Owning
    <3>2. QED
      BY <3>1, Zenon DEF Unowned
  <2>2. CASE u # t
    BY <1>2, <1>9, <2>2, ZenonT(60) DEF ThreadOwns, Unowned, Others
  <2>3. QED
    BY <2>1, <2>2, Zenon
<1>10. \A b \in 1 .. next_buffer' - 1 : frees'[b] > 0 \/ ~Unowned(b)'
  BY <1>2, <1>7, <1>8, <1>9, NoneLost, ZenonT(60)
<1>11. QED
  BY <1>2, <1>3, <1>4, <1>5, <1>6, <1>7, <1>10, CopyMover, ZenonT(60)

(* Every step keeps the accounts and the copies. *)
LEMMA UsageInductive ==
  ASSUME Disciplined, UsageInv, [MigNext]_migVars
  PROVE  UsageInv'
<1>0. MigInv /\ MigTypeOK /\ ThreadsOK /\ OwnInv /\ UsageExact /\ CopyInv
  BY Zenon DEF UsageInv, OwnInv, MigInv, OneMover, MigTypeOK, ThreadsOK, Part
<1>1. OwnInv'
  BY <1>0, OwnInductive, ZenonT(60)
<1>2. ASSUME UNCHANGED <<regions, node_usage>> PROVE UsageExact'
  BY <1>0, <1>2, UsageQuiet, ZenonT(60) DEF Alike, IsLive
<1>3. ASSUME NEW t \in Thread, Execute(t) \/ ExecuteRefused(t) \/ Settle(t) \/ ClaimThrows(t)
      PROVE  UsageExact' /\ CopyInv'
  <2>1. /\ Others(t) /\ pc[t] \in Inert /\ pc'[t] \in Inert
        /\ UNCHANGED <<regions, node_usage, frees, next_buffer>>
    BY <1>0, <1>3, Went, Returned, ZenonT(60)
    DEF Execute, ExecuteRefused, Settle, ClaimThrows, Inert, MovePart, backendVars
  <2>2. PICK S : S = {t}
    BY ZenonT(60)
  <2>3. CopyInv'
    BY <2>1, <2>2, CopyQuiet, SMTT(30) DEF Others, Kept
  <2>4. QED
    BY <1>2, <2>1, <2>3, ZenonT(60)
<1>4. ASSUME NEW t \in Thread, NEW r \in RegionId, NEW target \in MemNode, Begin(t, r, target)
      PROVE  UsageExact' /\ CopyInv'
  <2>1. regions[r] \in Region /\ regions[r].state = "Active"
    BY <1>0, <1>4, Table, ZenonT(60) DEF Begin, Transition, MigTypeOK
  <2>2. /\ \A s \in RegionId \ {r} : regions'[s] = regions[s]
        /\ regions'[r].state = "MigrationPending" /\ Placed(r)
        /\ regions'[r].bytes = regions[r].bytes
    BY <1>0, <1>4, <2>1, ZenonT(60) DEF Begin, Transition, MigTypeOK, Region, Placed
  <2>3. (\A s \in RegionId : Kept(s)) /\ \A s \in RegionId : Alike(s)
    BY <2>1, <2>2, ZenonT(60) DEF Kept, Alike, Owning, IsLive, Placed
  <2>4. /\ \A u \in Thread \ {t} : pc'[u] = pc[u] /\ job'[u] = job[u]
        /\ pc[t] \in Inert /\ pc'[t] \in Inert
        /\ UNCHANGED <<node_usage, frees, next_buffer>>
    BY <1>0, <1>4, ZenonT(60) DEF Begin, ThreadsOK, Inert, backendVars
  <2>5. PICK S : S = {t}
    BY ZenonT(60)
  <2>6. CopyInv'
    BY <2>3, <2>4, <2>5, CopyQuiet, SMTT(30)
  <2>7. QED
    BY <1>0, <2>3, <2>4, <2>6, UsageQuiet, ZenonT(60)
<1>5. ASSUME UNCHANGED <<regions, node_usage, frees, next_buffer, pc, job>>
      PROVE  UsageExact' /\ CopyInv'
  <2>1. PICK S : S = {}
    BY ZenonT(60)
  <2>2. CopyInv'
    BY <1>5, <2>1, CopyQuiet, SMTT(30) DEF Kept
  <2>3. QED
    BY <1>2, <1>5, <2>2, ZenonT(60)
<1>6. ASSUME NEW a \in AttemptId, Rollback(a) PROVE UsageExact' /\ CopyInv'
  <2> DEFINE r == attempts[a].region
  <2>1. UNCHANGED <<node_usage, frees, next_buffer, pc, job>>
    BY <1>6, ZenonT(60) DEF Rollback, backendVars
  <2>2. CASE UNCHANGED regions
    BY <1>5, <2>1, <2>2, ZenonT(60)
  <2>3. CASE Transition(r, "Active")
    <3>1. r \in RegionId
      <4>1. attempts[a] # NoAttempt
        BY <1>6, SMTT(30) DEF Rollback, NoAttempt
      <4>2. QED
        BY <1>0, <4>1, ZenonT(60) DEF MigTypeOK, Attempt
    <3>2. regions[r] \in Region /\ regions[r].state \in {"Allocated", "MigrationPending", "Rebound"}
      BY <1>0, <2>3, <3>1, Table, ZenonT(60) DEF Transition, MigTypeOK
    <3>3. /\ \A s \in RegionId \ {r} : regions'[s] = regions[s]
          /\ regions'[r].state = "Active" /\ Placed(r) /\ regions'[r].bytes = regions[r].bytes
      BY <1>0, <2>3, <3>1, <3>2, ZenonT(60) DEF Transition, MigTypeOK, Region, Placed
    <3>4. (\A s \in RegionId : Kept(s)) /\ \A s \in RegionId : Alike(s)
      BY <3>1, <3>2, <3>3, ZenonT(60) DEF Kept, Alike, Owning, IsLive, Placed
    <3>5. PICK S : S = {}
      BY ZenonT(60)
    <3>6. CopyInv'
      BY <2>1, <3>4, <3>5, CopyQuiet, SMTT(30)
    <3>7. QED
      BY <1>0, <2>1, <3>4, <3>6, UsageQuiet, ZenonT(60)
  <2>4. QED
    BY <1>6, <2>2, <2>3, ZenonT(60) DEF Rollback
<1>7. ASSUME InvalidateLocality PROVE UsageExact' /\ CopyInv'
  <2>1. ASSUME NEW s \in RegionId PROVE Kept(s) /\ Alike(s)
    <3>1. IsLive(s) => regions[s] \in Region
      BY <1>0, SMTT(30) DEF IsLive, MigTypeOK, NoRegion
    <3>2. regions'[s] = IF IsLive(s) THEN [regions[s] EXCEPT !.current = FALSE] ELSE regions[s]
      BY <1>7, ZenonT(60) DEF InvalidateLocality
    <3>3. /\ regions'[s].bytes = regions[s].bytes /\ regions'[s].state = regions[s].state
          /\ Placed(s)
      BY <3>1, <3>2, ZenonT(60) DEF Region, Placed
    <3>4. QED
      BY <3>3, ZenonT(60) DEF Kept, Alike, IsLive, Placed
  <2>2. UNCHANGED <<node_usage, frees, next_buffer, pc, job>>
    BY <1>7, ZenonT(60) DEF InvalidateLocality
  <2>3. PICK S : S = {}
    BY Zenon
  <2>4. CopyInv'
    BY <2>1, <2>2, <2>3, CopyQuiet, SMTT(30)
  <2>5. QED
    BY <1>0, <2>1, <2>2, <2>4, UsageQuiet, ZenonT(60)
<1>8. ASSUME NEW t \in Thread, NEW req \in Requests, Allocate(t, req) PROVE UsageExact' /\ CopyInv'
  <2>1. UNCHANGED <<regions, node_usage>>
    BY <1>8, ZenonT(60) DEF Allocate
  <2>2. QED
    BY <1>2, <1>8, <2>1, CopyAllocate, ZenonT(60)
<1>9. ASSUME NEW t \in Thread, ObtainTarget(t) \/ TargetExhausted(t) \/ VacateOld(t) \/ FreeReleased(t)
      PROVE  UsageExact' /\ CopyInv'
  <2>1. UNCHANGED <<regions, node_usage>>
    BY <1>9, ZenonT(60) DEF ObtainTarget, TargetExhausted, VacateOld, FreeReleased
  <2>2. QED
    BY <1>2, <1>9, <2>1, CopyObtain, CopyExhausted, CopyVacate, CopyFree, ZenonT(60)
<1>10. ASSUME NEW t \in Thread, ClaimRegion(t) \/ RetainOriginal(t) PROVE UsageExact' /\ CopyInv'
  <2>1. PICK r \in RegionId : /\ r = job[t].region /\ regions[r] \in Region
                             /\ regions[r].state \in {"MigrationPending", "Migrating"}
    <3>1. CASE ClaimRegion(t)
      BY <1>0, <3>1, Movers, Table, ZenonT(60) DEF ClaimRegion, Claimable, MigTypeOK, MovePart
    <3>2. CASE RetainOriginal(t)
      BY <3>2, MoverFacts, ZenonT(60) DEF RetainOriginal, Moving
    <3>3. QED
      BY <1>10, <3>1, <3>2, ZenonT(60)
  <2>2. /\ \A s \in RegionId \ {r} : regions'[s] = regions[s]
        /\ regions'[r] = regions[r] \/ regions'[r].state \in {"Migrating", "Active"}
        /\ Placed(r) /\ regions'[r].bytes = regions[r].bytes
        /\ UNCHANGED node_usage
    BY <1>0, <1>10, <2>1, SMTT(30) DEF ClaimRegion, RetainOriginal, MigTypeOK, Region, Placed
  <2>3. \A s \in RegionId : Alike(s)
    BY <2>1, <2>2, ZenonT(60) DEF Alike, IsLive, Placed
  <2>4. QED
    BY <1>0, <1>10, <2>2, <2>3, UsageQuiet, CopyClaim, CopyRetain, ZenonT(60)
<1>11. ASSUME NEW t \in Thread, RecordRegion(t) PROVE UsageExact' /\ CopyInv'
  BY <1>11, RecordUsage, CopyRecord, ZenonT(60)
<1>12. ASSUME NEW t \in Thread, CommitMove(t) PROVE UsageExact' /\ CopyInv'
  BY <1>12, CommitUsage, CopyCommit, ZenonT(60) DEF CommitMove
<1>13. ASSUME NEW t \in Thread PROVE ~CommitThrows(t)
  BY CommitUsage, ZenonT(60) DEF CommitThrows
<1>14. ASSUME NEW t \in Thread, NEW r \in RegionId, NEW expected, MayRelease(r),
              Release(t, r, expected)
       PROVE  UsageExact' /\ CopyInv'
  <2>1. regions[r].state # "Migrating"
    BY <1>14, ZenonT(60) DEF MayRelease
  <2>2. QED
    BY <1>14, <2>1, ReleaseUsage, CopyRelease, ZenonT(60)
<1>15. ASSUME NEW t \in Thread, NEW r \in RegionId, BeginRefused(t, r) PROVE UsageExact' /\ CopyInv'
  BY <1>5, <1>15, ZenonT(60) DEF BeginRefused, memVars, backendVars
<1>16. ASSUME UNCHANGED migVars PROVE UsageExact' /\ CopyInv'
  <2>1. UNCHANGED <<regions, node_usage, frees, next_buffer, pc, job>>
    BY <1>16, ZenonT(60) DEF migVars, memVars, backendVars
  <2>2. QED
    BY <1>5, <2>1, ZenonT(60)
<1>17. ASSUME NEW t \in Thread, Continue(t) PROVE UsageExact' /\ CopyInv'
  BY <1>3, <1>9, <1>10, <1>11, <1>12, <1>13, <1>17, ZenonT(60) DEF Continue, Reallocate
<1>18. ASSUME MigNext PROVE UsageExact' /\ CopyInv'
  BY <1>4, <1>6, <1>7, <1>8, <1>14, <1>15, <1>17, <1>18, ZenonT(30) DEF MigNext
<1>19. QED
  BY <1>1, <1>16, <1>18, ZenonT(60) DEF UsageInv

LEMMA UsageInitial == MigInit => UsageInv
<1> SUFFICES ASSUME MigInit PROVE UsageInv
  BY Zenon
<1>1. OwnInv
  BY OwnInitial, ZenonT(60)
<1>2. \A t \in Thread : pc[t] = "idle"
  BY Zenon DEF MigInit, MemInit
<1>3. \A r \in RegionId : regions[r].state = "Absent"
  BY ZenonT(60) DEF MigInit, MemInit, NoRegion
<1>4. next_buffer = 1 /\ DOMAIN node_usage = {}
  BY Zenon DEF MigInit, MemInit
<1>5. \A n : LiveOn(n) = {}
  BY <1>3, ZenonT(60) DEF LiveOn, LiveIds, IsLive
<1>6. UsageExact
  BY <1>4, <1>5, ZenonT(60) DEF UsageExact
<1>7. CopyInv
  BY <1>2, <1>3, <1>4, SMTT(30) DEF CopyInv, IsLive, Moving
<1>8. QED
  BY <1>1, <1>6, <1>7, ZenonT(60) DEF UsageInv

(* The buffer of a live region and the one who owns it.  *)
LEMMA CopiesKept ==
  ASSUME UsageInv
  PROVE  LastCopyKept
<1>1. MigInv /\ MigTypeOK /\ CopyInv /\ OwnInv
  BY Zenon DEF UsageInv, OwnInv, MigInv, OneMover
<1> SUFFICES ASSUME NEW r \in RegionId, IsLive(r)
             PROVE  /\ \/ regions[r].buffer # NoBuffer /\ frees[regions[r].buffer] = 0
                       \/ \E t \in Thread :
                            /\ pc[t] = "commit" /\ job[t].region = r
                            /\ job[t].new # NoBuffer /\ frees[job[t].new] = 0
                            /\ ~Underflows(node_usage, job[t].home, regions[r].bytes)
                    /\ \A s \in RegionId \ {r} : IsLive(s) => regions[s].buffer # regions[r].buffer
  BY ZenonT(60) DEF LastCopyKept
<1>2. ASSUME NEW s \in RegionId, IsLive(s)
      PROVE  /\ regions[s].buffer \in BufferId
             /\ \/ RegionOwns(s, regions[s].buffer)
                \/ \E t \in Thread : /\ Moving(t) /\ job[t].region = s
                                     /\ job[t].old = regions[s].buffer
  <2>1. regions[s].buffer \in BufferId
    <3>1. regions[s] \in Region /\ regions[s].buffer # NoBuffer
      BY <1>1, <1>2, SMTT(30) DEF IsLive, MigTypeOK, NoRegion, CopyInv
    <3>2. QED
      BY <3>1, ZenonT(60) DEF Region
  <2>2. CASE regions[s].state = "Migrating"
    <3>1. PICK t \in Thread : Moving(t) /\ job[t].region = s
      BY <1>1, <2>2, ZenonT(60) DEF CopyInv
    <3>2. QED
      BY <2>1, <3>1, MoverFacts, ZenonT(60)
  <2>3. CASE regions[s].state # "Migrating"
    BY <1>2, <2>1, <2>3, ZenonT(60) DEF IsLive, RegionOwns, Owning
  <2>4. QED
    BY <2>2, <2>3, ZenonT(60)
<1>3. ASSUME NEW t \in Thread, Moving(t), pc[t] # "commit"
      PROVE  ThreadOwns(t, job[t].old)
  BY <1>3, ZenonT(60) DEF Moving, ThreadOwns
<1>4. ASSUME NEW b \in BufferId
      PROVE  /\ \A s \in RegionId : RegionOwns(s, b) => frees[b] = 0
             /\ \A t \in Thread : ThreadOwns(t, b) => frees[b] = 0
  BY <1>1, ZenonT(60) DEF OwnInv, Exclusive, Unowned
<1>5. \/ regions[r].buffer # NoBuffer /\ frees[regions[r].buffer] = 0
      \/ \E t \in Thread : /\ pc[t] = "commit" /\ job[t].region = r
                           /\ job[t].new # NoBuffer /\ frees[job[t].new] = 0
                           /\ ~Underflows(node_usage, job[t].home, regions[r].bytes)
  <2>1. regions[r].buffer \in BufferId /\ regions[r].buffer # NoBuffer
    BY <1>2 DEF BufferId, NoBuffer
  <2>2. CASE RegionOwns(r, regions[r].buffer)
    BY <1>4, <2>1, <2>2, ZenonT(60)
  <2>3. ASSUME NEW t \in Thread, Moving(t), job[t].region = r, job[t].old = regions[r].buffer,
               pc[t] # "commit"
        PROVE  frees[regions[r].buffer] = 0
    BY <1>3, <1>4, <2>1, <2>3, ZenonT(60)
  <2>4. ASSUME NEW t \in Thread, job[t].region = r, pc[t] = "commit"
        PROVE  /\ job[t].new # NoBuffer /\ frees[job[t].new] = 0
               /\ ~Underflows(node_usage, job[t].home, regions[r].bytes)
    <3>1. Moving(t)
      BY <2>4, ZenonT(60) DEF Moving
    <3>2. job[t].new \in BufferId /\ job[t].new # NoBuffer /\ job[t].home = Home(r)
      BY <1>1, <2>4, <3>1, MoverFacts, ZenonT(60) DEF CopyInv
    <3>3. ThreadOwns(t, job[t].new)
      BY <2>4, ZenonT(60) DEF ThreadOwns
    <3>4. r \in LiveIds
      BY ZenonT(60) DEF LiveIds
    <3>5. QED
      BY <1>4, <3>2, <3>3, <3>4, NeverUnderflows, ZenonT(60)
  <2>5. QED
    BY <1>2, <2>1, <2>2, <2>3, <2>4, ZenonT(60)
<1>6. ASSUME NEW s \in RegionId \ {r}, IsLive(s) PROVE regions[s].buffer # regions[r].buffer
  <2> SUFFICES ASSUME NEW b, b = regions[r].buffer, b = regions[s].buffer PROVE FALSE
    BY Zenon
  <2>1. b \in BufferId /\ Exclusive(b)
    BY <1>1, <1>2, ZenonT(60) DEF OwnInv
  <2>2. CASE RegionOwns(r, b) /\ RegionOwns(s, b)
    BY <2>1, <2>2, ZenonT(60) DEF Exclusive
  <2>3. ASSUME NEW x \in RegionId, RegionOwns(x, b),
               NEW t \in Thread, Moving(t), job[t].old = b
        PROVE  FALSE
    <3>1. CASE pc[t] = "commit"
      BY <1>1, <1>4, <2>1, <2>3, <3>1, SMTT(30) DEF CopyInv
    <3>2. CASE pc[t] # "commit"
      BY <1>3, <2>1, <2>3, <3>2, ZenonT(60) DEF Exclusive
    <3>3. QED
      BY <3>1, <3>2, ZenonT(60)
  <2>4. ASSUME NEW t \in Thread, NEW u \in Thread, Moving(t), Moving(u),
               job[t].region = r, job[u].region = s, job[t].old = b, job[u].old = b
        PROVE  FALSE
    <3>1. t # u
      BY <2>4, ZenonT(60)
    <3>2. CASE pc[t] = "commit" /\ pc[u] = "commit"
      BY <1>1, <2>4, <3>1, <3>2, SMTT(30) DEF CopyInv
    <3>3. CASE pc[t] # "commit" /\ pc[u] # "commit"
      BY <1>3, <2>1, <2>4, <3>1, <3>3, ZenonT(60) DEF Exclusive
    <3>4. CASE pc[t] = "commit" /\ pc[u] # "commit"
      BY <1>1, <1>3, <1>4, <2>1, <2>4, <3>4, SMTT(30) DEF CopyInv
    <3>5. CASE pc[t] # "commit" /\ pc[u] = "commit"
      BY <1>1, <1>3, <1>4, <2>1, <2>4, <3>5, SMTT(30) DEF CopyInv
    <3>6. QED
      BY <3>2, <3>3, <3>4, <3>5, ZenonT(60)
  <2>5. QED
    BY <1>2, <1>6, <2>2, <2>3, <2>4, ZenonT(60)
<1>7. QED
  BY <1>5, <1>6, ZenonT(60)

LEMMA NoneLeaks ==
  ASSUME UsageInv
  PROVE  BuffersOwned
<1>1. MigTypeOK /\ CopyInv
  BY ZenonT(60) DEF UsageInv, OwnInv, MigInv, OneMover
<1> SUFFICES ASSUME NEW b \in 1 .. next_buffer - 1, ~(frees[b] > 0)
             PROVE  \/ \E r \in RegionId : IsLive(r) /\ regions[r].buffer = b
                    \/ \E t \in Thread :
                         \/ pc[t] \in {"record", "free"} /\ job[t].buffer = b
                         \/ pc[t] \in {"vacate", "commit"} /\ job[t].new = b
  BY ZenonT(60) DEF BuffersOwned
<1>2. CASE \E r \in RegionId : RegionOwns(r, b)
  BY <1>2, ZenonT(60) DEF RegionOwns, Owning, IsLive
<1>3. CASE \E t \in Thread : ThreadOwns(t, b)
  <2>1. PICK t \in Thread : ThreadOwns(t, b)
    BY <1>3, ZenonT(60)
  <2>2. CASE pc[t] \in {"obtain", "retain", "vacate"} /\ job[t].old = b
    <3>1. Moving(t)
      BY <2>2, ZenonT(60) DEF Moving
    <3>2. QED
      BY <2>2, <3>1, MoverFacts, ZenonT(60) DEF IsLive
  <2>3. QED
    BY <2>1, <2>2, ZenonT(60) DEF ThreadOwns
<1>4. QED
  BY <1>1, <1>2, <1>3, ZenonT(60) DEF CopyInv, Unowned

(* node_usage_ is exact: whatever is allocated, released, moved or rolled  *)
(* back in between, a node has an entry if and only if a live region is at *)
(* home there, and the entry is the sum of their sizes.                    *)
THEOREM MigUsageExact ==
  ASSUME Disciplined
  PROVE  MigSpec => []UsageExact
<1>1. UsageInv /\ [MigNext]_migVars => UsageInv'
  BY UsageInductive, ZenonT(60)
<1>2. UsageInv => UsageExact
  BY ZenonT(60) DEF UsageInv
<1>3. QED
  BY <1>1, <1>2, UsageInitial, PTL DEF MigSpec

(* A migration never leaves a live region without its bytes: at every      *)
(* moment its buffer is there, or the commit that replaces it cannot fail. *)
THEOREM MigLastCopyKept ==
  ASSUME Disciplined
  PROVE  MigSpec => []LastCopyKept
<1>1. UsageInv /\ [MigNext]_migVars => UsageInv'
  BY UsageInductive, Zenon
<1>2. UsageInv => LastCopyKept
  BY CopiesKept, ZenonT(60)
<1>3. QED
  BY <1>1, <1>2, UsageInitial, PTL DEF MigSpec

(* No buffer the backend handed out is ever lost sight of. *)
THEOREM MigBuffersOwned ==
  ASSUME Disciplined
  PROVE  MigSpec => []BuffersOwned
<1>1. UsageInv /\ [MigNext]_migVars => UsageInv'
  BY UsageInductive, Zenon
<1>2. UsageInv => BuffersOwned
  BY NoneLeaks, Zenon
<1>3. QED
  BY <1>1, <1>2, UsageInitial, PTL DEF MigSpec
=============================================================================
