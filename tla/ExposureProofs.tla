--------------------------- MODULE ExposureProofs ---------------------------
(***************************************************************************)
(* How far the position can run, for every limit, lot size and lag.  The   *)
(* first part is about sums of volumes, the second about what a step adds  *)
(* to them, the third is the invariant.                                    *)
(***************************************************************************)
EXTENDS Exposure, TradingProofs, RecursionLemmas

-----------------------------------------------------------------------------
(* Sums.                                                                    *)

VolumesType == [1 .. MaxOrderId -> Nat]

(* The running total of Total. *)
Running(volumes) ==
  LET total[n \in 0 .. MaxOrderId] ==
        IF n = 0 THEN 0 ELSE total[n - 1] + volumes[n]
  IN  total

(* Total adds the volumes up one by one. *)
LEMMA RunningIs ==
  ASSUME NEW v \in VolumesType
  PROVE  /\ Total(v) = Running(v)[MaxOrderId]
         /\ Running(v) \in [0 .. MaxOrderId -> Nat]
         /\ Running(v)[0] = 0
         /\ \A n \in 1 .. MaxOrderId : Running(v)[n] = Running(v)[n - 1] + v[n]
<1> DEFINE F == [k \in 1 .. MaxOrderId |-> [x \in Nat |-> x + v[k]]]
           P(g) == g = [n \in 0 .. MaxOrderId |-> IF n = 0 THEN 0 ELSE g[n - 1] + v[n]]
<1>1. MaxOrderId \in Nat /\ \A k \in 1 .. MaxOrderId : v[k] \in Nat
  BY ExecutorAssumption DEF VolumesType
<1>2. F \in [1 .. MaxOrderId -> [Nat -> Nat]]
  BY <1>1
<1>3. \A k \in 1 .. MaxOrderId : \A x \in Nat : F[k][x] = x + v[k]
  OBVIOUS
<1> HIDE DEF F
<1>4. PICK g \in [0 .. MaxOrderId -> Nat] : IsLoop(g, MaxOrderId, 0, F)
  BY <1>1, <1>2, LoopExists
<1>5. \A k \in 1 .. MaxOrderId : g[k] = g[k - 1] + v[k]
  <2> TAKE k \in 1 .. MaxOrderId
  <2>1. k - 1 \in 0 .. MaxOrderId
    BY <1>1
  <2>2. g[k] = F[k][g[k - 1]] /\ g[k - 1] \in Nat
    BY <1>4, <2>1 DEF IsLoop
  <2> QED BY <1>3, <2>2
<1>6. ASSUME NEW k \in 0 .. MaxOrderId
      PROVE  g[k] = IF k = 0 THEN 0 ELSE g[k - 1] + v[k]
  <2>1. CASE k = 0
    BY <1>4, <2>1 DEF IsLoop
  <2>2. CASE k # 0
    <3>1. k \in 1 .. MaxOrderId
      BY <1>1, <2>2
    <3> QED BY <1>5, <2>2, <3>1, Zenon
  <2> QED BY <2>1, <2>2
<1>7. P(g)
  BY <1>6
<1>8. P(Running(v))
  BY <1>7, Zenon DEF Running
<1>9. /\ Running(v)[0] = 0
      /\ \A k \in 1 .. MaxOrderId : Running(v)[k] = Running(v)[k - 1] + v[k]
  BY <1>1, <1>8
<1> DEFINE T == {k \in 0 .. MaxOrderId : Running(v)[k] \in Nat}
<1>10. 0 \in T
  BY <1>1, <1>9
<1>11. ASSUME NEW k \in 1 .. MaxOrderId, k - 1 \in T
       PROVE  k \in T
  <2>1. k \in 0 .. MaxOrderId /\ Running(v)[k - 1] \in Nat /\ v[k] \in Nat
    BY <1>1, <1>11
  <2>2. Running(v)[k] \in Nat
    BY <1>9, <2>1
  <2> QED BY <2>1, <2>2
<1> HIDE DEF T
<1>12. \A k \in 0 .. MaxOrderId : k \in T
  BY <1>1, <1>10, <1>11, Induction
<1>13. \A k \in 0 .. MaxOrderId : Running(v)[k] \in Nat
  BY <1>12 DEF T
<1>14. Running(v) = [k \in 0 .. MaxOrderId |-> Running(v)[k]]
  BY <1>8
<1>15. Running(v) \in [0 .. MaxOrderId -> Nat]
  BY <1>13, <1>14
<1>16. Total(v) = Running(v)[MaxOrderId]
  BY DEF Total, Running
<1> QED BY <1>9, <1>15, <1>16

(* A total is a number. *)
LEMMA TotalType ==
  ASSUME NEW v \in VolumesType
  PROVE  Total(v) \in Nat
<1>1. MaxOrderId \in 0 .. MaxOrderId
  BY ExecutorAssumption
<1> QED BY <1>1, RunningIs

(* Smaller volumes have a smaller total. *)
LEMMA TotalMonotonic ==
  ASSUME NEW v \in VolumesType, NEW w \in VolumesType,
         \A k \in 1 .. MaxOrderId : w[k] <= v[k]
  PROVE  Total(w) <= Total(v)
<1> DEFINE V == Running(v)
           W == Running(w)
           T == {k \in 0 .. MaxOrderId : W[k] <= V[k]}
<1>1. /\ MaxOrderId \in Nat /\ MaxOrderId \in 0 .. MaxOrderId
      /\ \A k \in 1 .. MaxOrderId : v[k] \in Nat /\ w[k] \in Nat
  BY ExecutorAssumption DEF VolumesType
<1>2. /\ V \in [0 .. MaxOrderId -> Nat] /\ V[0] = 0 /\ Total(v) = V[MaxOrderId]
      /\ \A n \in 1 .. MaxOrderId : V[n] = V[n - 1] + v[n]
  BY RunningIs
<1>3. /\ W \in [0 .. MaxOrderId -> Nat] /\ W[0] = 0 /\ Total(w) = W[MaxOrderId]
      /\ \A n \in 1 .. MaxOrderId : W[n] = W[n - 1] + w[n]
  BY RunningIs
<1> HIDE DEF V, W
<1>4. 0 \in T
  BY <1>1, <1>2, <1>3
<1>5. ASSUME NEW k \in 1 .. MaxOrderId, k - 1 \in T
      PROVE  k \in T
  <2>1. /\ k - 1 \in 0 .. MaxOrderId /\ k \in 0 .. MaxOrderId /\ W[k - 1] <= V[k - 1]
        /\ W[k - 1] \in Nat /\ V[k - 1] \in Nat /\ v[k] \in Nat /\ w[k] \in Nat
    BY <1>1, <1>2, <1>3, <1>5
  <2>2. W[k] = W[k - 1] + w[k] /\ V[k] = V[k - 1] + v[k] /\ w[k] <= v[k]
    BY <1>2, <1>3
  <2>3. W[k] <= V[k]
    BY <2>1, <2>2
  <2> QED BY <2>1, <2>3
<1> HIDE DEF T
<1>6. \A k \in 0 .. MaxOrderId : k \in T
  BY <1>1, <1>4, <1>5, Induction
<1>7. MaxOrderId \in T
  BY <1>1, <1>6
<1> QED BY <1>2, <1>3, <1>7 DEF T

(* Changing one volume changes the total by as much. *)
LEMMA TotalChange ==
  ASSUME NEW v \in VolumesType, NEW w \in VolumesType, NEW j \in 1 .. MaxOrderId,
         \A k \in 1 .. MaxOrderId : k # j => w[k] = v[k]
  PROVE  Total(w) = Total(v) + w[j] - v[j]
<1> DEFINE V == Running(v)
           W == Running(w)
           T == {k \in 0 .. MaxOrderId :
                   W[k] = IF k < j THEN V[k] ELSE V[k] + w[j] - v[j]}
<1>1. /\ MaxOrderId \in Nat /\ MaxOrderId \in 0 .. MaxOrderId
      /\ j \in Nat /\ 1 <= j /\ j <= MaxOrderId
      /\ \A k \in 1 .. MaxOrderId : v[k] \in Nat /\ w[k] \in Nat
  BY ExecutorAssumption DEF VolumesType
<1>2. /\ V \in [0 .. MaxOrderId -> Nat] /\ V[0] = 0 /\ Total(v) = V[MaxOrderId]
      /\ \A n \in 1 .. MaxOrderId : V[n] = V[n - 1] + v[n]
  BY RunningIs
<1>3. /\ W \in [0 .. MaxOrderId -> Nat] /\ W[0] = 0 /\ Total(w) = W[MaxOrderId]
      /\ \A n \in 1 .. MaxOrderId : W[n] = W[n - 1] + w[n]
  BY RunningIs
<1> HIDE DEF V, W
<1>4. 0 \in T
  <2>1. 0 < j /\ 0 \in 0 .. MaxOrderId
    BY <1>1
  <2> QED BY <1>2, <1>3, <2>1
<1>5. ASSUME NEW k \in 1 .. MaxOrderId, k - 1 \in T
      PROVE  k \in T
  <2>1. /\ k - 1 \in 0 .. MaxOrderId /\ k \in 0 .. MaxOrderId /\ k \in Nat
        /\ v[j] \in Nat /\ w[j] \in Nat
        /\ W[k - 1] = IF k - 1 < j THEN V[k - 1] ELSE V[k - 1] + w[j] - v[j]
    BY <1>1, <1>5
  <2>2. W[k - 1] \in Nat /\ V[k - 1] \in Nat /\ v[k] \in Nat /\ w[k] \in Nat
    BY <1>1, <1>2, <1>3, <2>1
  <2>3. W[k] = W[k - 1] + w[k] /\ V[k] = V[k - 1] + v[k] /\ (k # j => w[k] = v[k])
    BY <1>2, <1>3
  <2>4. W[k] = IF k < j THEN V[k] ELSE V[k] + w[j] - v[j]
    <3>1. CASE k < j
      BY <1>1, <2>1, <2>2, <2>3, <3>1
    <3>2. CASE k = j
      <4>1. W[k - 1] = V[k - 1]
        BY <1>1, <2>1, <3>2
      <4>2. W[j] = V[j] + w[j] - v[j]
        BY <2>1, <2>2, <2>3, <3>2, <4>1
      <4> QED BY <1>1, <3>2, <4>2
    <3>3. CASE k > j
      <4>1. W[k - 1] = V[k - 1] + w[j] - v[j] /\ w[k] = v[k] /\ ~(k < j)
        BY <1>1, <2>1, <2>3, <3>3
      <4> QED BY <2>1, <2>2, <2>3, <4>1
    <3> QED BY <1>1, <2>1, <3>1, <3>2, <3>3
  <2> QED BY <2>1, <2>4
<1> HIDE DEF T
<1>6. \A k \in 0 .. MaxOrderId : k \in T
  BY <1>1, <1>4, <1>5, Induction
<1>7. MaxOrderId \in T /\ ~(MaxOrderId < j)
  BY <1>1, <1>6
<1>8. W[MaxOrderId] = V[MaxOrderId] + w[j] - v[j]
  BY <1>7 DEF T
<1> QED BY <1>2, <1>3, <1>8

(* If one volume is all there is, it is the total. *)
LEMMA TotalSingle ==
  ASSUME NEW v \in VolumesType, NEW j, NEW n \in Nat,
         \A k \in 1 .. MaxOrderId : v[k] <= IF k = j THEN n ELSE 0
  PROVE  Total(v) <= n
<1> DEFINE zero == [k \in 1 .. MaxOrderId |-> 0]
<1>1. zero \in VolumesType /\ \A k \in 1 .. MaxOrderId : v[k] \in Nat
  BY DEF VolumesType
<1>2. Total(zero) = 0
  <2> DEFINE Z == Running(zero)
             T == {k \in 0 .. MaxOrderId : Z[k] = 0}
  <2>1. MaxOrderId \in Nat /\ MaxOrderId \in 0 .. MaxOrderId
    BY ExecutorAssumption
  <2>2. /\ Z[0] = 0 /\ Total(zero) = Z[MaxOrderId]
        /\ \A k \in 1 .. MaxOrderId : Z[k] = Z[k - 1] + zero[k]
    BY <1>1, RunningIs
  <2> HIDE DEF Z
  <2>3. 0 \in T
    BY <2>1, <2>2
  <2>4. ASSUME NEW k \in 1 .. MaxOrderId, k - 1 \in T
        PROVE  k \in T
    <3>1. Z[k - 1] = 0 /\ Z[k] = Z[k - 1] + 0 /\ k \in 0 .. MaxOrderId
      BY <2>1, <2>2, <2>4
    <3> QED BY <3>1
  <2> HIDE DEF T
  <2>5. \A k \in 0 .. MaxOrderId : k \in T
    BY <2>1, <2>3, <2>4, Induction
  <2>6. MaxOrderId \in T
    BY <2>1, <2>5
  <2> QED BY <2>2, <2>6 DEF T
<1>3. CASE j \in 1 .. MaxOrderId
  <2>1. \A k \in 1 .. MaxOrderId : k # j => zero[k] = v[k]
    BY <1>1
  <2>2. zero[j] = 0 /\ v[j] \in Nat /\ v[j] <= n
    BY <1>1, <1>3
  <2> HIDE DEF zero
  <2>3. Total(v) = Total(zero) + v[j] - zero[j]
    BY <1>1, <1>3, <2>1, TotalChange
  <2> QED BY <1>2, <2>2, <2>3
<1>4. CASE j \notin 1 .. MaxOrderId
  <2>1. \A k \in 1 .. MaxOrderId : v[k] <= zero[k]
    BY <1>4
  <2> HIDE DEF zero
  <2>2. Total(v) <= 0 /\ Total(v) \in Nat
    BY <1>1, <1>2, <2>1, TotalMonotonic, TotalType
  <2> QED BY <2>2
<1> QED BY <1>3, <1>4

-----------------------------------------------------------------------------
(* What is at stake with a set of open orders.                              *)

(* Orders the executor may have made: ids differ, and no order is for more  *)
(* than a lot.                                                              *)
Sound(os) ==
  /\ \A o \in os : /\ o.id \in 1 .. MaxOrderId /\ o.side \in Side
                   /\ o.volume \in Nat /\ o.volume <= LotSize
  /\ \A o, p \in os : o.id = p.id => o = p

OnSide(os, side) == {o \in os : o.side = side}

(* The volume found for an id is that of the order with that id. *)
LEMMA VolumeIs ==
  ASSUME NEW os, Sound(os), NEW side, NEW id
  PROVE  /\ \A o \in os : o.side = side /\ o.id = id => Volume(os, side, id) = o.volume
         /\ (\A o \in os : ~(o.side = side /\ o.id = id)) => Volume(os, side, id) = 0
         /\ Volume(os, side, id) \in Nat /\ Volume(os, side, id) <= LotSize
<1> DEFINE found == {o \in os : o.side = side /\ o.id = id}
<1>1. LotSize \in Nat
  BY ExecutorAssumption
<1>2. CASE found = {}
  BY <1>1, <1>2 DEF Volume, VolumeIn
<1>3. CASE found # {}
  <2>1. PICK o \in found : TRUE
    BY <1>3
  <2>2. found = {o}
    BY <2>1 DEF Sound
  <2>3. Volume(os, side, id) = o.volume
    BY <2>2 DEF Volume, VolumeIn
  <2> QED BY <2>1, <2>2, <2>3 DEF Sound
<1> QED BY <1>2, <1>3

(* So the volumes are numbers, and Volumes is the function of them. *)
LEMMA VolumesIs ==
  ASSUME NEW os, Sound(os), NEW side
  PROVE  /\ Volumes(os, side) \in VolumesType
         /\ \A k \in 1 .. MaxOrderId : Volumes(os, side)[k] = Volume(os, side, k)
BY VolumeIs DEF Volumes, VolumesType

(* Orders that go away leave less at stake. *)
LEMMA StakeShrinks ==
  ASSUME NEW os, Sound(os), NEW ns, ns \subseteq os, NEW side
  PROVE  /\ Sound(ns)
         /\ Total(Volumes(ns, side)) <= Total(Volumes(os, side))
<1>1. Sound(ns)
  BY DEF Sound
<1>2. ASSUME NEW k \in 1 .. MaxOrderId
      PROVE  Volume(ns, side, k) <= Volume(os, side, k)
  <2>1. CASE \E o \in ns : o.side = side /\ o.id = k
    <3>1. PICK o \in ns : o.side = side /\ o.id = k
      BY <2>1
    <3>2. Volume(ns, side, k) = o.volume /\ Volume(os, side, k) = o.volume
      BY <1>1, <3>1, VolumeIs
    <3> QED BY <1>1, <3>1, <3>2 DEF Sound
  <2>2. CASE \A o \in ns : ~(o.side = side /\ o.id = k)
    <3>1. Volume(ns, side, k) = 0 /\ Volume(os, side, k) \in Nat
      BY <1>1, <2>2, VolumeIs
    <3> QED BY <3>1
  <2> QED BY <2>1, <2>2
<1>3. /\ Volumes(ns, side) \in VolumesType /\ Volumes(os, side) \in VolumesType
      /\ \A k \in 1 .. MaxOrderId : /\ Volumes(ns, side)[k] = Volume(ns, side, k)
                                    /\ Volumes(os, side)[k] = Volume(os, side, k)
  BY <1>1, VolumesIs
<1>4. \A k \in 1 .. MaxOrderId : Volumes(ns, side)[k] <= Volumes(os, side)[k]
  BY <1>2, <1>3
<1> QED BY <1>1, <1>3, <1>4, TotalMonotonic

(* Volumes looks at one side only. *)
LEMMA StakeOnSide ==
  ASSUME NEW os, NEW ns, NEW side, OnSide(os, side) = OnSide(ns, side)
  PROVE  Total(Volumes(ns, side)) = Total(Volumes(os, side))
<1>1. \A k : {o \in os : o.side = side /\ o.id = k} = {o \in ns : o.side = side /\ o.id = k}
  BY DEF OnSide
<1>2. \A k : Volume(ns, side, k) = Volume(os, side, k)
  BY <1>1, Zenon DEF Volume
<1>3. Volumes(ns, side) = Volumes(os, side)
  BY <1>2 DEF Volumes
<1> QED BY <1>3

(* A new order adds its volume. *)
LEMMA StakeGrows ==
  ASSUME NEW os, Sound(os), NEW ns, Sound(ns), NEW side, NEW o,
         OnSide(ns, side) = OnSide(os, side) \cup {o}, \A p \in os : p.id # o.id
  PROVE  Total(Volumes(ns, side)) = Total(Volumes(os, side)) + o.volume
<1>1. o \in ns /\ o.side = side /\ o.id \in 1 .. MaxOrderId /\ o.volume \in Nat
  BY DEF OnSide, Sound
<1>2. Volume(ns, side, o.id) = o.volume /\ Volume(os, side, o.id) = 0
  BY <1>1, VolumeIs
<1>3. ASSUME NEW k \in 1 .. MaxOrderId, k # o.id
      PROVE  Volume(ns, side, k) = Volume(os, side, k)
  <2>1. {p \in os : p.side = side /\ p.id = k} = {p \in ns : p.side = side /\ p.id = k}
    BY <1>3 DEF OnSide
  <2> QED BY <2>1, Zenon DEF Volume
<1>4. /\ Volumes(ns, side) \in VolumesType /\ Volumes(os, side) \in VolumesType
      /\ \A k \in 1 .. MaxOrderId : /\ Volumes(ns, side)[k] = Volume(ns, side, k)
                                    /\ Volumes(os, side)[k] = Volume(os, side, k)
  BY VolumesIs
<1>5. Total(Volumes(ns, side)) = Total(Volumes(os, side)) + o.volume - 0
  BY <1>1, <1>2, <1>3, <1>4, TotalChange
<1>6. Total(Volumes(os, side)) \in Nat
  BY <1>4, TotalType
<1> QED BY <1>1, <1>5, <1>6

(* A fill takes what is filled from what is at stake on its side. *)
LEMMA StakeFilled ==
  ASSUME NEW os, Sound(os), NEW o \in os, NEW volume \in 1 .. o.volume, NEW ns,
         ns = (os \ {o}) \cup (IF volume = o.volume THEN {} ELSE {Reduced(o, volume)}),
         NEW side
  PROVE  /\ Sound(ns)
         /\ Total(Volumes(ns, side))
              = Total(Volumes(os, side)) - (IF side = o.side THEN volume ELSE 0)
<1> DEFINE r == Reduced(o, volume)
<1>1. /\ o.id \in 1 .. MaxOrderId /\ o.volume \in Nat /\ volume \in Nat /\ volume <= o.volume
      /\ 0 < volume /\ o.volume <= LotSize /\ LotSize \in Nat
  BY ExecutorAssumption DEF Sound
<1>2. /\ r.id = o.id /\ r.side = o.side /\ r.volume = o.volume - volume
      /\ r.volume \in Nat /\ r.volume <= LotSize
  BY <1>1 DEF Reduced
<1> HIDE DEF r
<1>3. Sound(ns)
  <2>1. CASE volume = o.volume
    BY <2>1 DEF Sound
  <2>2. CASE volume # o.volume
    <3>1. ns = (os \ {o}) \cup {r}
      BY <2>2 DEF r
    <3> QED BY <1>2, <3>1 DEF Sound
  <2> QED BY <2>1, <2>2
<1>4. CASE side # o.side
  <2>1. OnSide(os, side) = OnSide(ns, side)
    <3>1. CASE volume = o.volume
      BY <1>4, <3>1 DEF OnSide
    <3>2. CASE volume # o.volume
      <4>1. ns = (os \ {o}) \cup {r}
        BY <3>2 DEF r
      <4> QED BY <1>2, <1>4, <4>1 DEF OnSide
    <3> QED BY <3>1, <3>2
  <2>2. Total(Volumes(ns, side)) = Total(Volumes(os, side)) /\ Total(Volumes(os, side)) \in Nat
    BY <2>1, StakeOnSide, VolumesIs, TotalType
  <2> QED BY <1>3, <1>4, <2>2
<1>5. CASE side = o.side
  <2>1. Volume(os, side, o.id) = o.volume
    BY <1>5, VolumeIs
  <2>2. Volume(ns, side, o.id) = o.volume - volume
    <3>1. CASE volume = o.volume
      <4>1. \A p \in ns : p.id # o.id
        BY <3>1 DEF Sound
      <4> QED BY <1>1, <1>3, <3>1, <4>1, VolumeIs
    <3>2. CASE volume # o.volume
      <4>1. r \in ns
        BY <3>2 DEF r
      <4> QED BY <1>2, <1>3, <1>5, <4>1, VolumeIs
    <3> QED BY <3>1, <3>2
  <2>3. ASSUME NEW k \in 1 .. MaxOrderId, k # o.id
        PROVE  Volume(ns, side, k) = Volume(os, side, k)
    <3>1. {p \in os : p.side = side /\ p.id = k} = {p \in ns : p.side = side /\ p.id = k}
      <4>1. CASE volume = o.volume
        BY <2>3, <4>1
      <4>2. CASE volume # o.volume
        <5>1. ns = (os \ {o}) \cup {r}
          BY <4>2 DEF r
        <5> QED BY <1>2, <2>3, <5>1
      <4> QED BY <4>1, <4>2
    <3> QED BY <3>1, Zenon DEF Volume
  <2>4. /\ Volumes(ns, side) \in VolumesType /\ Volumes(os, side) \in VolumesType
        /\ \A k \in 1 .. MaxOrderId : /\ Volumes(ns, side)[k] = Volume(ns, side, k)
                                      /\ Volumes(os, side)[k] = Volume(os, side, k)
    BY <1>3, VolumesIs
  <2>5. /\ Volumes(ns, side)[o.id] = o.volume - volume /\ Volumes(os, side)[o.id] = o.volume
        /\ \A k \in 1 .. MaxOrderId : k # o.id => Volumes(ns, side)[k] = Volumes(os, side)[k]
    BY <1>1, <2>1, <2>2, <2>3, <2>4
  <2>6. Total(Volumes(ns, side))
          = Total(Volumes(os, side)) + Volumes(ns, side)[o.id] - Volumes(os, side)[o.id]
    BY <1>1, <2>4, <2>5, TotalChange
  <2>7. Total(Volumes(os, side)) \in Nat
    BY <2>4, TotalType
  <2> QED BY <1>1, <1>3, <1>5, <2>5, <2>6, <2>7
<1> QED BY <1>4, <1>5

-----------------------------------------------------------------------------
(* The open orders.                                                         *)

SmallOrders == \A o \in Open : o.volume <= LotSize

(* The open orders are such that the sums above mean something. *)
LEMMA OpenSound ==
  ASSUME TypeOK, OrdersAccountedFor, SmallOrders
  PROVE  Sound(Open) /\ \A o \in Open : o.id \in Nat /\ o.id <= order_id_
<1>1. /\ order_id_ \in Nat /\ order_id_ <= MaxOrderId /\ MaxOrderId \in Nat
      /\ highest_id \in Nat /\ highest_id <= order_id_ /\ toExchange \in Seq(Message)
  BY ExecutorAssumption DEF TypeOK, TraderTypeOK, ExecutorTypeOK, ExchangeTypeOK, LinkTypeOK,
       OrdersAccountedFor, QuoteInv, Quotes
<1>2. ASSUME NEW o \in orders
      PROVE  /\ o.id \in 1 .. MaxOrderId /\ o.id <= highest_id /\ o.side \in Side
             /\ o.volume \in Nat
             /\ \A p \in orders : o.id = p.id => o = p
  BY <1>1 DEF TypeOK, ExchangeTypeOK, OrdersAccountedFor, QuoteInv, LiveOrders
<1>3. ASSUME NEW i \in DOMAIN toExchange, IsInsert(toExchange[i])
      PROVE  LET m == AsOrder(toExchange[i])
             IN  /\ m.id = toExchange[i].id
                 /\ m.id \in 1 .. MaxOrderId /\ highest_id < m.id /\ m.id <= order_id_
                 /\ m.side \in Side /\ m.volume \in Nat
                 /\ \A j \in DOMAIN toExchange :
                      i < j /\ IsInsert(toExchange[j]) => m.id < toExchange[j].id
  <2>1. toExchange[i].id \in Nat /\ toExchange[i].side \in Side
    BY <1>1, <1>3, InsertHasSide
  <2>2. toExchange[i].volume \in Nat
    <3>1. toExchange[i] \in Message
      BY <1>1
    <3> QED BY <1>3, <3>1 DEF Message, IsInsert, CANCEL_MESSAGE_TYPE, INSERT_MESSAGE_TYPE
  <2>3. /\ highest_id < toExchange[i].id /\ toExchange[i].id <= order_id_
        /\ \A j \in DOMAIN toExchange :
             i < j /\ IsInsert(toExchange[j]) => toExchange[i].id < toExchange[j].id
    BY <1>3 DEF OrdersAccountedFor, QuoteInv, QueuedOrders, Quotes, CurrentLink
  <2> QED BY <1>1, <2>1, <2>2, <2>3 DEF AsOrder
<1>4. ASSUME NEW o \in Open
      PROVE  /\ o.id \in 1 .. MaxOrderId /\ o.id <= order_id_
             /\ o.side \in Side /\ o.volume \in Nat /\ o.volume <= LotSize
  <2>1. CASE o \in orders
    BY <1>1, <1>2, <1>4, <2>1 DEF SmallOrders
  <2>2. CASE o \in Queued(toExchange)
    BY <1>3, <1>4, <2>2 DEF SmallOrders, Queued
  <2> QED BY <1>4, <2>1, <2>2 DEF Open
<1>5. ASSUME NEW o \in Open, NEW p \in Open, o.id = p.id
      PROVE  o = p
  <2>1. CASE o \in orders /\ p \in orders
    BY <1>2, <1>5, <2>1
  <2>2. CASE o \in orders /\ p \in Queued(toExchange)
    BY <1>1, <1>2, <1>3, <1>4, <1>5, <2>2 DEF Queued
  <2>3. CASE o \in Queued(toExchange) /\ p \in orders
    BY <1>1, <1>2, <1>3, <1>4, <1>5, <2>3 DEF Queued
  <2>4. CASE o \in Queued(toExchange) /\ p \in Queued(toExchange)
    <3>1. PICK i \in DOMAIN toExchange : IsInsert(toExchange[i]) /\ o = AsOrder(toExchange[i])
      BY <2>4 DEF Queued
    <3>2. PICK j \in DOMAIN toExchange : IsInsert(toExchange[j]) /\ p = AsOrder(toExchange[j])
      BY <2>4 DEF Queued
    <3>3. i \in Nat /\ j \in Nat
      BY <1>1
    <3>4. o.id = toExchange[i].id /\ p.id = toExchange[j].id /\ o.id \in Nat /\ p.id \in Nat
      BY <1>3, <1>4, <3>1, <3>2
    <3>5. ~(i < j) /\ ~(j < i)
      BY <1>3, <1>5, <3>1, <3>2, <3>4
    <3> QED BY <3>1, <3>2, <3>3, <3>5
  <2> QED BY <2>1, <2>2, <2>3, <2>4 DEF Open
<1> QED BY <1>4, <1>5 DEF Sound

(* The same as a formula, which holds after a step too. *)
LEMMA SoundAlways == TypeOK /\ OrdersAccountedFor /\ SmallOrders => Sound(Open)
BY OpenSound

(* An insert that is sent is one more queued order, a cancel is none. *)
LEMMA QueuedAppend ==
  ASSUME NEW queue \in Seq(Message), NEW m \in Message
  PROVE  Queued(Append(queue, m))
           = Queued(queue) \cup (IF IsInsert(m) THEN {AsOrder(m)} ELSE {})
<1> DEFINE longer == Append(queue, m)
           n == Len(queue)
<1>1. /\ n \in Nat /\ DOMAIN queue = 1 .. n /\ DOMAIN longer = 1 .. n + 1
      /\ longer[n + 1] = m /\ \A i \in 1 .. n : longer[i] = queue[i]
  OBVIOUS
<1>2. \A i \in 1 .. n + 1 : i \in 1 .. n \/ i = n + 1
  BY <1>1
<1>3. \A i \in 1 .. n : i \in 1 .. n + 1
  BY <1>1
<1>4. n + 1 \in 1 .. n + 1
  BY <1>1
<1> HIDE DEF longer, n
<1>5. ASSUME NEW o
      PROVE  o \in Queued(longer)
               <=> o \in Queued(queue) \cup (IF IsInsert(m) THEN {AsOrder(m)} ELSE {})
  <2>1. ASSUME o \in Queued(longer)
        PROVE  o \in Queued(queue) \cup (IF IsInsert(m) THEN {AsOrder(m)} ELSE {})
    <3>1. PICK i \in 1 .. n + 1 : IsInsert(longer[i]) /\ o = AsOrder(longer[i])
      BY <1>1, <2>1 DEF Queued
    <3>2. CASE i = n + 1
      BY <1>1, <3>1, <3>2
    <3>3. CASE i \in 1 .. n
      BY <1>1, <3>1, <3>3 DEF Queued
    <3> QED BY <1>2, <3>2, <3>3
  <2>2. ASSUME o \in Queued(queue)
        PROVE  o \in Queued(longer)
    <3>1. PICK i \in 1 .. n : IsInsert(queue[i]) /\ o = AsOrder(queue[i])
      BY <1>1, <2>2 DEF Queued
    <3> QED BY <1>1, <1>3, <3>1 DEF Queued
  <2>3. ASSUME IsInsert(m), o = AsOrder(m)
        PROVE  o \in Queued(longer)
    BY <1>1, <1>4, <2>3 DEF Queued
  <2> QED BY <2>1, <2>2, <2>3
<1>6. Queued(longer) = Queued(queue) \cup (IF IsInsert(m) THEN {AsOrder(m)} ELSE {})
  BY <1>5
<1> QED BY <1>6 DEF longer

(* The exchange reads a command: if it is an insert, its order is no longer *)
(* in the queue.                                                            *)
LEMMA QueuedHead ==
  ASSUME NEW queue \in Seq(Message), queue # << >>
  PROVE  /\ Queued(Tail(queue)) \subseteq Queued(queue)
         /\ IsInsert(Head(queue)) => AsOrder(Head(queue)) \in Queued(queue)
<1> DEFINE tail == Tail(queue)
<1>1. /\ 1 \in DOMAIN queue /\ Head(queue) = queue[1]
      /\ \A i \in DOMAIN tail : i + 1 \in DOMAIN queue /\ tail[i] = queue[i + 1]
  OBVIOUS
<1> HIDE DEF tail
<1>2. Queued(tail) \subseteq Queued(queue)
  BY <1>1 DEF Queued
<1>3. IsInsert(Head(queue)) => AsOrder(Head(queue)) \in Queued(queue)
  BY <1>1 DEF Queued
<1> QED BY <1>2, <1>3 DEF tail

-----------------------------------------------------------------------------
(* A book update.                                                           *)

(* What executeTrades may add on a side: nothing, or one lot under a new id *)
(* if the position leaves room.                                             *)
Lot(new, side, last, next) ==
  \/ new = {}
  \/ /\ HasRoom(side)
     /\ \E o : /\ new = {o} /\ o.side = side /\ o.volume = LotSize
               /\ o.id \in Nat /\ last < o.id /\ o.id <= next

(* The first two statements of executeTrades insert nothing. *)
LEMMA CancelStaleOpen ==
  ASSUME NEW q \in QuotesType, NEW side \in Side, NEW price \in Int, NEW ok \in BOOLEAN
  PROVE  LET r == CancelStale(q, side, price, ok)
         IN  /\ r \in QuotesType
             /\ Queued(r.link.queue) = Queued(q.link.queue)
             /\ r.order_id = q.order_id
<1> DEFINE r == CancelStale(q, side, price, ok)
           m == CancelMessage(q.id[side])
<1>1. r \in QuotesType
  BY CancelStaleType
<1>2. /\ q.link.queue \in Seq(Message) /\ q.id[side] \in Nat
      /\ q.link = [queue |-> q.link.queue, lost |-> q.link.lost]
  BY DEF QuotesType, LinkType
<1>3. m \in Message /\ ~IsInsert(m)
  BY <1>2 DEF CancelMessage, Message, IsInsert, CANCEL_MESSAGE_TYPE, INSERT_MESSAGE_TYPE
<1>4. /\ r.order_id = q.order_id
      /\ r.link.queue \in {q.link.queue, Append(q.link.queue, m)}
  BY <1>2 DEF CancelStale, cancelOrder
<1> HIDE DEF r, m
<1>5. Queued(Append(q.link.queue, m)) = Queued(q.link.queue)
  BY <1>2, <1>3, QueuedAppend
<1>6. Queued(r.link.queue) = Queued(q.link.queue)
  BY <1>4, <1>5
<1> QED BY <1>1, <1>4, <1>6 DEF r

(* The last two insert one lot at most. *)
LEMMA PlaceMissingOpen ==
  ASSUME NEW q \in QuotesType, NEW side \in Side, NEW price \in Int, NEW ok \in BOOLEAN
  PROVE  LET r == PlaceMissing(q, side, price, ok)
         IN  /\ r \in QuotesType
             /\ q.order_id <= r.order_id
             /\ \E new : /\ Lot(new, side, q.order_id, r.order_id)
                         /\ Queued(r.link.queue) = Queued(q.link.queue) \cup new
<1> DEFINE r == PlaceMissing(q, side, price, ok)
           m == InsertMessage(q.order_id + 1, side, price, LotSize)
<1>1. r \in QuotesType
  BY PlaceMissingType
<1>2. /\ q.link.queue \in Seq(Message) /\ q.order_id \in Nat
      /\ q.link = [queue |-> q.link.queue, lost |-> q.link.lost]
  BY DEF QuotesType, LinkType
<1>3. m \in Message /\ IsInsert(m)
  BY <1>2, ExecutorAssumption DEF InsertMessage, Message, IsInsert, INSERT_MESSAGE_TYPE
<1>4. /\ AsOrder(m).side = side /\ AsOrder(m).volume = LotSize
      /\ AsOrder(m).id = q.order_id + 1
  BY DEF InsertMessage, AsOrder
<1>5. /\ r.order_id \in {q.order_id, q.order_id + 1}
      /\ \/ r.link.queue = q.link.queue
         \/ /\ HasRoom(side) /\ r.order_id = q.order_id + 1
            /\ r.link.queue = Append(q.link.queue, m)
  BY <1>2 DEF PlaceMissing, insertOrder
<1> HIDE DEF r, m, HasRoom
<1>6. Queued(Append(q.link.queue, m)) = Queued(q.link.queue) \cup {AsOrder(m)}
  BY <1>2, <1>3, QueuedAppend
<1>7. q.order_id <= r.order_id
  BY <1>2, <1>5
<1> DEFINE Adds(new) == /\ Lot(new, side, q.order_id, r.order_id)
                        /\ Queued(r.link.queue) = Queued(q.link.queue) \cup new
<1>8. CASE r.link.queue = q.link.queue
  <2>1. Adds({})
    BY <1>8 DEF Lot
  <2> HIDE DEF Adds
  <2>2. \E new : Adds(new)
    BY <2>1
  <2> QED BY <1>1, <1>7, <2>2 DEF r, Adds
<1>9. CASE /\ HasRoom(side) /\ r.order_id = q.order_id + 1
           /\ r.link.queue = Append(q.link.queue, m)
  <2>1. AsOrder(m).id \in Nat /\ q.order_id < AsOrder(m).id /\ AsOrder(m).id <= r.order_id
    BY <1>2, <1>4, <1>9
  <2>2. Lot({AsOrder(m)}, side, q.order_id, r.order_id)
    BY <1>4, <1>9, <2>1 DEF Lot
  <2>3. Queued(r.link.queue) = Queued(q.link.queue) \cup {AsOrder(m)}
    BY <1>6, <1>9
  <2>4. Adds({AsOrder(m)})
    BY <2>2, <2>3
  <2> HIDE DEF Adds
  <2>5. \E new : Adds(new)
    BY <2>4
  <2> QED BY <1>1, <1>7, <2>5 DEF r, Adds
<1> QED BY <1>5, <1>8, <1>9

(* executeTrades inserts one lot at most on each side. *)
LEMMA RequotedOpen ==
  ASSUME Quotes \in QuotesType, NEW b \in Int, NEW a \in Int, NEW ok \in SendOutcomes
  PROVE  LET r == Requoted(b, a, ok)
         IN  \E bids, asks :
               /\ Lot(bids, BUY, Quotes.order_id, r.order_id)
               /\ Lot(asks, SELL, Quotes.order_id, r.order_id)
               /\ Queued(r.link.queue) = (Queued(Quotes.link.queue) \cup bids) \cup asks
<1>1. /\ BUY \in Side /\ SELL \in Side
      /\ ok[BUY].cancel \in BOOLEAN /\ ok[SELL].cancel \in BOOLEAN
      /\ ok[BUY].insert \in BOOLEAN /\ ok[SELL].insert \in BOOLEAN
  BY SendOutcomesType DEF Side
<1> DEFINE q1 == CancelStale(Quotes, BUY, b, ok[BUY].cancel)
           q2 == CancelStale(q1, SELL, a, ok[SELL].cancel)
           q3 == PlaceMissing(q2, BUY, b, ok[BUY].insert)
           q4 == PlaceMissing(q3, SELL, a, ok[SELL].insert)
<1>2. Requoted(b, a, ok) = q4
  BY Zenon DEF Requoted
<1>3. /\ q1 \in QuotesType /\ Queued(q1.link.queue) = Queued(Quotes.link.queue)
      /\ q1.order_id = Quotes.order_id
  BY <1>1, CancelStaleOpen
<1> HIDE DEF q1
<1>4. /\ q2 \in QuotesType /\ Queued(q2.link.queue) = Queued(q1.link.queue)
      /\ q2.order_id = q1.order_id
  BY <1>1, <1>3, CancelStaleOpen
<1> HIDE DEF q2
<1>5. /\ q3 \in QuotesType /\ q2.order_id <= q3.order_id
      /\ \E new : /\ Lot(new, BUY, q2.order_id, q3.order_id)
                  /\ Queued(q3.link.queue) = Queued(q2.link.queue) \cup new
  BY <1>1, <1>4, PlaceMissingOpen
<1>6. PICK bids : /\ Lot(bids, BUY, q2.order_id, q3.order_id)
                  /\ Queued(q3.link.queue) = Queued(q2.link.queue) \cup bids
  BY <1>5
<1> HIDE DEF q3
<1>7. /\ q4 \in QuotesType /\ q3.order_id <= q4.order_id
      /\ \E new : /\ Lot(new, SELL, q3.order_id, q4.order_id)
                  /\ Queued(q4.link.queue) = Queued(q3.link.queue) \cup new
  BY <1>1, <1>5, PlaceMissingOpen
<1>8. PICK asks : /\ Lot(asks, SELL, q3.order_id, q4.order_id)
                  /\ Queued(q4.link.queue) = Queued(q3.link.queue) \cup asks
  BY <1>7
<1> HIDE DEF q4, HasRoom
<1>9. q2.order_id \in Nat /\ q3.order_id \in Nat /\ q4.order_id \in Nat
  BY <1>4, <1>5, <1>7 DEF QuotesType
<1>10. Lot(bids, BUY, Quotes.order_id, q4.order_id)
  BY <1>3, <1>4, <1>6, <1>7, <1>9 DEF Lot
<1>11. Lot(asks, SELL, Quotes.order_id, q4.order_id)
  BY <1>3, <1>4, <1>5, <1>8, <1>9 DEF Lot
<1>12. Queued(q4.link.queue) = (Queued(Quotes.link.queue) \cup bids) \cup asks
  BY <1>3, <1>4, <1>6, <1>8
<1> QED BY <1>2, <1>10, <1>11, <1>12

(* A book update puts one more lot at stake on each side, or none; one only *)
(* where the position the executor goes by leaves room, and with a new id.  *)
LEMMA BookStake ==
  ASSUME TypeOK, TypeOK', OrdersAccountedFor, OrdersAccountedFor',
         SmallOrders, NEW book \in Books, HandlesBook(book)
  PROVE  /\ SmallOrders'
         /\ \A s \in Side : \/ AtStake(s)' = AtStake(s)
                            \/ Inserts /\ HasRoom(s) /\ AtStake(s)' = AtStake(s) + LotSize
<1>1. PICK ok \in SendOutcomes :
        Requoted(theo_price_' - Edge, theo_price_' + Edge, ok) = Quotes'
  BY BookStep DEF HandlesBook
<1>2. theo_price_' - Edge \in Int /\ theo_price_' + Edge \in Int
  BY BookStep, EdgeAssumption DEF HandlesBook
<1>3. \E bids, asks :
        /\ Lot(bids, BUY, Quotes.order_id, Quotes'.order_id)
        /\ Lot(asks, SELL, Quotes.order_id, Quotes'.order_id)
        /\ Queued(Quotes'.link.queue) = (Queued(Quotes.link.queue) \cup bids) \cup asks
  BY <1>1, <1>2, TypeOKQuotes, RequotedOpen
<1>4. PICK bids, asks :
        /\ Lot(bids, BUY, order_id_, order_id_') /\ Lot(asks, SELL, order_id_, order_id_')
        /\ Queued(toExchange') = (Queued(toExchange) \cup bids) \cup asks
  BY <1>3 DEF Quotes, CurrentLink
<1>5. orders' = orders
  BY DEF HandlesBook
<1>6. Open' = (Open \cup bids) \cup asks
  BY <1>4, <1>5 DEF Open
<1>7. LotSize \in Nat /\ order_id_ \in Nat /\ order_id_' \in Nat /\ BUY # SELL
  BY ExecutorAssumption DEF TypeOK, TraderTypeOK, ExecutorTypeOK, BUY, SELL
<1>8. /\ \A o \in bids : o.side = BUY /\ o.volume = LotSize /\ o.id \in Nat /\ order_id_ < o.id
      /\ \A o \in asks : o.side = SELL /\ o.volume = LotSize /\ o.id \in Nat /\ order_id_ < o.id
  BY <1>4 DEF Lot
<1>9. SmallOrders'
  <2>1. \A o \in Open' : o.volume <= LotSize
    BY <1>6, <1>7, <1>8 DEF SmallOrders
  <2> QED BY <2>1 DEF SmallOrders
<1>10. Sound(Open) /\ \A o \in Open : o.id \in Nat /\ o.id <= order_id_
  BY OpenSound
<1>11. Sound(Open')
  <2>1. (TypeOK /\ OrdersAccountedFor /\ SmallOrders => Sound(Open))'
    BY SoundAlways, PTL
  <2>2. Sound(Open)'
    BY <1>9, <2>1
  <2> QED BY <2>2 DEF Sound
<1>12. ASSUME NEW s \in Side, NEW new, Lot(new, s, order_id_, order_id_'),
              OnSide(Open', s) = OnSide(Open, s) \cup new
       PROVE  \/ Total(Volumes(Open', s)) = Total(Volumes(Open, s))
              \/ Inserts /\ HasRoom(s) /\ Total(Volumes(Open', s)) = Total(Volumes(Open, s)) + LotSize
  <2>1. CASE new = {}
    <3>1. OnSide(Open', s) = OnSide(Open, s)
      BY <1>12, <2>1
    <3> QED BY <3>1, StakeOnSide
  <2>2. CASE new # {}
    <3>1. PICK o : /\ new = {o} /\ o.side = s /\ o.volume = LotSize /\ HasRoom(s)
                   /\ o.id \in Nat /\ order_id_ < o.id /\ o.id <= order_id_'
      BY <1>12, <2>2 DEF Lot
    <3>2. \A p \in Open : p.id # o.id
      BY <1>7, <1>10, <3>1
    <3>3. Total(Volumes(Open', s)) = Total(Volumes(Open, s)) + o.volume
      BY <1>10, <1>11, <1>12, <3>1, <3>2, StakeGrows
    <3>4. Inserts
      BY <1>7, <3>1 DEF Inserts
    <3> QED BY <3>1, <3>3, <3>4
  <2> QED BY <2>1, <2>2
<1>13. OnSide(Open', BUY) = OnSide(Open, BUY) \cup bids
  BY <1>6, <1>7, <1>8 DEF OnSide
<1>14. OnSide(Open', SELL) = OnSide(Open, SELL) \cup asks
  BY <1>6, <1>7, <1>8 DEF OnSide
<1>15. \A s \in Side :
         \/ Total(Volumes(Open', s)) = Total(Volumes(Open, s))
         \/ Inserts /\ HasRoom(s) /\ Total(Volumes(Open', s)) = Total(Volumes(Open, s)) + LotSize
  BY <1>4, <1>12, <1>13, <1>14 DEF Side
<1> QED BY <1>9, <1>15 DEF AtStake

-----------------------------------------------------------------------------
(* The other steps.                                                         *)

(* The exchange reads a command: nothing is at stake that was not before. *)
LEMMA ReceiveStake ==
  ASSUME TypeOK, OrdersAccountedFor, SmallOrders, ReceiveInsert \/ ReceiveCancel
  PROVE  /\ SmallOrders'
         /\ \A s \in Side : AtStake(s)' <= AtStake(s)
<1>1. toExchange \in Seq(Message) /\ toExchange # << >> /\ toExchange' = Tail(toExchange)
  BY DEF TypeOK, TraderTypeOK, ExecutorTypeOK, LinkTypeOK, ReceiveInsert, ReceiveCancel
<1>2. /\ Queued(toExchange') \subseteq Queued(toExchange)
      /\ IsInsert(Head(toExchange)) => AsOrder(Head(toExchange)) \in Queued(toExchange)
  BY <1>1, QueuedHead
<1>3. Open' \subseteq Open
  <2>1. CASE ReceiveInsert
    BY <1>2, <2>1 DEF ReceiveInsert, Open
  <2>2. CASE ReceiveCancel
    BY <1>2, <2>2 DEF ReceiveCancel, Open
  <2> QED BY <2>1, <2>2
<1>4. \A o \in Open' : o.volume <= LotSize
  BY <1>3 DEF SmallOrders
<1>5. \A s \in Side : Total(Volumes(Open', s)) <= Total(Volumes(Open, s))
  BY <1>3, OpenSound, StakeShrinks
<1> QED BY <1>4, <1>5 DEF SmallOrders, AtStake

(* A fill moves volume from what is at stake into the position. *)
LEMMA FillStake ==
  ASSUME TypeOK, OrdersAccountedFor, SmallOrders,
         NEW o \in orders, NEW volume \in 1 .. o.volume, Fill(o, volume)
  PROVE  /\ SmallOrders' /\ volume \in Nat
         /\ IF o.side = BUY
            THEN /\ etf_position' = etf_position + volume
                 /\ AtStake(BUY)' = AtStake(BUY) - volume /\ AtStake(SELL)' = AtStake(SELL)
            ELSE /\ etf_position' = etf_position - volume
                 /\ AtStake(SELL)' = AtStake(SELL) - volume /\ AtStake(BUY)' = AtStake(BUY)
<1> DEFINE rest == IF volume = o.volume THEN {} ELSE {Reduced(o, volume)}
<1>1. /\ toExchange' = toExchange /\ orders' = (orders \ {o}) \cup rest
      /\ etf_position' = IF o.side = BUY THEN etf_position + volume ELSE etf_position - volume
  BY DEF Fill
<1>2. Sound(Open) /\ o \in Open /\ o.side \in Side /\ volume \in Nat /\ o.id \in Nat
  BY OpenSound DEF Open, Sound
<1>3. o \notin Queued(toExchange)
  <2>1. toExchange \in Seq(Message) /\ o.id <= highest_id /\ highest_id \in Nat
    BY DEF TypeOK, TraderTypeOK, ExecutorTypeOK, LinkTypeOK, ExchangeTypeOK,
           OrdersAccountedFor, QuoteInv, LiveOrders
  <2>2. ASSUME NEW i \in DOMAIN toExchange, IsInsert(toExchange[i])
        PROVE  o # AsOrder(toExchange[i])
    <3>1. toExchange[i].id \in Nat /\ highest_id < toExchange[i].id
      BY <2>1, <2>2, InsertHasSide
         DEF OrdersAccountedFor, QuoteInv, QueuedOrders, Quotes, CurrentLink
    <3>2. AsOrder(toExchange[i]).id = toExchange[i].id
      BY DEF AsOrder
    <3> QED BY <1>2, <2>1, <3>1, <3>2
  <2> QED BY <2>2 DEF Queued
<1>4. Open' = (Open \ {o}) \cup rest
  BY <1>1, <1>3 DEF Open
<1>5. /\ Sound(Open')
      /\ \A s \in Side : Total(Volumes(Open', s))
           = Total(Volumes(Open, s)) - (IF s = o.side THEN volume ELSE 0)
  BY <1>2, <1>4, StakeFilled
<1>6. \A p \in Open' : p.volume <= LotSize
  BY <1>5 DEF Sound
<1>7. /\ BUY \in Side /\ SELL \in Side /\ BUY # SELL
      /\ o.side = BUY \/ o.side = SELL
      /\ Total(Volumes(Open, BUY)) \in Nat /\ Total(Volumes(Open, SELL)) \in Nat
  BY <1>2, VolumesIs, TotalType DEF Side, BUY, SELL
<1>8. /\ Total(Volumes(Open', BUY))
           = Total(Volumes(Open, BUY)) - (IF BUY = o.side THEN volume ELSE 0)
      /\ Total(Volumes(Open', SELL))
           = Total(Volumes(Open, SELL)) - (IF SELL = o.side THEN volume ELSE 0)
  BY <1>5, <1>7
<1>9. IF o.side = BUY
      THEN /\ Total(Volumes(Open', BUY)) = Total(Volumes(Open, BUY)) - volume
           /\ Total(Volumes(Open', SELL)) = Total(Volumes(Open, SELL))
      ELSE /\ Total(Volumes(Open', SELL)) = Total(Volumes(Open, SELL)) - volume
           /\ Total(Volumes(Open', BUY)) = Total(Volumes(Open, BUY))
  BY <1>7, <1>8
<1> QED BY <1>1, <1>2, <1>6, <1>9 DEF SmallOrders, AtStake

(* When trader and exchange are in step, the executor knows the position    *)
(* and has one lot at stake on each side at most.                           *)
LEMMA InStepStake ==
  ASSUME TypeOK, OrdersAccountedFor, PositionReported, SmallOrders, InStep
  PROVE  /\ position_ = etf_position
         /\ \A s \in Side : AtStake(s) <= LotSize
<1>1. position_ = etf_position
  BY DEF PositionReported, Reports, InStep
<1>2. Sound(Open) /\ LotSize \in Nat
  BY OpenSound, ExecutorAssumption
<1>3. \A o \in Open : o.id = id_[o.side]
  <2>1. \A o : o \notin Queued(toExchange)
    BY DEF InStep, Queued
  <2>2. \A o \in orders : ~Settled(CurrentLink, o.id, 0, Len(toExchange) + 1)
    BY DEF InStep, Settled, CurrentLink
  <2>3. \A o \in orders : Holds(Quotes, o)
    BY <2>2 DEF OrdersAccountedFor, QuoteInv, LiveOrders, Quotes, CurrentLink
  <2> QED BY <2>1, <2>3 DEF Open, Holds, Quotes
<1>4. ASSUME NEW s \in Side
      PROVE  Total(Volumes(Open, s)) <= LotSize
  <2>1. \A k \in 1 .. MaxOrderId : Volume(Open, s, k) <= IF k = id_[s] THEN LotSize ELSE 0
    <3> TAKE k \in 1 .. MaxOrderId
    <3>1. CASE k = id_[s]
      BY <1>2, <3>1, VolumeIs
    <3>2. CASE k # id_[s]
      <4>1. \A o \in Open : ~(o.side = s /\ o.id = k)
        BY <1>3, <3>2
      <4>2. Volume(Open, s, k) = 0
        BY <1>2, <4>1, VolumeIs
      <4> QED BY <3>2, <4>2
    <3> QED BY <3>1, <3>2
  <2>2. /\ Volumes(Open, s) \in VolumesType
        /\ \A k \in 1 .. MaxOrderId : Volumes(Open, s)[k] = Volume(Open, s, k)
    BY <1>2, VolumesIs
  <2>3. \A k \in 1 .. MaxOrderId : Volumes(Open, s)[k] <= IF k = id_[s] THEN LotSize ELSE 0
    BY <2>1, <2>2
  <2> QED BY <1>2, <2>2, <2>3, TotalSingle
<1> QED BY <1>1, <1>4 DEF AtStake

-----------------------------------------------------------------------------
(* The invariant.                                                           *)

(* One lot more for each update handled blindly. *)
LEMMA LotsGrow ==
  /\ \A n \in Nat : Lots(n) \in Nat /\ Lots(n + 1) = Lots(n) + LotSize
  /\ \A n, m \in Nat : n <= m => Lots(n) <= Lots(m)
  /\ Lots(0) = LotSize
<1>1. LotSize \in Nat
  BY ExecutorAssumption
<1>2. \A n \in Nat : Lots(n) \in Nat /\ Lots(n + 1) = Lots(n) + LotSize
  BY <1>1 DEF Lots
<1>3. ASSUME NEW n \in Nat, NEW m \in Nat, n <= m
      PROVE  Lots(n) <= Lots(m)
  <2>1. m - n \in Nat /\ LotSize * (m - n) \in Nat
    BY <1>1, <1>3
  <2>2. Lots(m) = Lots(n) + LotSize * (m - n)
    BY <1>1 DEF Lots
  <2> QED BY <1>2, <2>1, <2>2
<1>4. Lots(0) = LotSize
  BY <1>1 DEF Lots
<1> QED BY <1>2, <1>3, <1>4

(* StaleByLag, for any stakes, positions and queue. *)
Near(buy, sell, etf, pos, n) == etf + buy <= pos + Lots(n) /\ etf - sell >= pos - Lots(n)

Stale(buy, sell, etf, from, known, queue, n) ==
  /\ buy <= Lots(n) /\ sell <= Lots(n)
  /\ from # "torn" => Near(buy, sell, etf, known, n)
  /\ \A i \in DOMAIN queue :
       IsReport(queue[i]) => Near(buy, sell, etf, queue[i].etf_position, n)

(* StaleByLag is about the queue to the trader. *)
LEMMA StaleDef ==
  StaleByLag <=> Stale(AtStake(BUY), AtStake(SELL), etf_position, source, position_,
                       fromExchange, lag)
BY DEF StaleByLag, Stale, Near, Highest, Lowest, Reports

(* What is at stake is a number. *)
LEMMA StakeType ==
  TypeOK /\ OrdersAccountedFor /\ SmallOrders => AtStake(BUY) \in Nat /\ AtStake(SELL) \in Nat
BY OpenSound, VolumesIs, TotalType DEF AtStake

(* In step, the position is out by the resting quotes only. *)
LEMMA StaleIfInStep ==
  TypeOK /\ OrdersAccountedFor /\ PositionReported /\ SmallOrders /\ InStep
    => Stale(AtStake(BUY), AtStake(SELL), etf_position, source, position_, fromExchange, 0)
<1> SUFFICES ASSUME TypeOK, OrdersAccountedFor, PositionReported, SmallOrders, InStep
             PROVE  Stale(AtStake(BUY), AtStake(SELL), etf_position, source, position_,
                          fromExchange, 0)
  OBVIOUS
<1>1. position_ = etf_position /\ AtStake(BUY) <= LotSize /\ AtStake(SELL) <= LotSize
  BY InStepStake DEF Side
<1>2. AtStake(BUY) \in Nat /\ AtStake(SELL) \in Nat /\ etf_position \in Int
  BY StakeType DEF TypeOK, ExchangeTypeOK
<1>3. Lots(0) = LotSize /\ LotSize \in Nat
  BY LotsGrow, ExecutorAssumption
<1>4. Near(AtStake(BUY), AtStake(SELL), etf_position, position_, 0)
  BY <1>1, <1>2, <1>3 DEF Near
<1>5. DOMAIN fromExchange = {}
  BY DEF InStep
<1> QED BY <1>1, <1>3, <1>4, <1>5 DEF Stale

(* With less at stake the positions are no further out. *)
LEMMA StaleFewer ==
  ASSUME NEW buy \in Nat, NEW sell \in Nat, NEW fewer \in Nat, NEW less \in Nat,
         fewer <= buy, less <= sell, NEW etf \in Int, NEW from, NEW known \in Int,
         NEW queue \in Seq(ExecMessage), NEW n \in Nat, Stale(buy, sell, etf, from, known, queue, n)
  PROVE  Stale(fewer, less, etf, from, known, queue, n)
<1>1. Lots(n) \in Nat
  BY LotsGrow
<1>2. ASSUME NEW pos \in Int, Near(buy, sell, etf, pos, n)
      PROVE  Near(fewer, less, etf, pos, n)
  BY <1>1, <1>2 DEF Near
<1>3. \A i \in DOMAIN queue : IsReport(queue[i]) => queue[i].etf_position \in Int
  BY DEF ExecMessage, IsReport, POSITION_UPDATE_TYPE, ORDER_STATUS_UPDATE_TYPE
<1>4. fewer <= Lots(n) /\ less <= Lots(n)
  BY <1>1 DEF Stale
<1> QED BY <1>2, <1>3, <1>4 DEF Stale

(* With one lot more at stake they are out by one lot more. *)
LEMMA StaleOneMore ==
  ASSUME NEW buy \in Nat, NEW sell \in Nat, NEW more \in Nat, NEW extra \in Nat,
         more <= buy + LotSize, extra <= sell + LotSize, NEW etf \in Int, NEW from, NEW known \in Int,
         NEW queue \in Seq(ExecMessage), NEW n \in Nat, Stale(buy, sell, etf, from, known, queue, n)
  PROVE  Stale(more, extra, etf, from, known, queue, n + 1)
<1>1. Lots(n) \in Nat /\ Lots(n + 1) = Lots(n) + LotSize /\ LotSize \in Nat
  BY LotsGrow, ExecutorAssumption
<1>2. ASSUME NEW pos \in Int, Near(buy, sell, etf, pos, n)
      PROVE  Near(more, extra, etf, pos, n + 1)
  <2> DEFINE L == Lots(n)
             M == Lots(n + 1)
  <2>1. L \in Nat /\ M = L + LotSize /\ etf + buy <= pos + L /\ etf - sell >= pos - L
    BY <1>1, <1>2 DEF Near
  <2> HIDE DEF L, M
  <2>2. etf + more <= pos + M /\ etf - extra >= pos - M
    BY <1>1, <2>1
  <2> QED BY <2>2 DEF Near, L, M
<1>3. \A i \in DOMAIN queue : IsReport(queue[i]) => queue[i].etf_position \in Int
  BY DEF ExecMessage, IsReport, POSITION_UPDATE_TYPE, ORDER_STATUS_UPDATE_TYPE
<1>4. more <= Lots(n + 1) /\ extra <= Lots(n + 1)
  BY <1>1 DEF Stale
<1> QED BY <1>2, <1>3, <1>4 DEF Stale

(* The executor keeps the position it knows, learns the one of the first    *)
(* message, or is given one by a torn read.                                 *)
Learns(queue, from, known, new, next) ==
  new # "torn" => \/ next = known /\ from # "torn"
                  \/ /\ 1 \in DOMAIN queue /\ IsReport(queue[1])
                     /\ next = queue[1].etf_position

(* Messages are read. *)
LEMMA StaleDropped ==
  ASSUME NEW queue \in Seq(ExecMessage), NEW k \in Nat, k <= Len(queue), NEW rest,
         rest = SubSeq(queue, k + 1, Len(queue)),
         NEW from, NEW known, NEW new, NEW next, NEW buy, NEW sell, NEW etf, NEW n,
         Stale(buy, sell, etf, from, known, queue, n), Learns(queue, from, known, new, next)
  PROVE  Stale(buy, sell, etf, new, next, rest, n)
<1>1. \A i \in DOMAIN rest : i + k \in DOMAIN queue /\ rest[i] = queue[i + k]
  OBVIOUS
<1> QED BY <1>1 DEF Stale, Learns

(* A fill: what is bought is no longer at stake, and the new report is out  *)
(* by what is still at stake.                                               *)
LEMMA StaleFill ==
  ASSUME NEW queue \in Seq(ExecMessage), NEW longer, NEW pos \in Int,
         \/ longer = queue \o <<StatusUpdate, PositionUpdate(pos)>>
         \/ longer = queue \o <<PositionUpdate(pos), StatusUpdate>>,
         NEW buy \in Nat, NEW sell \in Nat, NEW fewer \in Nat, NEW less \in Nat,
         fewer <= buy, less <= sell, NEW etf \in Int, NEW from, NEW known \in Int,
         pos + fewer <= etf + buy, pos - less >= etf - sell,
         NEW n \in Nat, Stale(buy, sell, etf, from, known, queue, n)
  PROVE  Stale(fewer, less, pos, from, known, longer, n)
<1>1. Lots(n) \in Nat
  BY LotsGrow
<1>2. ASSUME NEW p \in Int, Near(buy, sell, etf, p, n)
      PROVE  Near(fewer, less, pos, p, n)
  BY <1>1, <1>2 DEF Near
<1>3. \A i \in DOMAIN queue : IsReport(queue[i]) => queue[i].etf_position \in Int
  BY DEF ExecMessage, IsReport, POSITION_UPDATE_TYPE, ORDER_STATUS_UPDATE_TYPE
<1>4. fewer <= Lots(n) /\ less <= Lots(n)
  BY <1>1 DEF Stale
<1>5. Near(fewer, less, pos, pos, n)
  BY <1>1, <1>4 DEF Near
<1>6. /\ ~IsReport(StatusUpdate) /\ PositionUpdate(pos).etf_position = pos
      /\ StatusUpdate \in ExecMessage /\ PositionUpdate(pos) \in ExecMessage
  BY DEF StatusUpdate, PositionUpdate, IsReport, ExecMessage, POSITION_UPDATE_TYPE,
         ORDER_STATUS_UPDATE_TYPE
<1>7. ASSUME NEW i \in DOMAIN longer
      PROVE  \/ i \in DOMAIN queue /\ longer[i] = queue[i]
             \/ longer[i] = StatusUpdate
             \/ longer[i] = PositionUpdate(pos)
  <2> DEFINE s == StatusUpdate
             r == PositionUpdate(pos)
             m == Len(queue)
  <2>1. s \in ExecMessage /\ r \in ExecMessage
    BY <1>6
  <2> HIDE DEF s, r
  <2>2. longer = queue \o <<s, r>> \/ longer = queue \o <<r, s>>
    BY DEF s, r
  <2>3. /\ m \in Nat /\ DOMAIN queue = 1 .. m /\ DOMAIN longer = 1 .. m + 2
        /\ \A k \in 1 .. m : longer[k] = queue[k]
        /\ longer[m + 1] \in {s, r} /\ longer[m + 2] \in {s, r}
    BY <2>1, <2>2
  <2> HIDE DEF m
  <2>4. i \in 1 .. m \/ i = m + 1 \/ i = m + 2
    BY <1>7, <2>3
  <2> QED BY <2>3, <2>4 DEF s, r
<1>8. ASSUME NEW i \in DOMAIN longer, IsReport(longer[i])
      PROVE  Near(fewer, less, pos, longer[i].etf_position, n)
  BY <1>2, <1>3, <1>5, <1>6, <1>7, <1>8 DEF Stale
<1>9. from # "torn" => Near(fewer, less, pos, known, n)
  BY <1>2 DEF Stale
<1> QED BY <1>4, <1>8, <1>9 DEF Stale

-----------------------------------------------------------------------------
(* The reports.                                                             *)

(* PositionReported, for any queue and any two positions. *)
Reported(queue, from, known, true) ==
  /\ (\A i \in DOMAIN queue : ~IsReport(queue[i])) /\ from = "current" => known = true
  /\ \A i \in DOMAIN queue :
       /\ IsReport(queue[i])
       /\ \A j \in DOMAIN queue : IsReport(queue[j]) => j <= i
       => queue[i].etf_position = true

(* PositionReported is about the queue to the trader. *)
LEMMA ReportedDef ==
  PositionReported <=> Reported(fromExchange, source, position_, etf_position)
BY DEF PositionReported, Reported, Reports

(* Of the k messages taken none is a report, or only the first, which makes *)
(* the position known; otherwise the position is not current.               *)
LearnsLast(queue, k, from, known, new, next) ==
  new = "current" =>
    \/ /\ next = known /\ from = "current"
       /\ \A i \in 1 .. k : ~IsReport(queue[i])
    \/ /\ 1 \in DOMAIN queue /\ IsReport(queue[1]) /\ next = queue[1].etf_position
       /\ \A i \in 2 .. k : ~IsReport(queue[i])

(* Messages are read: a current position is as true as it was. *)
LEMMA ReportedDropped ==
  ASSUME NEW queue \in Seq(ExecMessage), NEW k \in Nat, k <= Len(queue), NEW rest,
         rest = SubSeq(queue, k + 1, Len(queue)),
         NEW from, NEW known, NEW new, NEW next, NEW true, Reported(queue, from, known, true),
         LearnsLast(queue, k, from, known, new, next)
  PROVE  Reported(rest, new, next, true)
<1>1. /\ Len(queue) \in Nat /\ DOMAIN queue = 1 .. Len(queue)
      /\ DOMAIN rest = 1 .. Len(queue) - k
      /\ \A i \in DOMAIN rest : i \in Nat /\ i + k \in DOMAIN queue /\ rest[i] = queue[i + k]
  OBVIOUS
<1>2. ASSUME NEW j \in DOMAIN queue, k < j
      PROVE  j - k \in DOMAIN rest /\ rest[j - k] = queue[j]
  <2>1. j - k \in DOMAIN rest /\ (j - k) + k = j
    BY <1>1, <1>2
  <2> QED BY <1>1, <2>1
<1>3. ASSUME \A i \in DOMAIN rest : ~IsReport(rest[i]), new = "current"
      PROVE  next = true
  <2>1. \A j \in DOMAIN queue : IsReport(queue[j]) => j \in 1 .. k
    <3> SUFFICES ASSUME NEW j \in DOMAIN queue, IsReport(queue[j]), ~(j \in 1 .. k)
                 PROVE  FALSE
      OBVIOUS
    <3>1. k < j
      BY <1>1
    <3> QED BY <1>2, <1>3, <3>1
  <2>2. CASE /\ next = known /\ from = "current"
             /\ \A i \in 1 .. k : ~IsReport(queue[i])
    <3>1. \A j \in DOMAIN queue : ~IsReport(queue[j])
      BY <2>1, <2>2
    <3> QED BY <2>2, <3>1 DEF Reported
  <2>3. CASE /\ 1 \in DOMAIN queue /\ IsReport(queue[1]) /\ next = queue[1].etf_position
             /\ \A i \in 2 .. k : ~IsReport(queue[i])
    <3>1. \A j \in DOMAIN queue : IsReport(queue[j]) => j <= 1
      <4> SUFFICES ASSUME NEW j \in DOMAIN queue, IsReport(queue[j]), ~(j <= 1)
                   PROVE  FALSE
        OBVIOUS
      <4>1. j \in 2 .. k
        BY <1>1, <2>1
      <4> QED BY <2>3, <4>1
    <3> QED BY <2>3, <3>1 DEF Reported
  <2> QED BY <1>3, <2>2, <2>3 DEF LearnsLast
<1>4. ASSUME NEW i \in DOMAIN rest, IsReport(rest[i]),
             \A j \in DOMAIN rest : IsReport(rest[j]) => j <= i
      PROVE  rest[i].etf_position = true
  <2>1. ASSUME NEW j \in DOMAIN queue, IsReport(queue[j])
        PROVE  j <= i + k
    <3>1. CASE k < j
      <4>1. j - k <= i /\ j \in Nat /\ i \in Nat
        BY <1>1, <1>2, <1>4, <2>1, <3>1
      <4> QED BY <4>1
    <3>2. CASE ~(k < j)
      BY <1>1, <3>2
    <3> QED BY <3>1, <3>2
  <2>2. i + k \in DOMAIN queue /\ IsReport(queue[i + k]) /\ rest[i] = queue[i + k]
    BY <1>1, <1>4
  <2> QED BY <2>1, <2>2 DEF Reported
<1> QED BY <1>3, <1>4 DEF Reported

(* A fill reports the position it leads to, with the status before or after. *)
LEMMA ReportedFill ==
  ASSUME NEW queue \in Seq(ExecMessage), NEW pos \in Int, NEW from, NEW known
  PROVE  /\ Reported(queue \o <<StatusUpdate, PositionUpdate(pos)>>, from, known, pos)
         /\ Reported(queue \o <<PositionUpdate(pos), StatusUpdate>>, from, known, pos)
<1> DEFINE n == Len(queue)
           s == StatusUpdate
           p == PositionUpdate(pos)
           q1 == queue \o <<s, p>>
           q2 == queue \o <<p, s>>
<1>1. /\ ~IsReport(s) /\ IsReport(p) /\ p.etf_position = pos
      /\ s \in ExecMessage /\ p \in ExecMessage
  BY DEF StatusUpdate, PositionUpdate, IsReport, ExecMessage, POSITION_UPDATE_TYPE,
         ORDER_STATUS_UPDATE_TYPE
<1> HIDE DEF s, p
<1>2. /\ n \in Nat /\ DOMAIN q1 = 1 .. n + 2 /\ q1[n + 1] = s /\ q1[n + 2] = p
      /\ DOMAIN q2 = 1 .. n + 2 /\ q2[n + 1] = p /\ q2[n + 2] = s
  BY <1>1
<1> HIDE DEF n, q1, q2
<1>3. Reported(q1, from, known, pos)
  <2>1. n + 2 \in DOMAIN q1 /\ IsReport(q1[n + 2])
    BY <1>1, <1>2
  <2>2. ASSUME NEW i \in DOMAIN q1, \A j \in DOMAIN q1 : IsReport(q1[j]) => j <= i
        PROVE  i = n + 2
    <3>1. n + 2 <= i
      BY <2>1, <2>2
    <3> QED BY <1>2, <3>1
  <2> QED BY <1>1, <1>2, <2>1, <2>2 DEF Reported
<1>4. Reported(q2, from, known, pos)
  <2>1. n + 1 \in DOMAIN q2 /\ IsReport(q2[n + 1])
    BY <1>1, <1>2
  <2>2. ASSUME NEW i \in DOMAIN q2, IsReport(q2[i]),
               \A j \in DOMAIN q2 : IsReport(q2[j]) => j <= i
        PROVE  i = n + 1
    <3>1. n + 1 <= i /\ i # n + 2
      BY <1>1, <1>2, <2>1, <2>2
    <3> QED BY <1>2, <3>1
  <2> QED BY <1>1, <1>2, <2>1, <2>2 DEF Reported
<1> QED BY <1>3, <1>4 DEF q1, q2, s, p

-----------------------------------------------------------------------------
(* A read takes k messages. *)
Takes(k) ==
  /\ k \in Nat /\ k <= Len(fromExchange)
  /\ fromExchange' = SubSeq(fromExchange, k + 1, Len(fromExchange))
  /\ Learns(fromExchange, source, position_, source', position_')
  /\ LearnsLast(fromExchange, k, source, position_, source', position_')

(* The trader reads: a book or what has arrived of the exec messages. *)
Reads ==
  /\ \E k : Takes(k)
  /\ UNCHANGED <<orders, highest_id, etf_position>>
  /\ (\E book \in Books : HandlesBook(book)) \/ LeavesQuotes

(* What is left after k messages are taken is k shorter. *)
LEMMA ConsumeLength ==
  ASSUME TypeOK, NEW k \in Nat, Consume(k)
  PROVE  /\ k <= Len(fromExchange) /\ Len(fromExchange) \in Nat
         /\ Len(fromExchange) - Len(fromExchange') = k
<1>1. fromExchange \in Seq(ExecMessage)
  BY DEF TypeOK, ExchangeTypeOK, ExecMessage
<1> QED BY <1>1 DEF Consume

(* Every step of the trader is a read, of a book or of the exec messages    *)
(* that have arrived, whole or torn.                                        *)
LEMMA StepReads ==
  ASSUME TypeOK, Step
  PROVE  Reads \/ (ExchangeStep /\ source' = source)
<1>1. fromExchange \in Seq(ExecMessage) /\ MaxCoalesce \in Nat
  BY CoalesceAssumption DEF TypeOK, ExchangeTypeOK, ExecMessage
<1>2. CASE (\E book \in Books : ReadInfo(book)) /\ source' = source
  <2>1. /\ UNCHANGED <<orders, highest_id, etf_position, fromExchange>>
        /\ position_' = position_
    BY <1>2, BookStep DEF ReadInfo, exchangeVars
  <2>2. fromExchange' = SubSeq(fromExchange, 0 + 1, Len(fromExchange)) /\ 0 <= Len(fromExchange)
    BY <1>1, <2>1
  <2>3. Takes(0)
    BY <1>2, <2>1, <2>2 DEF Takes, Learns, LearnsLast
  <2>4. \E book \in Books : HandlesBook(book)
    BY <1>2 DEF ReadInfo, exchangeVars, HandlesBook
  <2> QED BY <2>1, <2>3, <2>4 DEF Reads
<1>3. CASE ReadExec /\ source' = Skips(2, Heard)
  <2>1. PICK k \in 1 .. MaxCoalesce : Consume(k)
    BY <1>3 DEF ReadExec
  <2>2. /\ k \in Nat /\ k <= Len(fromExchange) /\ 1 <= k
        /\ fromExchange' = SubSeq(fromExchange, k + 1, Len(fromExchange))
        /\ Len(fromExchange) - Len(fromExchange') = k
        /\ UNCHANGED <<orders, highest_id, etf_position>>
    BY <1>1, <2>1, ConsumeLength DEF Consume
  <2>3. 1 \in DOMAIN fromExchange /\ Head(fromExchange) = fromExchange[1]
    BY <1>1, <1>3 DEF ReadExec
  <2>4. source' = IF Heard = "current" /\ \E i \in 2 .. k : IsReport(fromExchange[i])
                  THEN "missed" ELSE Heard
    BY <1>3, <2>2 DEF Skips
  <2> LeavesQuotes
    BY <1>3, <2>2 DEF ReadExec, onPositionUpdate, onOrderStatusUpdate,
                      executor_onPositionUpdate, traderVars, LeavesQuotes
  <2>5. CASE IsReport(fromExchange[1])
    <3>1. Heard = "current"
      BY <2>3, <2>5 DEF Heard
    <3>2. position_' = fromExchange[1].etf_position
      BY <1>3, <2>3, <2>5 DEF ReadExec, IsReport, onPositionUpdate, executor_onPositionUpdate,
                              POSITION_UPDATE_TYPE, ORDER_STATUS_UPDATE_TYPE
    <3>3. Takes(k)
      BY <2>2, <2>3, <2>4, <2>5, <3>1, <3>2 DEF Takes, Learns, LearnsLast
    <3> QED BY <2>2, <3>3 DEF Reads
  <2>6. CASE ~IsReport(fromExchange[1])
    <3>1. Heard = source
      BY <2>3, <2>6 DEF Heard
    <3>2. position_' = position_
      BY <1>3, <2>3, <2>6 DEF ReadExec, IsReport, onOrderStatusUpdate, traderVars
    <3>3. source' = "current" => \A i \in 1 .. k : ~IsReport(fromExchange[i])
      <4> SUFFICES ASSUME source' = "current", NEW i \in 1 .. k, IsReport(fromExchange[i])
                   PROVE  FALSE
        OBVIOUS
      <4>1. i \in 2 .. k
        BY <2>2, <2>6
      <4> QED BY <2>4, <4>1
    <3>4. Takes(k)
      BY <2>2, <2>4, <3>1, <3>2, <3>3 DEF Takes, Learns, LearnsLast
    <3> QED BY <2>2, <3>4 DEF Reads
  <2> QED BY <2>5, <2>6
<1>4. CASE ReadTorn /\ source' = IF position_' # position_ THEN "torn" ELSE Skips(1, source)
  <2>1. PICK k \in 0 .. MaxCoalesce : Consume(k)
    BY <1>4 DEF ReadTorn
  <2>2. /\ k \in Nat /\ k <= Len(fromExchange)
        /\ fromExchange' = SubSeq(fromExchange, k + 1, Len(fromExchange))
        /\ Len(fromExchange) - Len(fromExchange') = k
        /\ UNCHANGED <<orders, highest_id, etf_position>>
    BY <1>1, <2>1, ConsumeLength DEF Consume
  <2>3. source' = IF position_' # position_ THEN "torn"
                  ELSE IF source = "current" /\ \E i \in 1 .. k : IsReport(fromExchange[i])
                  THEN "missed" ELSE source
    BY <1>4, <2>2 DEF Skips
  <2>4. Takes(k)
    BY <2>2, <2>3 DEF Takes, Learns, LearnsLast
  <2>5. CASE \E pos \in Positions : onPositionUpdate(pos)
    BY <2>2, <2>4, <2>5 DEF onPositionUpdate, executor_onPositionUpdate, LeavesQuotes, Reads
  <2>6. CASE \E book \in Books : onOrderBookUpdate(book)
    BY <2>2, <2>4, <2>6 DEF HandlesBook, Reads
  <2>7. CASE onOrderStatusUpdate
    BY <2>2, <2>4, <2>7 DEF onOrderStatusUpdate, traderVars, LeavesQuotes, Reads
  <2> QED BY <1>4, <2>5, <2>6, <2>7 DEF ReadTorn
<1> QED BY <1>2, <1>3, <1>4 DEF Step

-----------------------------------------------------------------------------
(* The parts of the invariant beside the theorems of TradingProofs. *)
ExposureInv ==
  /\ lag \in 0 .. MaxLag /\ SmallOrders
  /\ PositionReported /\ StaleByLag /\ PositionBounded

(* The arithmetic of one more lot. *)
LEMMA WithinSlack ==
  ASSUME NEW etf \in Int, NEW stake \in Nat, NEW pos \in Int, NEW limit \in Nat,
         NEW lots \in Nat, NEW all \in Nat, NEW lot \in Nat, lots + lot <= all
  PROVE  /\ etf + stake <= pos + lots /\ pos < limit
              => etf + (stake + lot) <= limit - 1 + all
         /\ etf - stake >= pos - lots /\ pos > -limit
              => etf - (stake + lot) >= -(limit - 1 + all)
OBVIOUS

(* Of orders that go away. *)
LEMMA FewerWithin ==
  ASSUME NEW etf \in Int, NEW buy \in Nat, NEW sell \in Nat,
         NEW fewer \in Nat, NEW less \in Nat, fewer <= buy, less <= sell
  PROVE  etf + fewer <= etf + buy /\ etf - less >= etf - sell
OBVIOUS

(* Of a fill. *)
LEMMA FillWithin ==
  ASSUME NEW etf \in Int, NEW new \in Int, NEW buy \in Nat, NEW sell \in Nat,
         NEW fewer \in Nat, NEW less \in Nat, NEW volume \in Nat,
         \/ new = etf + volume /\ fewer = buy - volume /\ less = sell
         \/ new = etf - volume /\ less = sell - volume /\ fewer = buy
  PROVE  /\ fewer <= buy /\ less <= sell
         /\ new + fewer <= etf + buy /\ new - less >= etf - sell
OBVIOUS

(* And of a bound that holds already. *)
LEMMA StaysWithin ==
  ASSUME NEW etf \in Int, NEW new \in Int, NEW buy \in Nat, NEW sell \in Nat,
         NEW fewer \in Nat, NEW less \in Nat, NEW slack \in Int,
         etf + buy <= slack, etf - sell >= -slack,
         new + fewer <= etf + buy, new - less >= etf - sell
  PROVE  new + fewer <= slack /\ new - less >= -slack
OBVIOUS

(* Every step keeps PositionReported. *)
LEMMA ReportedStep ==
  ASSUME TypeOK, TypeOK', PositionReported, Step
  PROVE  PositionReported'
<1>1. fromExchange \in Seq(ExecMessage) /\ etf_position' \in Int
  BY DEF TypeOK, ExchangeTypeOK, ExecMessage
<1>2. Reported(fromExchange, source, position_, etf_position)
  BY ReportedDef
<1>3. SUFFICES Reported(fromExchange', source', position_', etf_position')
  BY DEF PositionReported, Reported, Reports
<1>4. CASE Reads
  <2>1. PICK k : Takes(k)
    BY <1>4 DEF Reads
  <2>2. /\ k \in Nat /\ k <= Len(fromExchange)
        /\ fromExchange' = SubSeq(fromExchange, k + 1, Len(fromExchange))
        /\ LearnsLast(fromExchange, k, source, position_, source', position_')
    BY <2>1 DEF Takes
  <2>3. Reported(fromExchange', source', position_', etf_position)
    BY <1>1, <1>2, <2>2, ReportedDropped
  <2> QED BY <1>4, <2>3 DEF Reads
<1>5. CASE ExchangeStep /\ source' = source /\ (ReceiveInsert \/ ReceiveCancel)
  BY <1>2, <1>5 DEF ExchangeStep, ReceiveInsert, ReceiveCancel
<1>6. ASSUME NEW o \in orders, NEW volume \in 1 .. o.volume, Fill(o, volume)
      PROVE  Reported(fromExchange', source', position_', etf_position')
  <2>1. \/ fromExchange' = fromExchange \o <<StatusUpdate, PositionUpdate(etf_position')>>
        \/ fromExchange' = fromExchange \o <<PositionUpdate(etf_position'), StatusUpdate>>
    BY <1>6 DEF Fill
  <2> QED BY <1>1, <2>1, ReportedFill
<1> QED BY <1>4, <1>5, <1>6, StepReads DEF ExchangeStep, ExchangeNext

(* What a step of the trader does to the stakes: an update that inserts     *)
(* adds a lot where the position leaves room, nothing else adds anything.   *)
LEMMA ReadStake ==
  ASSUME TypeOK, TypeOK', OrdersAccountedFor, OrdersAccountedFor', SmallOrders, Reads
  PROVE  /\ SmallOrders'
         /\ \A s \in Side : \/ AtStake(s)' = AtStake(s)
                            \/ Inserts /\ HasRoom(s) /\ AtStake(s)' = AtStake(s) + LotSize
<1>1. CASE \E book \in Books : HandlesBook(book)
  BY <1>1, BookStake
<1>2. CASE LeavesQuotes
  <2>1. Open' = Open
    BY <1>2 DEF LeavesQuotes, Open
  <2> QED BY <2>1 DEF SmallOrders, AtStake
<1> QED BY <1>1, <1>2 DEF Reads

(* What a step does to the stakes, the position and what the executor knows *)
(* of it.                                                                   *)
LEMMA StaleStep ==
  ASSUME TypeOK, TypeOK', OrdersAccountedFor, OrdersAccountedFor', ExposureInv, ExposureNext
  PROVE  /\ SmallOrders'
         /\ Stale(AtStake(BUY)', AtStake(SELL)', etf_position', source', position_',
                  fromExchange', IF Inserts THEN lag + 1 ELSE lag)
         /\ PositionBounded'
<1> DEFINE b == AtStake(BUY)
           s == AtStake(SELL)
           slack == PositionLimit - 1 + Lots(MaxLag)
           n == IF Inserts THEN lag + 1 ELSE lag
<1>1. /\ lag \in Nat /\ lag <= MaxLag /\ MaxLag \in Nat /\ SmallOrders
      /\ PositionLimit \in Nat /\ LotSize \in Nat
      /\ fromExchange \in Seq(ExecMessage) /\ etf_position \in Int /\ position_ \in Int
      /\ etf_position' \in Int /\ position_' \in Int
      /\ BUY \in Side /\ SELL \in Side
  BY LagAssumption, ExecutorAssumption DEF ExposureInv, TypeOK, ExchangeTypeOK, ExecMessage,
       TraderTypeOK, ExecutorTypeOK, Side
<1>2. Stale(b, s, etf_position, source, position_, fromExchange, lag)
  BY StaleDef DEF ExposureInv
<1>3. b \in Nat /\ s \in Nat
  BY <1>1, StakeType
<1>4. slack \in Int /\ (strayed \/ (etf_position + b <= slack /\ etf_position - s >= -slack))
  BY <1>1, LotsGrow DEF ExposureInv, PositionBounded, Highest, Lowest
<1>5. (TypeOK /\ OrdersAccountedFor /\ SmallOrders
         => AtStake(BUY) \in Nat /\ AtStake(SELL) \in Nat)'
  BY StakeType, PTL
<1> HIDE DEF b, s, slack
<1>6. SUFFICES /\ SmallOrders'
               /\ Stale(b', s', etf_position', source', position_', fromExchange', n)
               /\ strayed' \/ (etf_position' + b' <= slack /\ etf_position' - s' >= -slack)
  BY DEF PositionBounded, Highest, Lowest, b, s, slack
<1>7. SmallOrders' => b' \in Nat /\ s' \in Nat
  BY <1>5 DEF b, s
<1>8. /\ Inserts => lag < MaxLag
      /\ strayed => strayed'
      /\ source = "torn" /\ Inserts => strayed'
  BY DEF ExposureNext
<1>9. ASSUME ~Inserts, SmallOrders',
             Stale(b', s', etf_position', source', position_', fromExchange', lag),
             etf_position' + b' <= etf_position + b, etf_position' - s' >= etf_position - s
      PROVE  /\ SmallOrders'
             /\ Stale(b', s', etf_position', source', position_', fromExchange', n)
             /\ strayed' \/ (etf_position' + b' <= slack /\ etf_position' - s' >= -slack)
  <2>1. b' \in Nat /\ s' \in Nat
    BY <1>7, <1>9
  <2>2. CASE strayed
    BY <1>8, <1>9, <2>2
  <2>3. CASE ~strayed
    <3>1. etf_position' + b' <= slack /\ etf_position' - s' >= -slack
      BY <1>1, <1>3, <1>4, <1>9, <2>1, <2>3, StaysWithin
    <3> QED BY <1>9, <3>1
  <2> QED BY <2>2, <2>3
<1>10. CASE Reads
  <2>1. PICK k : Takes(k)
    BY <1>10 DEF Reads
  <2>2. /\ k \in Nat /\ k <= Len(fromExchange)
        /\ fromExchange' = SubSeq(fromExchange, k + 1, Len(fromExchange))
        /\ Learns(fromExchange, source, position_, source', position_')
    BY <2>1 DEF Takes
  <2>3. etf_position' = etf_position
    BY <1>10 DEF Reads
  <2>4. /\ SmallOrders'
        /\ b' = b \/ (Inserts /\ HasRoom(BUY) /\ b' = b + LotSize)
        /\ s' = s \/ (Inserts /\ HasRoom(SELL) /\ s' = s + LotSize)
    BY <1>1, <1>10, ReadStake DEF b, s
  <2>5. b' \in Nat /\ s' \in Nat
    BY <1>7, <2>4
  <2>6. CASE ~Inserts
    <3>1. b' = b /\ s' = s
      BY <2>4, <2>6
    <3>2. Stale(b, s, etf_position, source', position_', fromExchange', lag)
      BY <1>1, <1>2, <2>2, StaleDropped
    <3>3. etf_position + b <= etf_position + b /\ etf_position - s >= etf_position - s
      BY <1>1, <1>3
    <3> QED BY <1>9, <2>3, <2>4, <2>6, <3>1, <3>2, <3>3
  <2>7. CASE Inserts
    <3>1. b' <= b + LotSize /\ s' <= s + LotSize
      BY <1>1, <1>3, <2>4
    <3>2. Stale(b', s', etf_position, source, position_, fromExchange, lag + 1)
      BY <1>1, <1>2, <1>3, <2>5, <3>1, StaleOneMore
    <3>3. Stale(b', s', etf_position, source', position_', fromExchange', lag + 1)
      BY <1>1, <2>2, <3>2, StaleDropped
    <3>4. n = lag + 1
      BY <2>7
    <3>5. CASE strayed \/ source = "torn"
      BY <1>8, <2>3, <2>4, <2>7, <3>3, <3>4, <3>5
    <3>6. CASE ~strayed /\ source # "torn"
      <4>1. /\ Lots(lag) \in Nat /\ Lots(lag) + LotSize <= Lots(MaxLag) /\ Lots(MaxLag) \in Nat
        <5>1. lag + 1 \in Nat /\ lag + 1 <= MaxLag
          BY <1>1, <1>8, <2>7
        <5>2. Lots(lag + 1) <= Lots(MaxLag) /\ Lots(lag + 1) = Lots(lag) + LotSize
          BY <1>1, <5>1, LotsGrow
        <5> QED BY <1>1, <5>2, LotsGrow
      <4>2. /\ etf_position + b <= position_ + Lots(lag)
            /\ etf_position - s >= position_ - Lots(lag)
        BY <1>2, <3>6 DEF Stale, Near
      <4>3. slack = PositionLimit - 1 + Lots(MaxLag)
        BY DEF slack
      <4>4. etf_position + b' <= slack
        <5>1. CASE b' = b
          BY <1>4, <3>6, <5>1
        <5>2. CASE HasRoom(BUY) /\ b' = b + LotSize
          <6>1. position_ < PositionLimit
            BY <5>2 DEF HasRoom
          <6>2. etf_position + (b + LotSize) <= PositionLimit - 1 + Lots(MaxLag)
            BY <1>1, <1>3, <4>1, <4>2, <6>1, WithinSlack
          <6> QED BY <4>3, <5>2, <6>2
        <5> QED BY <2>4, <5>1, <5>2
      <4>5. etf_position - s' >= -slack
        <5>1. CASE s' = s
          BY <1>4, <3>6, <5>1
        <5>2. CASE HasRoom(SELL) /\ s' = s + LotSize
          <6>1. position_ > -PositionLimit
            BY <5>2 DEF HasRoom, BUY, SELL
          <6>2. etf_position - (s + LotSize) >= -(PositionLimit - 1 + Lots(MaxLag))
            BY <1>1, <1>3, <4>1, <4>2, <6>1, WithinSlack
          <6> QED BY <4>3, <5>2, <6>2
        <5> QED BY <2>4, <5>1, <5>2
      <4> QED BY <2>3, <2>4, <3>3, <3>4, <4>4, <4>5
    <3> QED BY <3>5, <3>6
  <2> QED BY <2>6, <2>7
<1>11. CASE ExchangeStep /\ source' = source /\ (ReceiveInsert \/ ReceiveCancel)
  <2>1. SmallOrders' /\ b' <= b /\ s' <= s
    BY <1>1, <1>11, ReceiveStake DEF b, s
  <2>2. UNCHANGED <<etf_position, fromExchange, position_>> /\ ~Inserts
    BY <1>11 DEF ExchangeStep, ReceiveInsert, ReceiveCancel, Inserts
  <2>3. b' \in Nat /\ s' \in Nat
    BY <1>7, <2>1
  <2>4. Stale(b', s', etf_position, source, position_, fromExchange, lag)
    BY <1>1, <1>2, <1>3, <2>1, <2>3, StaleFewer
  <2>5. etf_position + b' <= etf_position + b /\ etf_position - s' >= etf_position - s
    BY <1>1, <1>3, <2>1, <2>3, FewerWithin
  <2> QED BY <1>9, <1>11, <2>1, <2>2, <2>4, <2>5
<1>12. ASSUME NEW o \in orders, NEW volume \in 1 .. o.volume, Fill(o, volume), ExchangeStep,
              source' = source
       PROVE  /\ SmallOrders'
              /\ Stale(b', s', etf_position', source', position_', fromExchange', n)
              /\ strayed' \/ (etf_position' + b' <= slack /\ etf_position' - s' >= -slack)
  <2>1. /\ SmallOrders' /\ volume \in Nat
        /\ IF o.side = BUY
           THEN etf_position' = etf_position + volume /\ b' = b - volume /\ s' = s
           ELSE etf_position' = etf_position - volume /\ s' = s - volume /\ b' = b
    BY <1>1, <1>12, FillStake DEF b, s
  <2>2. b' \in Nat /\ s' \in Nat
    BY <1>7, <2>1
  <2>3. /\ b' <= b /\ s' <= s
        /\ etf_position' + b' <= etf_position + b /\ etf_position' - s' >= etf_position - s
    BY <1>1, <1>3, <2>1, <2>2, FillWithin
  <2>4. \/ fromExchange' = fromExchange \o <<StatusUpdate, PositionUpdate(etf_position')>>
        \/ fromExchange' = fromExchange \o <<PositionUpdate(etf_position'), StatusUpdate>>
    BY <1>12 DEF Fill
  <2>5. Stale(b', s', etf_position', source, position_, fromExchange', lag)
    BY <1>1, <1>2, <1>3, <2>2, <2>3, <2>4, StaleFill
  <2>6. position_' = position_ /\ ~Inserts
    BY <1>12 DEF ExchangeStep, Inserts
  <2> QED BY <1>9, <1>12, <2>1, <2>3, <2>5, <2>6
<1> QED BY <1>10, <1>11, <1>12, StepReads DEF ExposureNext, ExchangeStep, ExchangeNext

(* Every step keeps the invariant. *)
LEMMA ExposureStep ==
  ASSUME TypeOK, TypeOK', OrdersAccountedFor, OrdersAccountedFor',
         ExposureInv, [ExposureNext]_exposureVars
  PROVE  ExposureInv'
<1>1. CASE UNCHANGED exposureVars
  <2>1. /\ UNCHANGED <<lag, source, strayed, orders, toExchange, etf_position, position_,
                       fromExchange>>
    BY <1>1 DEF exposureVars, vars
  <2>2. Open' = Open
    BY <2>1 DEF Open
  <2> QED BY <2>1, <2>2 DEF ExposureInv, SmallOrders, PositionReported, Reports, StaleByLag,
                            PositionBounded, Highest, Lowest, AtStake
<1>2. CASE ExposureNext
  <2>1. /\ SmallOrders' /\ PositionBounded'
        /\ Stale(AtStake(BUY)', AtStake(SELL)', etf_position', source', position_',
                 fromExchange', IF Inserts THEN lag + 1 ELSE lag)
    BY <1>2, StaleStep
  <2>2. PositionReported'
    BY <1>2, ReportedStep DEF ExposureNext, ExposureInv
  <2>3. /\ lag' = IF InStep' THEN 0 ELSE IF Inserts THEN lag + 1 ELSE lag
        /\ Inserts => lag < MaxLag
    BY <1>2 DEF ExposureNext
  <2>4. lag' \in 0 .. MaxLag
    BY <2>3, LagAssumption DEF ExposureInv
  <2>5. Stale(AtStake(BUY)', AtStake(SELL)', etf_position', source', position_',
              fromExchange', lag')
    <3>1. CASE InStep'
      <4>1. (TypeOK /\ OrdersAccountedFor /\ PositionReported /\ SmallOrders /\ InStep
              => Stale(AtStake(BUY), AtStake(SELL), etf_position, source, position_,
                       fromExchange, 0))'
        BY StaleIfInStep, PTL
      <4> QED BY <2>1, <2>2, <2>3, <3>1, <4>1
    <3>2. CASE ~InStep'
      BY <2>1, <2>3, <3>2
    <3> QED BY <3>1, <3>2
  <2>6. (StaleByLag <=> Stale(AtStake(BUY), AtStake(SELL), etf_position, source, position_,
                              fromExchange, lag))'
    BY StaleDef, PTL
  <2> QED BY <2>1, <2>2, <2>4, <2>5, <2>6 DEF ExposureInv
<1> QED BY <1>1, <1>2

(* It holds initially: nothing is at stake. *)
LEMMA ExposureStart == ExposureInit => ExposureInv
<1> SUFFICES ASSUME ExposureInit
             PROVE  ExposureInv
  OBVIOUS
<1>1. /\ orders = {} /\ toExchange = << >> /\ fromExchange = << >>
      /\ etf_position = 0 /\ position_ = 0 /\ lag = 0
  BY DEF ExposureInit, Init, TraderInit, ExecutorInit, LinkInit, ExchangeInit
<1>2. Open = {}
  BY <1>1 DEF Open, Queued
<1>3. Sound(Open) /\ SmallOrders
  BY <1>2 DEF Sound, SmallOrders
<1>4. ASSUME NEW s
      PROVE  AtStake(s) = 0
  <2>1. \A k \in 1 .. MaxOrderId : Volume(Open, s, k) = 0
    BY <1>2, <1>3, VolumeIs
  <2>2. /\ Volumes(Open, s) \in VolumesType
        /\ \A k \in 1 .. MaxOrderId : Volumes(Open, s)[k] = 0
    BY <1>3, <2>1, VolumesIs
  <2>3. \A k \in 1 .. MaxOrderId : Volumes(Open, s)[k] <= IF k = 1 THEN 0 ELSE 0
    BY <2>2
  <2>4. Total(Volumes(Open, s)) <= 0 /\ Total(Volumes(Open, s)) \in Nat
    BY <2>2, <2>3, TotalSingle, TotalType
  <2>5. Total(Volumes(Open, s)) = 0
    BY <2>4
  <2> QED BY <2>5 DEF AtStake
<1>5. /\ Lots(0) \in Nat /\ Lots(MaxLag) \in Nat /\ Lots(MaxLag) >= 1 /\ PositionLimit \in Nat
      /\ MaxLag \in Nat
  <2>1. MaxLag \in Nat /\ Lots(0) = LotSize /\ LotSize \in Nat /\ LotSize >= 1
    BY LagAssumption, LotsGrow, ExecutorAssumption
  <2>2. 0 \in Nat /\ 0 <= MaxLag
    BY <2>1
  <2>3. Lots(0) <= Lots(MaxLag) /\ Lots(MaxLag) \in Nat
    BY <2>1, <2>2, LotsGrow
  <2> QED BY <2>1, <2>3, ExecutorAssumption
<1>6. Stale(AtStake(BUY), AtStake(SELL), etf_position, source, position_,
            fromExchange, lag)
  <2>1. DOMAIN fromExchange = {}
    BY <1>1
  <2>2. Near(0, 0, 0, 0, 0)
    BY <1>5 DEF Near
  <2> QED BY <1>1, <1>4, <1>5, <2>1, <2>2 DEF Stale
<1>7. PositionBounded
  BY <1>1, <1>4, <1>5 DEF PositionBounded, Highest, Lowest
<1>8. StaleByLag
  BY <1>6, StaleDef
<1>9. PositionReported
  BY <1>1 DEF PositionReported, Reports
<1> QED BY <1>1, <1>3, <1>5, <1>7, <1>8, <1>9 DEF ExposureInv

(* Exposure only watches Trading and restricts its timing. *)
LEMMA ExposureIsTrading == ExposureSpec => Spec
<1>1. ExposureInit => Init
  BY DEF ExposureInit
<1>2. [ExposureNext]_exposureVars => [Next]_vars
  BY DEF ExposureNext, Step, Next, exposureVars
<1> QED BY <1>1, <1>2, PTL DEF ExposureSpec, Spec

(* The invariant holds, whatever sends fail and however reads are cut. *)
LEMMA ExposureInvHolds == ExposureSpec => []ExposureInv
<1>1. /\ TypeOK /\ TypeOK' /\ OrdersAccountedFor /\ OrdersAccountedFor'
      /\ ExposureInv /\ [ExposureNext]_exposureVars
      => ExposureInv'
  BY ExposureStep
<1> QED BY <1>1, ExposureStart, ExposureIsTrading, TypeCorrect, AllOrdersAccountedFor, PTL
        DEF ExposureSpec

(* No fill is ever without its report: the last position update under way   *)
(* has the true position, and the executor has it once none is under way,   *)
(* unless a read dropped a report or was torn.  Sends may fail, and a read  *)
(* may return any number of messages or parts of them.                      *)
THEOREM PositionAlwaysReported == ExposureSpec => []PositionReported
<1>1. ExposureInv => PositionReported
  BY DEF ExposureInv
<1> QED BY <1>1, ExposureInvHolds, PTL

(* The position SimpleExecutor compares with its limit, unless a torn read  *)
(* made it up, is out by at most one lot for each book update handled       *)
(* blindly and one for the quote resting before, whatever the limit, the    *)
(* lot size and the lag are, and whatever sends and reads lose.             *)
THEOREM StaleByLagAtMost == ExposureSpec => []StaleByLag
<1>1. ExposureInv => StaleByLag
  BY DEF ExposureInv
<1> QED BY <1>1, ExposureInvHolds, PTL

(* Even if every order at stake is filled, the position stays within the    *)
(* limit of SimpleExecutor plus one lot for each book update handled        *)
(* blindly and one for the quote resting at the time, unless the executor   *)
(* has traded on the position of a torn read.                               *)
THEOREM PositionAlwaysBounded == ExposureSpec => []PositionBounded
<1>1. ExposureInv => PositionBounded
  BY DEF ExposureInv
<1> QED BY <1>1, ExposureInvHolds, PTL
=============================================================================
