--------------------------- MODULE CdmpState_proof ---------------------------
(***************************************************************************)
(* Proofs about CdmpLocalRecords and CdmpState, for every set of types and *)
(* peers, number of slots, queue size, refresh lag and window that meet    *)
(* the static_assert of the code.                                          *)
(***************************************************************************)
EXTENDS CdmpState, FiniteSetTheorems, TLAPS

\* Between changes no live record is further behind than this.
RestBound == Lag + MaxLocal - 3

AtRest == Unlocked => \A t \in Live : LagOf(t) <= RestBound

\* The refresh passes the records in type order.
RefreshOrder ==
    /\ changing \in InUse
    /\ visited \subseteq InUse
    /\ refreshed \subseteq visited \ {changing}
    /\ \A v \in visited : \A u \in InUse \ visited : v < u

\* How far behind a record is while a change refreshes the others: the change and each refresh
\* advanced the counter by one, and a record the refresh passed was within Lag then.
RefreshLag ==
    /\ changing \in Live => LagOf(changing) = Cardinality(refreshed)
    /\ \A i \in Live \ {changing} :
          LagOf(i) <= IF i \in visited THEN Lag - 1 + Cardinality({t \in refreshed : t > i})
                                       ELSE RestBound + 1 + Cardinality(refreshed)

MidChange == ~Unlocked => RefreshOrder /\ RefreshLag

\* A record that used all its resends waits for nobody.
ResendsLeft == \A t \in Type : records[t].unacknowledged # {} => records[t].resends < MaxResends

IndInv ==
    /\ LocalTypeOK
    /\ ResendsLeft
    /\ StampsCompareNewer
    /\ LiveVersionsDistinct
    /\ DigestCurrent
    /\ AtRest
    /\ MidChange

-----------------------------------------------------------------------------
(* Versions *)

\* While a version is not about to be lapped, the next step of the counter is one more version of lag.
LEMMA LagAdvance ==
    ASSUME NEW v \in Version, NEW c \in Version, Distance(v, c) < Modulus - 1
    PROVE  /\ NextVersion(c) \in Version
           /\ Distance(v, NextVersion(c)) = Distance(v, c) + 1
           /\ v # NextVersion(c)
BY WindowAssumption DEF Version, Modulus, NextVersion, Distance

\* NextVersion() wraps: it stays within the counter's width.
LEMMA NextVersionType ==
    ASSUME NEW c \in Version
    PROVE  NextVersion(c) \in Version
BY WindowAssumption DEF Version, Modulus, NextVersion

\* The modular distance of two versions is a version, and zero from a version to itself.
LEMMA DistanceFacts ==
    ASSUME NEW v \in Version, NEW c \in Version
    PROVE  Distance(v, c) \in Version /\ Distance(c, c) = 0
BY WindowAssumption DEF Version, Modulus, Distance

\* A stamp replaces a version by a newer one as long as that lags less than the window.
LEMMA StampIsNewer ==
    ASSUME NEW v \in Version, NEW c \in Version, Distance(v, c) < Window
    PROVE  IsNewer(NextVersion(c), v)
BY WindowAssumption DEF Version, Modulus, NextVersion, Distance, IsNewer

-----------------------------------------------------------------------------
(* Cardinalities *)

\* Taking a slot: AddLocalRecord() adds one record to those in use.
LEMMA AddOne ==
    ASSUME NEW S, NEW x, IsFiniteSet(S), x \notin S
    PROVE  IsFiniteSet(S \cup {x}) /\ Cardinality(S \cup {x}) = Cardinality(S) + 1
BY FS_AddElement

\* Freeing a slot: one record less in use.
LEMMA RemoveOne ==
    ASSUME NEW S, NEW x, IsFiniteSet(S), x \in S
    PROVE  IsFiniteSet(S \ {x}) /\ Cardinality(S \ {x}) = Cardinality(S) - 1
BY FS_RemoveElement

-----------------------------------------------------------------------------
(* Steps that leave versions alone *)

\* Announcing, resending, acknowledging and forgetting change neither the state nor the version nor
\* the data of a live record, and free no other record than withdrawn ones.
QuietStep ==
    /\ records' \in [Type -> Record]
    /\ ResendsLeft'
    /\ \A t \in Type : \/ records[t].state = "withdrawn" /\ records'[t] = Free
                       \/ /\ records'[t].state = records[t].state
                          /\ records'[t].version = records[t].version
                          /\ records'[t].data = records[t].data
    /\ {online', announceAll'} \subseteq BOOLEAN
    /\ Unlocked
    /\ UNCHANGED <<counter, digest, changing, visited, refreshed, stamp>>

\* The records in use are finitely many.
LEMMA FiniteInUse == IsFiniteSet(InUse)
BY TypeAssumption, FS_Subset DEF InUse

\* A step that stamps nothing keeps the invariant: it only frees withdrawn records or moves resends.
LEMMA QuietPreserves ==
    ASSUME IndInv, QuietStep
    PROVE  IndInv'
<1>1. Live' = Live /\ \A t \in Live : records'[t].version = records[t].version /\ records'[t].data = records[t].data
  BY DEF QuietStep, Live, Free
<1>2. InUse' \subseteq InUse
  BY DEF QuietStep, InUse, Free
<1>3. Cardinality(InUse') <= MaxLocal
  BY <1>2, FiniteInUse, FS_Subset, FS_CardinalityType, WindowAssumption DEF IndInv, LocalTypeOK
<1>4. LocalTypeOK' /\ ResendsLeft'
  BY <1>3 DEF IndInv, LocalTypeOK, QuietStep
<1>5. StampsCompareNewer'
  BY DEF IndInv, QuietStep, StampsCompareNewer
<1>6. LiveVersionsDistinct'
  BY <1>1 DEF IndInv, LiveVersionsDistinct
<1>7. Covered' = Covered
  BY <1>1 DEF Covered
<1>8. DigestCurrent'
  BY <1>7 DEF IndInv, DigestCurrent, QuietStep, Unlocked
<1>9. AtRest' /\ MidChange'
  BY <1>1 DEF IndInv, AtRest, MidChange, QuietStep, Unlocked, LagOf
<1> QED BY <1>4, <1>5, <1>6, <1>8, <1>9 DEF IndInv

-----------------------------------------------------------------------------
(* Changes *)

\* Between two changes no live record is about to be lapped by the counter.
LEMMA RestLag ==
    ASSUME IndInv, Unlocked, NEW u \in Live
    PROVE  /\ u \in Type /\ records[u].version \in Version /\ counter \in Version
           /\ LagOf(u) \in Nat
           /\ LagOf(u) <= RestBound
           /\ LagOf(u) < Window
           /\ LagOf(u) < Modulus - 1
<1>1. u \in Type /\ records[u].version \in Version /\ counter \in Version
  BY DEF IndInv, LocalTypeOK, Live, Record
<1>2. LagOf(u) \in Version
  BY <1>1, DistanceFacts DEF LagOf
<1>3. LagOf(u) <= RestBound
  BY DEF IndInv, AtRest
<1> QED BY <1>1, <1>2, <1>3, WindowAssumption DEF Version, Modulus, RestBound

\* The stamp of a change, whatever becomes of the record and of one evicted record.
LEMMA StampChangePreserves ==
    ASSUME IndInv, Unlocked,
           NEW t \in Type, NEW rs \in [Type -> Record],
           NEW state \in {"live", "withdrawn"}, NEW data \in Data \cup {NoData},
           \A u \in Type \ {t} : rs[u] = records[u] \/ rs[u] = Free,
           Cardinality({u \in Type : rs[u].state # "free"} \cup {t}) <= MaxLocal,
           StampChange(t, rs, state, data)
    PROVE  IndInv'
<1> DEFINE next == NextVersion(counter)
<1>1. /\ records' = [rs EXCEPT ![t] = [Stamped(rs[t]) EXCEPT !.state = state, !.data = data]]
      /\ counter' = next /\ next \in Version /\ counter \in Version
      /\ changing' = t /\ visited' = {} /\ refreshed' = {}
      /\ stamp' = StampHistory(t)
      /\ UNCHANGED <<online, announceAll>>
  BY NextVersionType DEF StampChange, IndInv, LocalTypeOK
<1>2. /\ records' \in [Type -> Record]
      /\ records'[t].version = next /\ records'[t].state = state
      /\ \A u \in Type \ {t} : records'[u] = rs[u]
  BY ZenonT(40), <1>1, NoDataAssumption DEF Stamped, Record
<1>3. \A u \in Live' \ {t} : u \in Live /\ records'[u] = records[u]
  BY <1>2 DEF Live, Free
<1>4. InUse' = {u \in Type : rs[u].state # "free"} \cup {t}
  BY <1>2 DEF InUse
<1>5. stamp' \in [old : Version, new : Version] /\ StampsCompareNewer'
  <2>1. CASE t \in Live
    <3>1. stamp' = [old |-> records[t].version, new |-> next]
      BY <2>1, <1>1 DEF StampHistory, Live
    <3>2. IsNewer(next, records[t].version)
      BY <2>1, RestLag, StampIsNewer DEF LagOf
    <3> QED BY <3>1, <3>2, <1>1, <2>1, RestLag DEF StampsCompareNewer
  <2>2. CASE t \notin Live
    <3>1. stamp' = [old |-> 0, new |-> 1]
      BY <2>2, <1>1 DEF StampHistory, Live, NoStamp
    <3> QED BY <3>1, WindowAssumption DEF StampsCompareNewer, IsNewer, Distance, Version, Modulus
  <2> QED BY <2>1, <2>2
<1>6. LocalTypeOK' /\ ResendsLeft'
  <2>1. \A u \in Type : u = t \/ rs[u] = records[u] \/ rs[u] = Free
    OBVIOUS
  <2>2. records'[t].unacknowledged = {}
    BY <1>1 DEF Stamped, Record
  <2>3. ResendsLeft'
    BY <1>2, <2>1, <2>2 DEF IndInv, ResendsLeft, Free
  <2> QED BY <1>1, <1>2, <1>4, <1>5, <2>3 DEF IndInv, LocalTypeOK
<1>7. \A u \in Live' \ {t} : /\ Distance(records'[u].version, next) = LagOf(u) + 1
                             /\ LagOf(u) \in Nat /\ LagOf(u) <= RestBound
                             /\ records'[u].version # next
  <2> TAKE u \in Live' \ {t}
  <2>1. u \in Live /\ records'[u] = records[u]
    BY <1>3
  <2> QED BY <2>1, RestLag, LagAdvance DEF LagOf
<1>8. LiveVersionsDistinct'
  BY <1>1, <1>2, <1>3, <1>7 DEF IndInv, LiveVersionsDistinct
<1>9. MidChange'
  <2>1. RefreshOrder'
    BY <1>1, <1>4 DEF RefreshOrder
  <2>2. LagOf(t)' = 0
    BY <1>1, <1>2, DistanceFacts DEF LagOf
  <2>3. \A u \in Live' \ {t} : LagOf(u)' <= RestBound + 1
    BY <1>1, <1>7, WindowAssumption DEF LagOf, RestBound
  <2>4. RefreshLag'
    BY <1>1, <2>2, <2>3, FS_EmptySet, WindowAssumption DEF RefreshLag, RestBound
  <2> QED BY <2>1, <2>4 DEF MidChange
<1>10. ~Unlocked'
  BY <1>1, TypeAssumption DEF Unlocked
<1> QED BY <1>5, <1>6, <1>8, <1>9, <1>10 DEF IndInv, AtRest, DigestCurrent

\* SetLocalState() up to and including its stamp keeps the invariant.
LEMMA SetPreserves ==
    ASSUME IndInv, NEW t \in Type, NEW data \in Data, SetLocalState(t, data)
    PROVE  IndInv'
<1> DEFINE evicted == EvictableFor(t)
           rs == [u \in Type |-> IF u \in evicted THEN Free ELSE records[u]]
           used == {u \in Type : rs[u].state # "free"}
<1>1. Unlocked /\ HasRoom(t) /\ StampChange(t, rs, "live", data)
  BY DEF SetLocalState
<1>2. rs \in [Type -> Record]
  BY WindowAssumption DEF IndInv, LocalTypeOK, Record, Free, Version, Modulus
<1>3. \A u \in Type \ {t} : rs[u] = records[u] \/ rs[u] = Free
  OBVIOUS
<1>4. used = InUse \ evicted
  BY DEF InUse, Free
<1>5. IsFiniteSet(InUse) /\ Cardinality(InUse) \in Nat /\ Cardinality(InUse) <= MaxLocal /\ MaxLocal \in Nat
  BY FiniteInUse, FS_CardinalityType, WindowAssumption DEF IndInv, LocalTypeOK
<1>6. Cardinality(used \cup {t}) <= MaxLocal
  <2>1. CASE t \in InUse
    <3>1. used \cup {t} = InUse
      BY <2>1, <1>4 DEF EvictableFor
    <3> QED BY <3>1, <1>5
  <2>2. CASE t \notin InUse /\ Cardinality(InUse) < MaxLocal
    <3>1. used \cup {t} = InUse \cup {t}
      BY <2>2, <1>4 DEF EvictableFor
    <3>2. Cardinality(InUse \cup {t}) = Cardinality(InUse) + 1
      BY <2>2, <1>5, AddOne
    <3>3. Cardinality(InUse \cup {t}) <= MaxLocal
      BY <3>2, <2>2, <1>5
    <3> QED BY <3>1, <3>3
  <2>3. CASE t \notin InUse /\ ~(Cardinality(InUse) < MaxLocal)
    <3>1. PICK w \in evicted : TRUE
      BY <1>1, <2>3 DEF HasRoom
    <3>2. w \in InUse
      BY <3>1, <2>3 DEF EvictableFor, Withdrawn, InUse
    <3>3. IsFiniteSet(InUse \ {w}) /\ Cardinality(InUse \ {w}) = Cardinality(InUse) - 1
      BY <3>2, <1>5, FS_RemoveElement
    <3>4. Cardinality((InUse \ {w}) \cup {t}) = Cardinality(InUse)
      <4>1. Cardinality((InUse \ {w}) \cup {t}) = Cardinality(InUse \ {w}) + 1
        BY <3>3, <2>3, AddOne
      <4> QED BY <4>1, <3>3, <1>5
    <3>5. used \cup {t} \subseteq (InUse \ {w}) \cup {t}
      BY <3>1, <1>4
    <3>6. IsFiniteSet((InUse \ {w}) \cup {t})
      BY <3>3, FS_AddElement
    <3>7. /\ Cardinality(used \cup {t}) <= Cardinality((InUse \ {w}) \cup {t})
          /\ Cardinality(used \cup {t}) \in Nat
      BY <3>5, <3>6, FS_Subset, FS_CardinalityType
    <3> QED BY <3>4, <3>7, <1>5
  <2> QED BY <2>1, <2>2, <2>3
<1> HIDE DEF rs, evicted
<1> QED BY <1>1, <1>2, <1>3, <1>6, StampChangePreserves

\* ClearLocalState() up to and including its stamp keeps the invariant.
LEMMA ClearPreserves ==
    ASSUME IndInv, NEW t \in Type, ClearLocalState(t)
    PROVE  IndInv'
<1>1. records \in [Type -> Record] /\ Unlocked /\ StampChange(t, records, "withdrawn", NoData)
  BY DEF IndInv, LocalTypeOK, ClearLocalState
<1>2. {u \in Type : records[u].state # "free"} \cup {t} = InUse
  BY DEF ClearLocalState, InUse, Live
<1>3. Cardinality({u \in Type : records[u].state # "free"} \cup {t}) <= MaxLocal
  BY <1>2 DEF IndInv, LocalTypeOK
<1> QED BY <1>1, <1>3, StampChangePreserves

-----------------------------------------------------------------------------
(* The refresh *)

\* How many records a change can have refreshed, and how far behind the others can be.
LEMMA RefreshBounds ==
    ASSUME IndInv, ~Unlocked
    PROVE  /\ IsFiniteSet(refreshed) /\ Cardinality(refreshed) \in Nat
           /\ Cardinality(refreshed) <= MaxLocal - 1
           /\ \A i \in InUse \ (refreshed \cup {changing}) : Cardinality(refreshed) <= MaxLocal - 2
           /\ \A i \in InUse \ {changing} : LET later == {t \in refreshed : t > i} IN
                 /\ IsFiniteSet(later) /\ Cardinality(later) \in Nat
                 /\ Cardinality(later) <= MaxLocal - 2
<1>1. /\ RefreshOrder /\ IsFiniteSet(InUse)
      /\ Cardinality(InUse) \in Nat /\ Cardinality(InUse) <= MaxLocal /\ MaxLocal \in Nat
  BY FiniteInUse, FS_CardinalityType, WindowAssumption DEF IndInv, LocalTypeOK, MidChange
<1>2. refreshed \subseteq InUse \ {changing} /\ changing \in InUse
  BY <1>1 DEF RefreshOrder
<1>3. /\ IsFiniteSet(InUse \ {changing})
      /\ Cardinality(InUse \ {changing}) = Cardinality(InUse) - 1
  BY <1>1, <1>2, FS_RemoveElement
<1>4. /\ IsFiniteSet(refreshed) /\ Cardinality(refreshed) \in Nat
      /\ Cardinality(refreshed) <= Cardinality(InUse) - 1
  BY <1>2, <1>3, FS_Subset, FS_CardinalityType
<1>5. ASSUME NEW i \in InUse \ {changing}, NEW S \in SUBSET refreshed, i \notin S
      PROVE  IsFiniteSet(S) /\ Cardinality(S) \in Nat /\ Cardinality(S) <= Cardinality(InUse) - 2
  <2>1. /\ IsFiniteSet((InUse \ {changing}) \ {i})
        /\ Cardinality((InUse \ {changing}) \ {i}) = Cardinality(InUse) - 2
    <3>1. /\ IsFiniteSet((InUse \ {changing}) \ {i})
          /\ Cardinality((InUse \ {changing}) \ {i}) = Cardinality(InUse \ {changing}) - 1
      BY <1>3, RemoveOne
    <3> QED BY <3>1, <1>1, <1>3
  <2>2. S \subseteq (InUse \ {changing}) \ {i}
    BY <1>2, <1>5
  <2> QED BY <2>1, <2>2, FS_Subset, FS_CardinalityType
<1>6. ASSUME NEW i \in InUse \ {changing}
      PROVE  i \notin {t \in refreshed : t > i} /\ {t \in refreshed : t > i} \in SUBSET refreshed
  BY TypeAssumption DEF InUse
<1>7. \A i \in InUse \ (refreshed \cup {changing}) : Cardinality(refreshed) <= MaxLocal - 2
  <2> TAKE i \in InUse \ (refreshed \cup {changing})
  <2>1. Cardinality(refreshed) <= Cardinality(InUse) - 2
    BY <1>5
  <2> QED BY <2>1, <1>1, <1>4
<1>8. \A i \in InUse \ {changing} : LET later == {t \in refreshed : t > i} IN
                 /\ IsFiniteSet(later) /\ Cardinality(later) \in Nat
                 /\ Cardinality(later) <= MaxLocal - 2
  <2> TAKE i \in InUse \ {changing}
  <2> DEFINE later == {t \in refreshed : t > i}
  <2>1. i \notin later /\ later \in SUBSET refreshed
    BY <1>6
  <2> HIDE DEF later
  <2>2. IsFiniteSet(later) /\ Cardinality(later) \in Nat /\ Cardinality(later) <= Cardinality(InUse) - 2
    BY <2>1, <1>5
  <2>3. Cardinality(later) <= MaxLocal - 2
    BY <2>2, <1>1
  <2> QED BY <2>2, <2>3 DEF later
<1> QED BY <1>1, <1>4, <1>7, <1>8

\* During a refresh every live record is inside the window, and so is not about to be lapped.
LEMMA MidLag ==
    ASSUME IndInv, ~Unlocked, NEW u \in Live
    PROVE  /\ u \in Type /\ u \in InUse /\ records[u].version \in Version /\ counter \in Version
           /\ LagOf(u) \in Nat
           /\ u \in refreshed \/ u \in visited \/ u = changing \/ LagOf(u) < Window
           /\ LagOf(u) < Modulus - 1
<1>1. u \in Type /\ u \in InUse /\ records[u].version \in Version /\ counter \in Version
  BY DEF IndInv, LocalTypeOK, Live, InUse, Record
<1>2. LagOf(u) \in Version
  BY <1>1, DistanceFacts DEF LagOf
<1>3. RefreshOrder /\ RefreshLag
  BY DEF IndInv, MidChange
<1>4. Cardinality(refreshed) \in Nat /\ Cardinality(refreshed) <= MaxLocal - 1
  BY RefreshBounds
<1>5. CASE u = changing
  <2>1. LagOf(u) = Cardinality(refreshed)
    BY <1>3, <1>5 DEF RefreshLag
  <2> QED BY <2>1, <1>1, <1>4, <1>5, WindowAssumption DEF Version, Modulus
<1>6. CASE u # changing /\ u \in visited
  <2> DEFINE later == {t \in refreshed : t > u}
  <2>1. Cardinality(later) \in Nat /\ Cardinality(later) <= MaxLocal - 2
    BY <1>1, <1>6, RefreshBounds
  <2>2. LagOf(u) <= Lag - 1 + Cardinality(later)
    BY <1>3, <1>6 DEF RefreshLag
  <2> HIDE DEF later
  <2> QED BY <2>1, <2>2, <1>1, <1>2, <1>6, WindowAssumption DEF Version, Modulus
<1>7. CASE u # changing /\ u \notin visited
  <2>1. u \notin refreshed
    BY <1>3, <1>7 DEF RefreshOrder
  <2>2. Cardinality(refreshed) <= MaxLocal - 2
    BY <1>1, <1>7, <2>1, RefreshBounds
  <2>3. LagOf(u) <= RestBound + 1 + Cardinality(refreshed)
    BY <1>3, <1>7 DEF RefreshLag
  <2> QED BY <2>2, <2>3, <1>1, <1>2, <1>4, WindowAssumption DEF Version, Modulus, RestBound
<1> QED BY <1>5, <1>6, <1>7

\* The refresh passes a record without stamping it.
LEMMA PassPreserves ==
    ASSUME IndInv, ~Unlocked, NEW i \in InUse \ visited, \A u \in InUse \ visited : i <= u,
           ~IsLagging(i), visited' = visited \cup {i},
           UNCHANGED <<records, counter, digest, online, announceAll, changing, refreshed, stamp>>
    PROVE  IndInv'
<1>1. RefreshOrder /\ RefreshLag /\ i \in Type /\ visited \subseteq Type
  BY DEF IndInv, MidChange, LocalTypeOK, InUse
<1>2. InUse' = InUse /\ Live' = Live /\ \A u : LagOf(u)' = LagOf(u)
  BY DEF InUse, Live, LagOf
<1>3. LocalTypeOK' /\ ResendsLeft' /\ StampsCompareNewer' /\ LiveVersionsDistinct' /\ ~Unlocked'
  BY <1>1, <1>2 DEF IndInv, LocalTypeOK, ResendsLeft, StampsCompareNewer, LiveVersionsDistinct,
     Unlocked
<1>4. RefreshOrder'
  <2>1. changing' \in InUse' /\ visited' \subseteq InUse' /\ refreshed' \subseteq visited' \ {changing'}
    BY <1>1, <1>2 DEF RefreshOrder
  <2>2. ASSUME NEW v \in visited', NEW u \in InUse' \ visited'
        PROVE  v < u
    <3>1. u \in InUse \ visited /\ u # i /\ (v = i \/ v \in visited)
      BY <1>2, <2>2
    <3>2. i \in Int /\ u \in Int /\ i <= u
      BY <1>1, <3>1, TypeAssumption DEF InUse
    <3>3. CASE v = i
      BY <3>1, <3>2, <3>3
    <3>4. CASE v \in visited
      BY <1>1, <3>1, <3>4 DEF RefreshOrder
    <3> QED BY <3>1, <3>3, <3>4
  <2> QED BY <2>1, <2>2 DEF RefreshOrder
<1>5. ASSUME i \in Live, i # changing
      PROVE  LagOf(i) <= Lag - 1 + Cardinality({t \in refreshed : t > i})
  <2> DEFINE later == {t \in refreshed : t > i}
  <2>1. LagOf(i) \in Nat /\ LagOf(i) <= Lag - 1
    BY <1>5, MidLag, WindowAssumption DEF IsLagging
  <2>2. Cardinality(later) \in Nat
    BY <1>5, RefreshBounds
  <2> HIDE DEF later
  <2>3. LagOf(i) <= Lag - 1 + Cardinality(later)
    BY <2>1, <2>2, WindowAssumption
  <2> QED BY <2>3 DEF later
<1>6. RefreshLag'
  BY <1>1, <1>2, <1>5 DEF RefreshLag
<1> QED BY <1>3, <1>4, <1>6 DEF IndInv, AtRest, DigestCurrent, MidChange

\* The refresh stamps a record that lags: the record is not the changed one, its stamp is inside the
\* window, and every record the refresh passed before has a smaller type.
LEMMA RefreshPreserves ==
    ASSUME IndInv, ~Unlocked, NEW i \in InUse \ visited, \A u \in InUse \ visited : i <= u,
           IsLagging(i), visited' = visited \cup {i},
           records' = [records EXCEPT ![i] = Stamped(records[i])],
           counter' = NextVersion(counter), refreshed' = refreshed \cup {i}, stamp' = StampHistory(i),
           UNCHANGED <<digest, online, announceAll, changing>>
    PROVE  IndInv'
<1> DEFINE next == NextVersion(counter)
<1>1. RefreshOrder /\ RefreshLag /\ i \in Type /\ visited \subseteq Type /\ i \in Live
  BY DEF IndInv, MidChange, LocalTypeOK, InUse, IsLagging
<1>2. /\ IsFiniteSet(refreshed) /\ Cardinality(refreshed) \in Nat
      /\ Cardinality(refreshed) <= MaxLocal - 1
  BY RefreshBounds
<1>3. i # changing
  <2> SUFFICES ASSUME i = changing PROVE FALSE
    OBVIOUS
  <2>1. LagOf(i) = Cardinality(refreshed) /\ LagOf(i) >= Lag
    BY <1>1 DEF RefreshLag, IsLagging
  <2> QED BY <2>1, <1>2, WindowAssumption
<1>4. i \notin refreshed
  BY <1>1 DEF RefreshOrder
<1>5. counter \in Version /\ next \in Version /\ LagOf(i) \in Nat /\ LagOf(i) < Window
  BY <1>1, <1>3, <1>4, MidLag, NextVersionType
<1>6. /\ records' \in [Type -> Record]
      /\ records'[i].version = next /\ records'[i].state = records[i].state
      /\ records'[i].unacknowledged = {}
      /\ \A u \in Type \ {i} : records'[u] = records[u]
  BY ZenonT(40), <1>1, <1>5 DEF IndInv, LocalTypeOK, Stamped, Record
<1>7. InUse' = InUse /\ Live' = Live
  BY <1>6 DEF InUse, Live
<1>8. stamp' \in [old : Version, new : Version] /\ StampsCompareNewer'
  <2>1. stamp' = [old |-> records[i].version, new |-> next]
    BY <1>1 DEF StampHistory, Live
  <2>2. records[i].version \in Version
    BY <1>1, MidLag
  <2>3. IsNewer(next, records[i].version)
    BY <1>5, <2>2, StampIsNewer DEF LagOf
  <2> QED BY <2>1, <2>2, <2>3, <1>5 DEF StampsCompareNewer
<1>9. LocalTypeOK' /\ ResendsLeft' /\ ~Unlocked'
  BY <1>1, <1>5, <1>6, <1>7, <1>8 DEF IndInv, LocalTypeOK, ResendsLeft, Unlocked
<1>10. \A u \in Live \ {i} : LagOf(u)' = LagOf(u) + 1 /\ LagOf(u) \in Nat /\ records'[u].version # next
  <2> TAKE u \in Live \ {i}
  <2>1. records[u].version \in Version /\ LagOf(u) \in Nat /\ LagOf(u) < Modulus - 1 /\ u \in Type
    BY MidLag
  <2>2. records'[u] = records[u]
    BY <2>1, <1>6
  <2>3. Distance(records[u].version, next) = Distance(records[u].version, counter) + 1 /\ records[u].version # next
    BY <2>1, <1>5, LagAdvance DEF LagOf
  <2> QED BY <2>1, <2>2, <2>3 DEF LagOf
<1>11. LiveVersionsDistinct'
  BY <1>1, <1>6, <1>7, <1>10 DEF IndInv, LiveVersionsDistinct, Live
<1>12. RefreshOrder'
  BY <1>1, <1>3, <1>7, TypeAssumption DEF RefreshOrder, InUse
<1>13. Cardinality(refreshed') = Cardinality(refreshed) + 1
  BY <1>2, <1>4, AddOne
<1>14. LagOf(i)' = 0
  BY <1>5, <1>6, DistanceFacts DEF LagOf
<1>15. ASSUME NEW u \in Live \ {changing}
       PROVE  LagOf(u)' <= IF u \in visited' THEN Lag - 1 + Cardinality({t \in refreshed' : t > u})
                                             ELSE RestBound + 1 + Cardinality(refreshed')
  <2>1. u \in InUse /\ u \in Type
    BY MidLag
  <2> DEFINE later == {t \in refreshed : t > u}
  <2>2. CASE u \in visited
    <3>1. u < i /\ u # i
      BY <1>1, <2>2, TypeAssumption DEF RefreshOrder
    <3>2. {t \in refreshed' : t > u} = later \cup {i} /\ i \notin later
      BY <3>1, <1>1, <1>4, <2>1, TypeAssumption
    <3>3. IsFiniteSet(later) /\ Cardinality(later) \in Nat
      BY <2>1, RefreshBounds
    <3>4. LagOf(u) <= Lag - 1 + Cardinality(later)
      BY <1>1, <1>15, <2>2 DEF RefreshLag
    <3> HIDE DEF later
    <3>5. Cardinality(later \cup {i}) = Cardinality(later) + 1
      BY <3>2, <3>3, AddOne
    <3>6. LagOf(u)' = LagOf(u) + 1 /\ LagOf(u) \in Nat
      BY <3>1, <1>10, <1>15
    <3>7. LagOf(u)' <= Lag - 1 + Cardinality(later \cup {i})
      BY <3>3, <3>4, <3>5, <3>6, WindowAssumption
    <3> QED BY <3>2, <3>7, <2>2
  <2>3. CASE u = i
    <3> DEFINE after == {t \in refreshed' : t > u}
    <3>1. IsFiniteSet(refreshed') /\ after \subseteq refreshed'
      BY <1>2, <1>4, AddOne
    <3> HIDE DEF after
    <3>2. Cardinality(after) \in Nat
      BY <3>1, FS_Subset, FS_CardinalityType
    <3>3. LagOf(u)' <= Lag - 1 + Cardinality(after)
      BY <3>2, <2>3, <1>14, WindowAssumption
    <3> QED BY <3>3, <2>3 DEF after
  <2>4. CASE u \notin visited /\ u # i
    <3>1. LagOf(u) <= RestBound + 1 + Cardinality(refreshed)
      BY <1>1, <1>15, <2>4 DEF RefreshLag
    <3>2. LagOf(u)' = LagOf(u) + 1 /\ LagOf(u) \in Nat
      BY <2>4, <1>10, <1>15
    <3>3. LagOf(u)' <= RestBound + 1 + Cardinality(refreshed')
      BY <3>1, <3>2, <1>2, <1>13, WindowAssumption DEF RestBound
    <3>4. u \notin visited'
      BY <2>4
    <3> QED BY <3>3, <3>4
  <2> QED BY <2>2, <2>3, <2>4
<1>16. changing \in Live => LagOf(changing)' = Cardinality(refreshed')
  BY <1>1, <1>3, <1>10, <1>13 DEF RefreshLag
<1>17. RefreshLag'
  BY <1>7, <1>15, <1>16 DEF RefreshLag
<1> QED BY <1>8, <1>9, <1>11, <1>12, <1>17 DEF IndInv, AtRest, DigestCurrent, MidChange

\* One iteration of RefreshLaggingVersions() keeps the invariant, whether it stamps the record or not.
LEMMA RefreshNextPreserves ==
    ASSUME IndInv, RefreshNext
    PROVE  IndInv'
<1>1. ~Unlocked /\ UNCHANGED <<digest, online, announceAll, changing>>
  BY DEF RefreshNext
<1>2. PICK i \in InUse \ visited :
          /\ \A u \in InUse \ visited : i <= u
          /\ visited' = visited \cup {i}
          /\ IF IsLagging(i)
             THEN /\ records' = [records EXCEPT ![i] = Stamped(records[i])]
                  /\ counter' = NextVersion(counter)
                  /\ refreshed' = refreshed \cup {i}
                  /\ stamp' = StampHistory(i)
             ELSE UNCHANGED <<records, counter, refreshed, stamp>>
  BY DEF RefreshNext
<1>3. CASE IsLagging(i)
  BY <1>1, <1>2, <1>3, RefreshPreserves
<1>4. CASE ~IsLagging(i)
  BY <1>1, <1>2, <1>4, PassPreserves
<1> QED BY <1>3, <1>4

\* The end of a change: every record was passed, so the bound of RefreshLag is the one of AtRest.
LEMMA FinishPreserves ==
    ASSUME IndInv, FinishChange
    PROVE  IndInv'
<1>1. /\ ~Unlocked /\ InUse \subseteq visited /\ digest' = Covered /\ changing' = 0
      /\ UNCHANGED <<records, counter, online, announceAll, visited, refreshed, stamp>>
  BY DEF FinishChange
<1>2. InUse' = InUse /\ Live' = Live /\ Covered' = Covered /\ \A u : LagOf(u)' = LagOf(u)
  BY <1>1 DEF InUse, Live, Covered, LagOf
<1>3. /\ LocalTypeOK' /\ ResendsLeft' /\ StampsCompareNewer' /\ LiveVersionsDistinct'
      /\ DigestCurrent' /\ Unlocked'
  BY <1>1, <1>2 DEF IndInv, LocalTypeOK, ResendsLeft, StampsCompareNewer, LiveVersionsDistinct,
     DigestCurrent, Unlocked
<1>4. ASSUME NEW u \in Live
      PROVE  LagOf(u) <= RestBound
  <2>1. RefreshLag /\ u \in InUse /\ u \in visited /\ LagOf(u) \in Nat
    BY <1>1, MidLag DEF IndInv, MidChange
  <2>2. CASE u = changing
    <3>1. LagOf(u) = Cardinality(refreshed)
      BY <2>1, <2>2 DEF RefreshLag
    <3>2. Cardinality(refreshed) \in Nat /\ Cardinality(refreshed) <= MaxLocal - 1
      BY <1>1, RefreshBounds
    <3> QED BY <3>1, <3>2, WindowAssumption DEF RestBound
  <2>3. CASE u # changing
    <3> DEFINE later == {t \in refreshed : t > u}
    <3>1. Cardinality(later) \in Nat /\ Cardinality(later) <= MaxLocal - 2
      BY <1>1, <2>1, <2>3, RefreshBounds
    <3>2. LagOf(u) <= Lag - 1 + Cardinality(later)
      BY <2>1, <2>3, <1>4 DEF RefreshLag
    <3> HIDE DEF later
    <3> QED BY <3>1, <3>2, <2>1, WindowAssumption DEF RestBound
  <2> QED BY <2>2, <2>3
<1> QED BY <1>2, <1>3, <1>4 DEF IndInv, AtRest, MidChange

-----------------------------------------------------------------------------
(* The other steps *)

\* FreeAcknowledgedWithdrawals() frees withdrawn records only.
LEMMA FreeAcknowledgedIsQuiet ==
    ASSUME IndInv, Unlocked, NEW rs,
           \A t \in Type : /\ rs[t] \in Record
                           /\ rs[t].unacknowledged # {} => rs[t].resends < MaxResends
                           /\ rs[t].state = records[t].state
                           /\ rs[t].version = records[t].version
                           /\ rs[t].data = records[t].data,
           records' = FreeAcknowledged(rs),
           {online', announceAll'} \subseteq BOOLEAN,
           UNCHANGED <<counter, digest, changing, visited, refreshed, stamp>>
    PROVE  QuietStep
<1>1. Free \in Record
  BY WindowAssumption DEF Free, Record, Version, Modulus
<1>2. records' \in [Type -> Record] /\ \A t \in Type : records'[t] \in {Free, rs[t]}
  BY <1>1 DEF FreeAcknowledged
<1>3. ResendsLeft'
  BY <1>2 DEF ResendsLeft, Free
<1> QED BY <1>1, <1>2, <1>3 DEF FreeAcknowledged, QuietStep

\* An announcement and a resend keep state, version and data.
LEMMA AnnouncedRecord ==
    ASSUME NEW r \in Record, NEW peers \in SUBSET Peer
    PROVE  LET a == [r EXCEPT !.announce = FALSE, !.resends = 0, !.unacknowledged = peers] IN
           /\ a \in Record /\ a.resends < MaxResends
           /\ a.state = r.state /\ a.version = r.version /\ a.data = r.data
<1>1. 0 \in 0 .. MaxResends /\ 0 < MaxResends
  BY WindowAssumption
<1> QED BY <1>1 DEF Record

\* A resend keeps state, version and data, and counts one resend more.
LEMMA ResentRecord ==
    ASSUME NEW r \in Record, r.resends < MaxResends
    PROVE  /\ Resent(r) \in Record
           /\ Resent(r).unacknowledged # {} => Resent(r).resends < MaxResends
           /\ Resent(r).state = r.state /\ Resent(r).version = r.version /\ Resent(r).data = r.data
<1> DEFINE n == r.resends + 1
           u == IF n = MaxResends THEN {} ELSE r.unacknowledged
<1>1. r.resends \in 0 .. MaxResends /\ r.unacknowledged \in SUBSET Peer
  BY DEF Record
<1>2. n \in 0 .. MaxResends /\ (n # MaxResends => n < MaxResends) /\ u \in SUBSET Peer
  BY <1>1, WindowAssumption
<1>3. Resent(r) = [r EXCEPT !.resends = n, !.unacknowledged = u]
  BY DEF Resent, Record
<1>4. u # {} => n < MaxResends
  BY <1>2
<1> HIDE DEF n, u
<1> QED BY <1>2, <1>3, <1>4 DEF Record

\* Transmit() changes who has to acknowledge, never what the records say.
LEMMA TransmitIsQuiet ==
    ASSUME IndInv, NEW peers \in SUBSET Peer, NEW due \in SUBSET Type, Transmit(peers, due)
    PROVE  QuietStep
<1> DEFINE rs == [t \in Type |->
              IF t \in Announced
              THEN [records[t] EXCEPT !.announce = FALSE, !.resends = 0, !.unacknowledged = peers]
              ELSE IF t \in due THEN Resent(records[t]) ELSE records[t]]
<1>1. /\ Unlocked /\ records' = FreeAcknowledged(rs) /\ announceAll' = FALSE
      /\ UNCHANGED <<counter, digest, online, changing, visited, refreshed, stamp>>
  BY DEF Transmit
<1>2. {online', announceAll'} \subseteq BOOLEAN /\ records \in [Type -> Record]
  BY <1>1 DEF IndInv, LocalTypeOK
<1>3. \A t \in Type : /\ rs[t] \in Record
                      /\ rs[t].unacknowledged # {} => rs[t].resends < MaxResends
                      /\ rs[t].state = records[t].state
                      /\ rs[t].version = records[t].version
                      /\ rs[t].data = records[t].data
  <2> TAKE t \in Type
  <2>0. records[t] \in Record
    BY <1>2
  <2>1. CASE t \in Announced
    BY <2>0, <2>1, AnnouncedRecord
  <2>2. CASE t \notin Announced /\ t \in due
    <3>1. records[t].resends < MaxResends
      BY <2>2 DEF Transmit, Waiting, IndInv, ResendsLeft
    <3>2. rs[t] = Resent(records[t])
      BY <2>2
    <3> QED BY <3>1, <3>2, <2>0, ResentRecord
  <2>3. CASE t \notin Announced /\ t \notin due
    BY <2>3, <1>2 DEF IndInv, ResendsLeft
  <2> QED BY <2>1, <2>2, <2>3
<1> HIDE DEF rs
<1> QED BY <1>1, <1>2, <1>3, FreeAcknowledgedIsQuiet

\* A response takes its sender off the records it acknowledges.
LEMMA ResponseIsQuiet ==
    ASSUME IndInv, NEW q \in Peer, NEW version \in Version, ProcessResponse(q, version)
    PROVE  QuietStep
<1> DEFINE rs == [t \in Type |-> IF t \in InUse /\ records[t].version = version
                                 THEN [records[t] EXCEPT !.unacknowledged = @ \ {q}] ELSE records[t]]
<1>1. /\ Unlocked /\ records' = FreeAcknowledged(rs)
      /\ UNCHANGED <<counter, digest, online, announceAll, changing, visited, refreshed, stamp>>
  BY DEF ProcessResponse
<1>2. {online', announceAll'} \subseteq BOOLEAN /\ records \in [Type -> Record]
  BY <1>1 DEF IndInv, LocalTypeOK
<1>3. \A t \in Type : /\ rs[t] \in Record
                      /\ rs[t].unacknowledged # {} => rs[t].resends < MaxResends
                      /\ rs[t].state = records[t].state
                      /\ rs[t].version = records[t].version
                      /\ rs[t].data = records[t].data
  BY <1>2 DEF Record, IndInv, ResendsLeft
<1> HIDE DEF rs
<1> QED BY <1>1, <1>2, <1>3, FreeAcknowledgedIsQuiet

\* A peer that leaves no longer has to acknowledge anything.
LEMMA DropPeerIsQuiet ==
    ASSUME IndInv, NEW q \in Peer, DropPeer(q)
    PROVE  QuietStep
<1> DEFINE rs == [t \in Type |-> [records[t] EXCEPT !.unacknowledged = @ \ {q}]]
<1>1. /\ Unlocked /\ records' = FreeAcknowledged(rs)
      /\ UNCHANGED <<counter, digest, online, announceAll, changing, visited, refreshed, stamp>>
  BY DEF DropPeer
<1>2. {online', announceAll'} \subseteq BOOLEAN /\ records \in [Type -> Record]
  BY <1>1 DEF IndInv, LocalTypeOK
<1>3. \A t \in Type : /\ rs[t] \in Record
                      /\ rs[t].unacknowledged # {} => rs[t].resends < MaxResends
                      /\ rs[t].state = records[t].state
                      /\ rs[t].version = records[t].version
                      /\ rs[t].data = records[t].data
  BY <1>2 DEF Record, IndInv, ResendsLeft
<1> HIDE DEF rs
<1> QED BY <1>1, <1>2, <1>3, FreeAcknowledgedIsQuiet

\* Going online or offline only decides whether everything is announced again.
LEMMA OnlineIsQuiet ==
    ASSUME IndInv, EnterOnline \/ LeaveOnline
    PROVE  QuietStep
<1>1. CASE EnterOnline
  BY <1>1 DEF IndInv, LocalTypeOK, ResendsLeft, EnterOnline, QuietStep
<1>2. CASE LeaveOnline
  <2>1. records \in [Type -> Record] /\ records' = [t \in Type |-> [records[t] EXCEPT !.unacknowledged = {}]]
    BY <1>2 DEF IndInv, LocalTypeOK, LeaveOnline
  <2>2. /\ records' \in [Type -> Record]
        /\ \A t \in Type : /\ records'[t].state = records[t].state
                           /\ records'[t].version = records[t].version
                           /\ records'[t].data = records[t].data
    BY <2>1 DEF Record
  <2>3. ResendsLeft'
    BY <2>1 DEF Record, ResendsLeft
  <2> QED BY <1>2, <2>2, <2>3 DEF IndInv, LocalTypeOK, LeaveOnline, QuietStep
<1> QED BY <1>1, <1>2

-----------------------------------------------------------------------------
(* The theorems *)

\* Before the first change there are no records, and the invariant holds.
LEMMA IndInvInit == LocalInit => IndInv
<1> SUFFICES ASSUME LocalInit PROVE IndInv
  OBVIOUS
<1>1. InUse = {} /\ Live = {}
  BY DEF LocalInit, InUse, Live, Free
<1>2. Covered = {}
  BY <1>1 DEF Covered
<1>3. LocalTypeOK /\ ResendsLeft
  <2>1. 0 \in Version /\ 1 \in Version /\ 0 \in 0 .. MaxResends /\ Cardinality({}) = 0 /\ 0 <= MaxLocal
    BY FS_EmptySet, WindowAssumption DEF Version, Modulus
  <2>2. Free \in Record
    BY <2>1 DEF Free, Record
  <2>3. records \in [Type -> Record] /\ ResendsLeft
    BY <2>2 DEF LocalInit, ResendsLeft, Free
  <2>4. stamp \in [old : Version, new : Version]
    BY <2>1 DEF LocalInit, NoStamp
  <2>5. Cardinality(InUse) <= MaxLocal
    BY <2>1, <1>1
  <2> QED BY <2>1, <2>3, <2>4, <2>5 DEF LocalInit, LocalTypeOK
<1>4. StampsCompareNewer
  BY WindowAssumption DEF LocalInit, StampsCompareNewer, NoStamp, IsNewer, Distance
<1> QED BY <1>1, <1>2, <1>3, <1>4
        DEF LocalInit, IndInv, LiveVersionsDistinct, DigestCurrent, AtRest, MidChange, Unlocked

\* Every step keeps the invariant: one case for each action.
LEMMA IndInvStep == IndInv /\ [LocalNext]_localVars => IndInv'
<1> SUFFICES ASSUME IndInv, [LocalNext]_localVars PROVE IndInv'
  OBVIOUS
<1>1. ASSUME NEW t \in Type, ClearLocalState(t) PROVE IndInv'
  BY <1>1, ClearPreserves
<1>2. ASSUME NEW t \in Type, NEW data \in Data, SetLocalState(t, data) PROVE IndInv'
  BY <1>2, SetPreserves
<1>3. CASE RefreshNext
  BY <1>3, RefreshNextPreserves
<1>4. CASE FinishChange
  BY <1>4, FinishPreserves
<1>5. ASSUME NEW peers \in SUBSET Peer, NEW due \in SUBSET Type, Transmit(peers, due) PROVE IndInv'
  BY <1>5, TransmitIsQuiet, QuietPreserves
<1>6. ASSUME NEW q \in Peer, DropPeer(q) PROVE IndInv'
  BY <1>6, DropPeerIsQuiet, QuietPreserves
<1>7. ASSUME NEW q \in Peer, NEW version \in Version, ProcessResponse(q, version) PROVE IndInv'
  BY <1>7, ResponseIsQuiet, QuietPreserves
<1>8. CASE EnterOnline \/ LeaveOnline
  BY <1>8, OnlineIsQuiet, QuietPreserves
<1>9. CASE Reboot
  <2>1. LocalInit'
    BY <1>9 DEF Reboot, LocalInit
  <2>2. LocalInit' => IndInv'
    BY IndInvInit, PTL
  <2> QED BY <2>1, <2>2
<1>10. CASE UNCHANGED localVars
  BY <1>10 DEF localVars, IndInv, LocalTypeOK, ResendsLeft, StampsCompareNewer,
     LiveVersionsDistinct,
     DigestCurrent, AtRest,
              MidChange, RefreshOrder, RefreshLag, Unlocked, InUse, Live, Covered, LagOf
<1> QED BY <1>1, <1>2, <1>3, <1>4, <1>5, <1>6, <1>7, <1>8, <1>9, <1>10 DEF LocalNext

\* The inductive invariant holds in every state: the four properties, and how far each live record
\* is behind the counter at rest and while a change refreshes the others.
THEOREM IndInvHolds == LocalSpec => []IndInv
BY IndInvInit, IndInvStep, PTL DEF LocalSpec

\* The records keep their types, and never use more than MAX_LOCAL_RECORDS slots: a full array
\* evicts a withdrawn record or refuses the new one.
THEOREM TypeCorrect == LocalSpec => []LocalTypeOK
<1>1. IndInv => LocalTypeOK
  BY DEF IndInv
<1> QED BY <1>1, IndInvHolds, PTL

\* The static_assert is enough: with Lag + 2 * MaxLocal - 3 <= Window, no stamp of a live record ever
\* leaves the window in which receivers order versions, so IsNewer() accepts it.
THEOREM StampsAlwaysNewer == LocalSpec => []StampsCompareNewer
<1>1. IndInv => StampsCompareNewer
  BY DEF IndInv
<1> QED BY <1>1, IndInvHolds, PTL

\* Live records never share a version, also after the counter wrapped, so a STATE_CHANGE response
\* acknowledges at most one live record.
THEOREM VersionsIdentifyRecords == LocalSpec => []LiveVersionsDistinct
<1>1. IndInv => LiveVersionsDistinct
  BY DEF IndInv
<1> QED BY <1>1, IndInvHolds, PTL

\* Outside a change the digest of the heartbeat covers the live records as they are.
THEOREM DigestAlwaysCurrent == LocalSpec => []DigestCurrent
<1>1. IndInv => DigestCurrent
  BY DEF IndInv
<1> QED BY <1>1, IndInvHolds, PTL

-----------------------------------------------------------------------------
(* What the peers hold and what is on its way, against the owner's records. The records and the
   counter are parameters, so that the facts can be used of the state before and after a step. *)

Frame == [type : Type, version : Version, data : Data \cup {NoData}]
CopyRecord == [version : Version, data : Data, stale : BOOLEAN]
Beat == SUBSET (Type \X Version \X Data)

Used(rs) == {t \in Type : rs[t].state # "free"}

\* What a frame, a digest or a copy says of type t is not ahead of the record, and whatever has the
\* version of a record in use says what that record says.
Genuine(rs, c, t, v, d) ==
    /\ t \in Used(rs) => Distance(v, c) >= Distance(rs[t].version, c)
    /\ \A u \in Used(rs) : rs[u].version = v => u = t /\ d = rs[u].data

GenuineQueue(rs, c, rx) == \A i \in DOMAIN rx : Genuine(rs, c, rx[i].type, rx[i].version, rx[i].data)
InOrder(c, rx) ==
    \A i, j \in DOMAIN rx : i < j /\ rx[i].type = rx[j].type => Distance(rx[i].version, c) >= Distance(rx[j].version, c)
GenuineEntries(rs, c, entries) == \A e \in entries : Genuine(rs, c, e[1], e[2], e[3])
GenuineBeats(rs, c, beats) == \A i \in DOMAIN beats : GenuineEntries(rs, c, beats[i])
GenuineCopies(rs, c, copies) ==
    \A t \in DOMAIN copies : copies[t].stale \/ Genuine(rs, c, t, copies[t].version, copies[t].data)

\* What a peer that answered for the current version of t has: frames of t of that version only, the
\* record itself, and if its copy became stale, beats that cover it.
Entry(rs, t) == <<t, rs[t].version, rs[t].data>>

HeldCopy(rs, copies, t) ==
    /\ rs[t].state = "live" => t \in DOMAIN copies /\ copies[t].version = rs[t].version /\ copies[t].data = rs[t].data
    /\ rs[t].state = "withdrawn" => t \notin DOMAIN copies

CurrentFrames(rs, t, rx) == \A i \in DOMAIN rx : rx[i].type = t => rx[i].version = rs[t].version

StaleIsCovered(rs, t, copies, beats) ==
    t \in DOMAIN copies /\ copies[t].stale => \A i \in DOMAIN beats : Entry(rs, t) \in beats[i]

PeerHolds(rs, s, t) ==
    /\ CurrentFrames(rs, t, s.rx)
    /\ s.suspect \/ (HeldCopy(rs, s.copies, t) /\ StaleIsCovered(rs, t, s.copies, s.beats))

\* No frame has this version.
Unsent(v, rx) == \A i \in DOMAIN rx : rx[i].version # v

PeerShape(s) ==
    s = [online |-> s.online, known |-> s.known, copies |-> s.copies, overflowed |-> s.overflowed,
         limited |-> s.limited, rx |-> s.rx, beats |-> s.beats, suspect |-> s.suspect]

\* A peer that is offline knows nobody, and one that does not know the owner has no copies.
IsPeer(s) ==
    /\ PeerShape(s)
    /\ s.online \in BOOLEAN /\ s.suspect \in BOOLEAN
    /\ s.known => s.online
    /\ ~s.known => DOMAIN s.copies = {}
    /\ s.rx \in Seq(Frame) /\ s.beats \in Seq(Beat)
    /\ DOMAIN s.copies \subseteq Type /\ \A t \in DOMAIN s.copies : s.copies[t] \in CopyRecord

\* What holds of one peer while the owner is online.
GenuinePeer(rs, c, s) ==
    /\ GenuineQueue(rs, c, s.rx) /\ InOrder(c, s.rx)
    /\ GenuineBeats(rs, c, s.beats)
    /\ s.online => s.suspect \/ GenuineCopies(rs, c, s.copies)

-----------------------------------------------------------------------------
\* Nothing that receivers or the owner compare is further behind the counter than the window: no frame,
\* response or heartbeat takes that many changes to arrive, no copy of a peer that lost notifications
\* waits that long for a digest check, and no withdrawal for its acknowledgements.
YoungPeer(c, s) ==
    /\ \A i \in DOMAIN s.rx : Distance(s.rx[i].version, c) <= Window
    /\ \A i \in DOMAIN s.beats : \A e \in s.beats[i] : Distance(e[2], c) <= Window
    /\ s.online /\ ~s.suspect => \A t \in DOMAIN s.copies : s.copies[t].stale \/ Distance(s.copies[t].version, c) <= Window

Young ==
    /\ online => \A p \in Peer : YoungPeer(counter, peer[p])
    /\ online => \A r \in responses : Distance(r[2], counter) <= Window
    /\ \A t \in Withdrawn : LagOf(t) <= Window

-----------------------------------------------------------------------------
NetTypes ==
    /\ DOMAIN peer = Peer /\ \A p \in Peer : IsPeer(peer[p])
    /\ responses \subseteq Peer \X Version
    /\ DOMAIN acked = Type /\ \A t \in Type : acked[t] \subseteq Peer
    /\ table \subseteq Peer

DataFits == \A t \in Type : (records[t].state = "live" => records[t].data \in Data)
                         /\ (records[t].state # "live" => records[t].data = NoData)

VersionsDistinct == \A t, u \in InUse : t # u => records[t].version # records[u].version

\* The digest is of live records of now or of before the change under way.
DigestFits ==
    /\ digest \in Beat
    /\ \A e \in digest : Distance(e[2], counter) <= IF Unlocked THEN RestBound ELSE RestBound + 1 + Cardinality(refreshed)
    /\ GenuineEntries(records, counter, digest)

\* The owner takes p for one that has the current version of t, or will when the response arrives.
Answered(rs, rsp, ak, p, t) == p \in ak[t] \/ <<p, rs[t].version>> \in rsp

\* A record is announced once the digest covers it.
Sent(rs, dg, pr, rsp, ak, t) ==
    \/ Entry(rs, t) \in dg
    \/ /\ ak[t] = {}
       /\ \A r \in rsp : r[2] # rs[t].version
       /\ \A p \in Peer : Unsent(rs[t].version, pr[p].rx)

\* What holds of everything on the network while the owner is online.
Connected(rs, c, dg, pr, rsp, ak) ==
    /\ \A p \in Peer : GenuinePeer(rs, c, pr[p])
    /\ \A t \in Used(rs) : rs[t].state = "live" => Sent(rs, dg, pr, rsp, ak, t)
    /\ \A p \in Peer, t \in Used(rs) : pr[p].online /\ Answered(rs, rsp, ak, p, t) => PeerHolds(rs, pr[p], t)

Silence == responses = {} /\ \A t \in Type : acked[t] = {}

\* A record is freed or says what it said.
KeptRecord(rs, new, t) ==
    \/ new[t].state = "free" /\ new[t].data = NoData
    \/ new[t].state = rs[t].state /\ new[t].version = rs[t].version /\ new[t].data = rs[t].data

Kept(rs, new) == \A t \in Type : KeptRecord(rs, new, t)

\* One record has the counter's next version, the others are kept.
StampedOne(rs, c, new, x) ==
    /\ x \in Type /\ new[x].version = NextVersion(c)
    /\ \A t \in Type \ {x} : KeptRecord(rs, new, t)

Near(rs, c) == \A t \in Used(rs) : rs[t].version \in Version /\ Distance(rs[t].version, c) < Modulus - 1

\* A version is known by how far it is behind.
LEMMA SameDistance ==
    ASSUME NEW v \in Version, NEW w \in Version, NEW c \in Version, Distance(v, c) = Distance(w, c)
    PROVE  v = w
BY WindowAssumption DEF Version, Modulus, Distance

\* The window is less than half of the versions.
LEMMA WindowIsHalf == Window < Modulus - 1 /\ Window \in Nat /\ Modulus \in Nat
BY WindowAssumption DEF Modulus

\* Freeing records hides nothing.
LEMMA GenuineKept ==
    ASSUME NEW rs, NEW new, NEW c, Kept(rs, new), NEW t, NEW v, NEW d, Genuine(rs, c, t, v, d)
    PROVE  Genuine(new, c, t, v, d)
BY DEF Genuine, Kept, KeptRecord, Used

\* What is not too old stays what it is under a new stamp, and does not have that stamp's version.
LEMMA GenuineStamped ==
    ASSUME NEW rs, NEW new, NEW c \in Version, NEW x, StampedOne(rs, c, new, x), Near(rs, c),
           NEW t, NEW v \in Version, NEW d, Distance(v, c) <= Window, Genuine(rs, c, t, v, d)
    PROVE  Genuine(new, NextVersion(c), t, v, d) /\ v # NextVersion(c)
<1>1. Distance(v, c) \in Version /\ Distance(v, c) < Modulus - 1
  BY DistanceFacts, WindowIsHalf DEF Version
<1>2. NextVersion(c) \in Version /\ Distance(v, NextVersion(c)) = Distance(v, c) + 1 /\ v # NextVersion(c)
  BY <1>1, LagAdvance
<1>3. ASSUME NEW u \in Used(new), u # x
      PROVE  /\ u \in Used(rs) /\ new[u].version = rs[u].version /\ new[u].data = rs[u].data
             /\ Distance(new[u].version, NextVersion(c)) = Distance(rs[u].version, c) + 1
             /\ Distance(rs[u].version, c) \in Version
  <2>1. u \in Used(rs) /\ new[u].version = rs[u].version /\ new[u].data = rs[u].data
    BY <1>3 DEF StampedOne, KeptRecord, Used
  <2>2. rs[u].version \in Version /\ Distance(rs[u].version, c) < Modulus - 1
    BY <2>1 DEF Near
  <2> QED BY <2>1, <2>2, LagAdvance, DistanceFacts
<1>4. ASSUME t \in Used(new) PROVE Distance(v, NextVersion(c)) >= Distance(new[t].version, NextVersion(c))
  <2>1. CASE t = x
    <3>1. Distance(new[t].version, NextVersion(c)) = 0
      BY <2>1, <1>2, DistanceFacts DEF StampedOne
    <3> QED BY <3>1, <1>1, <1>2 DEF Version
  <2>2. CASE t # x
    <3>1. /\ Distance(new[t].version, NextVersion(c)) = Distance(rs[t].version, c) + 1
          /\ Distance(rs[t].version, c) \in Version /\ t \in Used(rs)
      BY <2>2, <1>3, <1>4
    <3>2. Distance(v, c) >= Distance(rs[t].version, c)
      BY <3>1 DEF Genuine
    <3> QED BY <3>1, <3>2, <1>1, <1>2 DEF Version
  <2> QED BY <2>1, <2>2
<1>5. ASSUME NEW u \in Used(new), new[u].version = v PROVE u = t /\ d = new[u].data
  <2>1. u # x
    BY <1>2, <1>5 DEF StampedOne
  <2> QED BY <2>1, <1>3, <1>5 DEF Genuine
<1> QED BY <1>2, <1>4, <1>5 DEF Genuine

\* The same of all that a peer has.
LEMMA PeerKept ==
    ASSUME NEW rs, NEW new, NEW c, Kept(rs, new), NEW s, GenuinePeer(rs, c, s)
    PROVE  GenuinePeer(new, c, s)
<1>1. GenuineQueue(new, c, s.rx)
  BY GenuineKept DEF GenuinePeer, GenuineQueue
<1>2. GenuineBeats(new, c, s.beats)
  BY GenuineKept DEF GenuinePeer, GenuineBeats, GenuineEntries
<1>3. GenuineCopies(rs, c, s.copies) => GenuineCopies(new, c, s.copies)
  BY GenuineKept DEF GenuineCopies
<1> QED BY <1>1, <1>2, <1>3 DEF GenuinePeer

\* The fields of what a peer has keep their types.
LEMMA PeerFields ==
    ASSUME NEW s, IsPeer(s)
    PROVE  /\ \A i \in DOMAIN s.rx : s.rx[i] \in Frame /\ s.rx[i].type \in Type /\ s.rx[i].version \in Version
           /\ \A i \in DOMAIN s.beats : s.beats[i] \in Beat /\ \A e \in s.beats[i] : e[2] \in Version /\ e = <<e[1], e[2], e[3]>>
           /\ \A t \in DOMAIN s.copies : t \in Type /\ s.copies[t].version \in Version /\ s.copies[t].data \in Data
                                         /\ s.copies[t].stale \in BOOLEAN
<1>1. \A i \in DOMAIN s.rx : s.rx[i] \in Frame /\ s.rx[i].type \in Type /\ s.rx[i].version \in Version
  <2>1. \A i \in DOMAIN s.rx : s.rx[i] \in Frame
    BY DEF IsPeer
  <2>2. \A f \in Frame : f.type \in Type /\ f.version \in Version
    BY DEF Frame
  <2> QED BY <2>1, <2>2
<1>2. \A i \in DOMAIN s.beats : s.beats[i] \in Beat /\ \A e \in s.beats[i] : e[2] \in Version /\ e = <<e[1], e[2], e[3]>>
  <2>1. \A i \in DOMAIN s.beats : s.beats[i] \in Beat
    BY DEF IsPeer
  <2>2. \A b \in Beat : \A e \in b : e[2] \in Version /\ e = <<e[1], e[2], e[3]>>
    BY DEF Beat
  <2> QED BY <2>1, <2>2
<1>3. \A t \in DOMAIN s.copies : t \in Type /\ s.copies[t].version \in Version /\ s.copies[t].data \in Data
                                /\ s.copies[t].stale \in BOOLEAN
  <2>1. \A t \in DOMAIN s.copies : t \in Type /\ s.copies[t] \in CopyRecord
    BY DEF IsPeer
  <2>2. \A r \in CopyRecord : r.version \in Version /\ r.data \in Data /\ r.stale \in BOOLEAN
    BY DEF CopyRecord
  <2> QED BY <2>1, <2>2
<1> QED BY <1>1, <1>2, <1>3

\* A new stamp of the owner leaves what a peer has genuine, and no frame has that stamp.
LEMMA PeerStamped ==
    ASSUME NEW rs, NEW new, NEW c \in Version, NEW x, StampedOne(rs, c, new, x), Near(rs, c),
           NEW s, IsPeer(s), YoungPeer(c, s), GenuinePeer(rs, c, s)
    PROVE  GenuinePeer(new, NextVersion(c), s) /\ Unsent(NextVersion(c), s.rx)
<1>1. \A i \in DOMAIN s.rx : /\ Genuine(new, NextVersion(c), s.rx[i].type, s.rx[i].version, s.rx[i].data)
                             /\ s.rx[i].version # NextVersion(c)
  <2> TAKE i \in DOMAIN s.rx
  <2>1. s.rx[i].version \in Version
    BY PeerFields
  <2>2. Distance(s.rx[i].version, c) <= Window /\ Genuine(rs, c, s.rx[i].type, s.rx[i].version, s.rx[i].data)
    BY DEF GenuinePeer, GenuineQueue, YoungPeer
  <2> QED BY <2>1, <2>2, GenuineStamped
<1>2. GenuineBeats(new, NextVersion(c), s.beats)
  <2> SUFFICES ASSUME NEW i \in DOMAIN s.beats, NEW e \in s.beats[i]
               PROVE  Genuine(new, NextVersion(c), e[1], e[2], e[3])
    BY DEF GenuineBeats, GenuineEntries
  <2>1. e[2] \in Version /\ Distance(e[2], c) <= Window /\ Genuine(rs, c, e[1], e[2], e[3])
    BY PeerFields DEF GenuinePeer, GenuineBeats, GenuineEntries, YoungPeer
  <2> QED BY <2>1, GenuineStamped
<1>3. s.online /\ ~s.suspect => GenuineCopies(new, NextVersion(c), s.copies)
  <2> SUFFICES ASSUME s.online, ~s.suspect PROVE GenuineCopies(new, NextVersion(c), s.copies)
    OBVIOUS
  <2> SUFFICES ASSUME NEW t \in DOMAIN s.copies
               PROVE  s.copies[t].stale \/ Genuine(new, NextVersion(c), t, s.copies[t].version, s.copies[t].data)
    BY DEF GenuineCopies
  <2>1. s.copies[t].version \in Version
    BY PeerFields
  <2>2. s.copies[t].stale \/ Distance(s.copies[t].version, c) <= Window
    BY DEF YoungPeer
  <2>3. s.copies[t].stale \/ Genuine(rs, c, t, s.copies[t].version, s.copies[t].data)
    BY DEF GenuinePeer, GenuineCopies
  <2> QED BY <2>1, <2>2, <2>3, GenuineStamped
<1>4. InOrder(NextVersion(c), s.rx)
  <2>1. ASSUME NEW i \in DOMAIN s.rx
        PROVE  /\ Distance(s.rx[i].version, NextVersion(c)) = Distance(s.rx[i].version, c) + 1
               /\ Distance(s.rx[i].version, c) \in Version
    <3>1. s.rx[i].version \in Version /\ Distance(s.rx[i].version, c) <= Window
      BY PeerFields DEF YoungPeer
    <3>2. Distance(s.rx[i].version, c) \in Version
      BY <3>1, DistanceFacts
    <3>3. Distance(s.rx[i].version, c) < Modulus - 1
      BY <3>1, <3>2, WindowIsHalf DEF Version
    <3> QED BY <3>1, <3>2, <3>3, LagAdvance
  <2> SUFFICES ASSUME NEW i \in DOMAIN s.rx, NEW j \in DOMAIN s.rx, i < j, s.rx[i].type = s.rx[j].type
               PROVE  Distance(s.rx[i].version, NextVersion(c)) >= Distance(s.rx[j].version, NextVersion(c))
    BY DEF InOrder
  <2>2. Distance(s.rx[i].version, c) >= Distance(s.rx[j].version, c)
    BY DEF GenuinePeer, InOrder
  <2> QED BY <2>1, <2>2 DEF Version
<1> QED BY <1>1, <1>2, <1>3, <1>4 DEF GenuinePeer, GenuineQueue, Unsent

\* What a peer holds of a record that is kept.
LEMMA HoldsKept ==
    ASSUME NEW rs, NEW new, NEW t, NEW s, PeerHolds(rs, s, t),
           new[t].state = rs[t].state, new[t].version = rs[t].version, new[t].data = rs[t].data
    PROVE  PeerHolds(new, s, t)
BY DEF PeerHolds, CurrentFrames, HeldCopy, StaleIsCovered, Entry

OwnerFits == DataFits /\ VersionsDistinct /\ DigestFits

\* The owner's records and counter as the lemmas above take them.
LEMMA RecordsNear ==
    ASSUME IndInv, Young
    PROVE  Near(records, counter) /\ counter \in Version /\ Used(records) = InUse
<1>1. records \in [Type -> Record] /\ counter \in Version
  BY DEF IndInv, LocalTypeOK
<1>2. ASSUME NEW t \in InUse PROVE records[t].version \in Version /\ Distance(records[t].version, counter) < Modulus - 1
  <2>1. records[t].version \in Version /\ t \in Type /\ records[t].state \in {"live", "withdrawn"}
    BY <1>1 DEF InUse, Record
  <2>2. CASE t \in Live
    BY <2>1, <2>2, RestLag, MidLag DEF LagOf
  <2>3. CASE t \in Withdrawn
    <3>1. Distance(records[t].version, counter) \in Version
      BY <1>1, <2>1, DistanceFacts
    <3>2. Distance(records[t].version, counter) <= Window
      BY <2>3 DEF Young, LagOf
    <3> QED BY <2>1, <3>1, <3>2, WindowIsHalf DEF Version
  <2> QED BY <2>1, <2>2, <2>3 DEF Live, Withdrawn
<1> QED BY <1>1, <1>2 DEF Near, Used, InUse

\* The digest is never further behind than the window: the static_assert once more.
LEMMA DigestYoung ==
    ASSUME IndInv, DigestFits
    PROVE  \A e \in digest : e[2] \in Version /\ Distance(e[2], counter) \in Nat /\ Distance(e[2], counter) <= Window
<1> TAKE e \in digest
<1>1. e[2] \in Version /\ counter \in Version
  BY DEF DigestFits, Beat, IndInv, LocalTypeOK
<1>2. Distance(e[2], counter) \in Version
  BY <1>1, DistanceFacts
<1>3. CASE Unlocked
  <2>1. Distance(e[2], counter) <= RestBound
    BY <1>3 DEF DigestFits
  <2> QED BY <1>1, <1>2, <2>1, WindowAssumption DEF RestBound, Version, Modulus
<1>4. CASE ~Unlocked
  <2>1. Distance(e[2], counter) <= RestBound + 1 + Cardinality(refreshed)
    BY <1>4 DEF DigestFits
  <2>2. Cardinality(refreshed) \in Nat /\ Cardinality(refreshed) <= MaxLocal - 1
    BY <1>4, RefreshBounds
  <2> QED BY <1>1, <1>2, <2>1, <2>2, WindowAssumption DEF RestBound, Version, Modulus
<1> QED BY <1>3, <1>4

\* Steps that stamp nothing.
LEMMA QuietKeeps ==
    ASSUME IndInv, OwnerFits, QuietStep
    PROVE  Kept(records, records') /\ OwnerFits'
<1>1. Kept(records, records')
  BY DEF QuietStep, Kept, KeptRecord, Free
<1>2. DataFits'
  BY <1>1 DEF OwnerFits, DataFits, Kept, KeptRecord
<1>3. VersionsDistinct'
  BY <1>1 DEF OwnerFits, VersionsDistinct, InUse, Kept, KeptRecord
<1>4. GenuineEntries(records', counter, digest)
  BY <1>1, GenuineKept DEF OwnerFits, DigestFits, GenuineEntries
<1>5. DigestFits'
  BY <1>4 DEF OwnerFits, DigestFits, QuietStep, Unlocked
<1> QED BY <1>1, <1>2, <1>3, <1>5 DEF OwnerFits

\* A stamp, by a change or by its refresh.
LEMMA StampKeeps ==
    ASSUME IndInv, Young, OwnerFits, NEW x, StampedOne(records, counter, records', x),
           records'[x].state = "live" => records'[x].data \in Data,
           records'[x].state # "live" => records'[x].data = NoData,
           counter' = NextVersion(counter), digest' = digest, ~Unlocked',
           \/ Unlocked /\ refreshed' = {}
           \/ ~Unlocked /\ refreshed' = refreshed \cup {x} /\ x \notin refreshed
    PROVE  OwnerFits'
<1>0. Near(records, counter) /\ counter \in Version /\ Used(records) = InUse
  BY RecordsNear
<1>1. DataFits'
  BY DEF OwnerFits, DataFits, StampedOne, KeptRecord
<1>2. ASSUME NEW u \in InUse PROVE records[u].version # NextVersion(counter)
  BY <1>0, LagAdvance DEF Near
<1>3. VersionsDistinct'
  <2>1. \A u \in InUse' : u # x => u \in InUse /\ records'[u].version = records[u].version
    BY DEF StampedOne, KeptRecord, InUse
  <2>2. records'[x].version = NextVersion(counter)
    BY DEF StampedOne
  <2> QED BY <1>2, <2>1, <2>2 DEF VersionsDistinct, OwnerFits
<1>4. ASSUME NEW e \in digest
      PROVE  /\ Genuine(records', NextVersion(counter), e[1], e[2], e[3])
             /\ Distance(e[2], NextVersion(counter)) = Distance(e[2], counter) + 1
  <2>1. e[2] \in Version /\ Distance(e[2], counter) \in Nat /\ Distance(e[2], counter) <= Window
    BY DigestYoung DEF OwnerFits
  <2>2. Genuine(records, counter, e[1], e[2], e[3])
    BY DEF OwnerFits, DigestFits, GenuineEntries
  <2>3. Distance(e[2], counter) < Modulus - 1
    BY <2>1, WindowIsHalf
  <2> QED BY <1>0, <2>1, <2>2, <2>3, GenuineStamped, LagAdvance
<1>5. ASSUME NEW e \in digest PROVE Distance(e[2], NextVersion(counter)) <= RestBound + 1 + Cardinality(refreshed')
  <2>1. Distance(e[2], counter) \in Nat /\ RestBound \in Int
    BY DigestYoung, WindowAssumption DEF OwnerFits, RestBound
  <2>2. CASE Unlocked /\ refreshed' = {}
    <3>1. Distance(e[2], counter) <= RestBound /\ Cardinality(refreshed') = 0
      BY <2>2, FS_EmptySet DEF OwnerFits, DigestFits
    <3> QED BY <2>1, <3>1, <1>4
  <2>3. CASE ~Unlocked /\ refreshed' = refreshed \cup {x} /\ x \notin refreshed
    <3>1. IsFiniteSet(refreshed) /\ Cardinality(refreshed) \in Nat
      BY <2>3, RefreshBounds
    <3>2. Cardinality(refreshed') = Cardinality(refreshed) + 1
      BY <2>3, <3>1, AddOne
    <3>3. Distance(e[2], counter) <= RestBound + 1 + Cardinality(refreshed)
      BY <2>3 DEF OwnerFits, DigestFits
    <3> QED BY <2>1, <3>1, <3>2, <3>3, <1>4
  <2> QED BY <2>2, <2>3
<1>6. DigestFits'
  BY <1>4, <1>5 DEF OwnerFits, DigestFits, GenuineEntries
<1> QED BY <1>1, <1>3, <1>6 DEF OwnerFits

\* SetLocalState() and ClearLocalState() stamp one record.
LEMMA ChangeStamps ==
    ASSUME IndInv, NEW t \in Type, ClearLocalState(t) \/ \E data \in Data : SetLocalState(t, data)
    PROVE  /\ StampedOne(records, counter, records', t) /\ counter' = NextVersion(counter)
           /\ records'[t].state = "live" => records'[t].data \in Data
           /\ records'[t].state # "live" => records'[t].data = NoData
           /\ records'[t].announce
           /\ Unlocked /\ ~Unlocked' /\ refreshed' = {} /\ UNCHANGED <<digest, online>>
<1>1. records \in [Type -> Record] /\ t # 0
  BY TypeAssumption DEF IndInv, LocalTypeOK
<1>2. ASSUME NEW rs, NEW state, NEW data, StampChange(t, rs, state, data), Unlocked, DOMAIN rs = Type, rs[t] \in Record,
             \A u \in Type \ {t} : rs[u] = records[u] \/ rs[u] = Free,
             (state = "live" /\ data \in Data) \/ (state = "withdrawn" /\ data = NoData)
      PROVE  /\ StampedOne(records, counter, records', t) /\ counter' = NextVersion(counter)
             /\ records'[t].state = "live" => records'[t].data \in Data
             /\ records'[t].state # "live" => records'[t].data = NoData
             /\ records'[t].announce
             /\ Unlocked /\ ~Unlocked' /\ refreshed' = {} /\ UNCHANGED <<digest, online>>
  <2>1. records' = [rs EXCEPT ![t] = [Stamped(rs[t]) EXCEPT !.state = state, !.data = data]]
    BY <1>2 DEF StampChange
  <2>2. /\ records'[t].version = NextVersion(counter) /\ records'[t].state = state /\ records'[t].data = data
        /\ records'[t].announce
    BY <1>2, <2>1 DEF Stamped, Record
  <2>3. \A u \in Type \ {t} : records'[u] = records[u] \/ records'[u] = Free
    BY <1>2, <2>1
  <2>4. StampedOne(records, counter, records', t)
    BY <2>2, <2>3 DEF StampedOne, KeptRecord, Free
  <2> QED BY <1>1, <1>2, <2>2, <2>4, NoDataAssumption DEF StampChange, Unlocked
<1>3. CASE ClearLocalState(t)
  <2>1. StampChange(t, records, "withdrawn", NoData) /\ Unlocked
    BY <1>3 DEF ClearLocalState
  <2> QED BY <1>1, <1>2, <2>1
<1>4. CASE \E data \in Data : SetLocalState(t, data)
  <2>1. PICK data \in Data : SetLocalState(t, data)
    BY <1>4
  <2> DEFINE rs == [u \in Type |-> IF u \in EvictableFor(t) THEN Free ELSE records[u]]
  <2>2. StampChange(t, rs, "live", data) /\ Unlocked
    BY <2>1 DEF SetLocalState
  <2>3. t \notin EvictableFor(t)
    BY DEF EvictableFor, Withdrawn, InUse
  <2>4. DOMAIN rs = Type /\ rs[t] \in Record /\ \A u \in Type \ {t} : rs[u] = records[u] \/ rs[u] = Free
    BY <1>1, <2>3
  <2> HIDE DEF rs
  <2> QED BY <1>2, <2>2, <2>4
<1> QED BY <1>3, <1>4

-----------------------------------------------------------------------------
(* The network, as one of its parts changes *)

\* Records are freed.
LEMMA NetKept ==
    ASSUME NEW rs, NEW new, NEW c, NEW dg, NEW pr, NEW rsp, NEW ak,
           Kept(rs, new), Connected(rs, c, dg, pr, rsp, ak)
    PROVE  Connected(new, c, dg, pr, rsp, ak)
<1>1. \A t \in Used(new) : t \in Used(rs) /\ new[t].state = rs[t].state /\ new[t].version = rs[t].version /\ new[t].data = rs[t].data
  BY DEF Kept, KeptRecord, Used
<1>2. \A p \in Peer : GenuinePeer(new, c, pr[p])
  BY PeerKept DEF Connected
<1>3. \A t \in Used(new) : new[t].state = "live" => Sent(new, dg, pr, rsp, ak, t)
  BY <1>1 DEF Connected, Sent, Entry
<1>4. ASSUME NEW p \in Peer, NEW t \in Used(new), pr[p].online, Answered(new, rsp, ak, p, t) PROVE PeerHolds(new, pr[p], t)
  <2>1. t \in Used(rs) /\ Answered(rs, rsp, ak, p, t)
    BY <1>1, <1>4 DEF Answered
  <2>2. PeerHolds(rs, pr[p], t)
    BY <1>4, <2>1 DEF Connected
  <2> QED BY <1>1, <2>2, HoldsKept
<1> QED BY <1>2, <1>3, <1>4 DEF Connected

\* Responses arrive or are lost.
LEMMA NetLess ==
    ASSUME NEW rs, NEW c, NEW dg, NEW pr, NEW rsp, NEW ak, NEW rsp2, NEW ak2,
           Connected(rs, c, dg, pr, rsp, ak), rsp2 \subseteq rsp,
           \A t \in Used(rs) : \A p \in ak2[t] : Answered(rs, rsp, ak, p, t)
    PROVE  Connected(rs, c, dg, pr, rsp2, ak2)
<1>1. ASSUME NEW t \in Used(rs), rs[t].state = "live" PROVE Sent(rs, dg, pr, rsp2, ak2, t)
  <2>1. Sent(rs, dg, pr, rsp, ak, t)
    BY <1>1 DEF Connected
  <2>2. CASE Entry(rs, t) \in dg
    BY <2>2 DEF Sent
  <2>3. CASE /\ ak[t] = {} /\ \A r \in rsp : r[2] # rs[t].version
             /\ \A p \in Peer : Unsent(rs[t].version, pr[p].rx)
    <3>1. \A p : <<p, rs[t].version>> \notin rsp
      BY <2>3
    <3>2. ak2[t] = {}
      BY <2>3, <3>1 DEF Answered
    <3> QED BY <2>3, <3>2 DEF Sent
  <2> QED BY <2>1, <2>2, <2>3 DEF Sent
<1>2. \A p \in Peer, t \in Used(rs) : Answered(rs, rsp2, ak2, p, t) => Answered(rs, rsp, ak, p, t)
  BY DEF Answered
<1> QED BY <1>1, <1>2 DEF Connected

\* A record is stamped: nobody has seen its new version.
LEMMA NetStamped ==
    ASSUME NEW rs, NEW new, NEW c \in Version, NEW x, StampedOne(rs, c, new, x), Near(rs, c),
           NEW dg, NEW pr, NEW rsp, NEW ak, NEW ak2,
           \A p \in Peer : IsPeer(pr[p]) /\ YoungPeer(c, pr[p]),
           \A r \in rsp : r[2] \in Version /\ Distance(r[2], c) <= Window,
           Connected(rs, c, dg, pr, rsp, ak), ak2[x] = {}, \A t \in Type : ak2[t] \subseteq ak[t]
    PROVE  Connected(new, NextVersion(c), dg, pr, rsp, ak2)
<1>1. \A t \in Used(new) \ {x} : /\ t \in Type /\ t \in Used(rs) /\ new[t].state = rs[t].state
                                 /\ new[t].version = rs[t].version /\ new[t].data = rs[t].data
  BY DEF StampedOne, KeptRecord, Used
<1>2. new[x].version = NextVersion(c)
  BY DEF StampedOne
<1>3. \A p \in Peer : GenuinePeer(new, NextVersion(c), pr[p]) /\ Unsent(NextVersion(c), pr[p].rx)
  BY PeerStamped DEF Connected
<1>4. \A r \in rsp : r[2] # NextVersion(c)
  <2> TAKE r \in rsp
  <2>1. r[2] \in Version /\ Distance(r[2], c) \in Version /\ Distance(r[2], c) <= Window
    BY DistanceFacts
  <2>2. Distance(r[2], c) < Modulus - 1
    BY <2>1, WindowIsHalf DEF Version
  <2> QED BY <2>1, <2>2, LagAdvance
<1>5. ASSUME NEW t \in Used(new), new[t].state = "live" PROVE Sent(new, dg, pr, rsp, ak2, t)
  <2>1. CASE t = x
    BY <2>1, <1>2, <1>3, <1>4 DEF Sent
  <2>2. CASE t # x
    <3>1. Sent(rs, dg, pr, rsp, ak, t) /\ ak2[t] \subseteq ak[t]
      BY <1>1, <1>5, <2>2 DEF Connected
    <3>2. new[t].version = rs[t].version /\ new[t].data = rs[t].data
      BY <1>1, <2>2
    <3> QED BY <3>1, <3>2 DEF Sent, Entry
  <2> QED BY <2>1, <2>2
<1>6. ASSUME NEW p \in Peer, NEW t \in Used(new), pr[p].online, Answered(new, rsp, ak2, p, t) PROVE PeerHolds(new, pr[p], t)
  <2>1. t # x
    BY <1>2, <1>4, <1>6 DEF Answered
  <2>2. Answered(rs, rsp, ak, p, t)
    BY <1>1, <1>6, <2>1 DEF Answered
  <2>3. PeerHolds(rs, pr[p], t)
    BY <1>1, <1>6, <2>1, <2>2 DEF Connected
  <2> QED BY <1>1, <2>1, <2>3, HoldsKept
<1> QED BY <1>3, <1>5, <1>6 DEF Connected

\* The peers change: what they have is genuine, no frame or response of a version comes from nowhere, and who
\* answers holds.
LEMMA NetPeers ==
    ASSUME NEW rs, NEW c, NEW dg, NEW pr, NEW rsp, NEW ak, NEW pr2, NEW rsp2, NEW ak2,
           Connected(rs, c, dg, pr, rsp, ak),
           \A p \in Peer : GenuinePeer(rs, c, pr2[p]),
           \A t \in Used(rs) : rs[t].state = "live" => Entry(rs, t) \in dg \/ ak2[t] \subseteq ak[t],
           \A p \in Peer : \A i \in DOMAIN pr2[p].rx :
              \/ \E j \in DOMAIN pr[p].rx : pr2[p].rx[i].version = pr[p].rx[j].version
              \/ \A t \in Used(rs) : rs[t].state = "live" /\ rs[t].version = pr2[p].rx[i].version => Entry(rs, t) \in dg,
           \A r \in rsp2 : \/ r \in rsp
                           \/ \E p \in Peer : \E j \in DOMAIN pr[p].rx : r[2] = pr[p].rx[j].version,
           \A p \in Peer, t \in Used(rs) : pr2[p].online /\ Answered(rs, rsp2, ak2, p, t) => PeerHolds(rs, pr2[p], t)
    PROVE  Connected(rs, c, dg, pr2, rsp2, ak2)
<1>1. ASSUME NEW t \in Used(rs), rs[t].state = "live" PROVE Sent(rs, dg, pr2, rsp2, ak2, t)
  <2>1. Sent(rs, dg, pr, rsp, ak, t)
    BY <1>1 DEF Connected
  <2>2. CASE Entry(rs, t) \in dg
    BY <2>2 DEF Sent
  <2>3. CASE /\ ak[t] = {} /\ \A r \in rsp : r[2] # rs[t].version
             /\ \A p \in Peer : Unsent(rs[t].version, pr[p].rx)
             /\ Entry(rs, t) \notin dg
    <3>1. ak2[t] = {}
      BY <1>1, <2>3
    <3>2. \A r \in rsp2 : r[2] # rs[t].version
      BY <2>3 DEF Unsent
    <3>3. \A p \in Peer : Unsent(rs[t].version, pr2[p].rx)
      BY <1>1, <2>3 DEF Unsent
    <3> QED BY <3>1, <3>2, <3>3 DEF Sent
  <2> QED BY <2>1, <2>2, <2>3 DEF Sent
<1> QED BY <1>1 DEF Connected

-----------------------------------------------------------------------------
(* What the handlers of a peer do to what it has *)

\* A peer with other frames, beats, copies or marks keeps its other parts.
SameBut(n, s, what) ==
    /\ PeerShape(n)
    /\ what # "rx" => n.rx = s.rx
    /\ what # "beats" => n.beats = s.beats
    /\ what # "copies" => n.copies = s.copies
    /\ what # "suspect" => n.suspect = s.suspect
    /\ what # "online" => n.online = s.online
    /\ what # "known" => n.known = s.known

\* Other frames.
LEMMA PeerFrames ==
    ASSUME NEW s, PeerShape(s), NEW rx
    PROVE  LET n == [s EXCEPT !.rx = rx] IN n.rx = rx /\ SameBut(n, s, "rx")
BY DEF PeerShape, SameBut

\* Other copies.
LEMMA PeerCopies ==
    ASSUME NEW s, PeerShape(s), NEW copies
    PROVE  LET n == [s EXCEPT !.copies = copies] IN n.copies = copies /\ SameBut(n, s, "copies")
BY DEF PeerShape, SameBut

\* The overflow mark and the rate limit.
LEMMA PeerFlags ==
    ASSUME NEW s, PeerShape(s), NEW flag
    PROVE  SameBut([s EXCEPT !.overflowed = flag], s, "flag") /\ SameBut([s EXCEPT !.limited = flag], s, "flag")
BY DEF PeerShape, SameBut

\* The history of missed restarts and lack of room.
LEMMA PeerSuspect ==
    ASSUME NEW s, PeerShape(s), NEW suspect
    PROVE  LET n == [s EXCEPT !.suspect = suspect] IN n.suspect = suspect /\ SameBut(n, s, "suspect")
BY DEF PeerShape, SameBut

\* RemoveRemoteRecords() frees copies and clears the overflow mark in one step.
LEMMA PeerFreesCopies ==
    ASSUME NEW s, PeerShape(s), NEW copies
    PROVE  LET n == [s EXCEPT !.copies = copies, !.overflowed = FALSE] IN n.copies = copies /\ SameBut(n, s, "copies")
<1> DEFINE m == [s EXCEPT !.copies = copies]
<1>1. [s EXCEPT !.copies = copies, !.overflowed = FALSE] = [m EXCEPT !.overflowed = FALSE]
  BY DEF PeerShape
<1>2. m.copies = copies /\ SameBut(m, s, "copies")
  BY PeerCopies
<1> HIDE DEF m
<1>3. SameBut([m EXCEPT !.overflowed = FALSE], m, "flag")
  BY <1>2, PeerFlags DEF SameBut
<1> QED BY <1>1, <1>2, <1>3 DEF SameBut

\* A record that did not fit marks the peer and nothing else.
LEMMA PeerOverflows ==
    ASSUME NEW s, PeerShape(s)
    PROVE  MarkOverflowed(s).suspect = TRUE /\ SameBut(MarkOverflowed(s), s, "suspect")
<1> DEFINE m == [s EXCEPT !.suspect = TRUE]
<1>1. MarkOverflowed(s) = [m EXCEPT !.overflowed = TRUE]
  BY DEF PeerShape, MarkOverflowed
<1>2. m.suspect = TRUE /\ SameBut(m, s, "suspect")
  BY PeerSuspect
<1> HIDE DEF m
<1>3. SameBut([m EXCEPT !.overflowed = TRUE], m, "flag")
  BY <1>2, PeerFlags DEF SameBut
<1> QED BY <1>1, <1>2, <1>3 DEF SameBut

\* The beat is gone, and the rate limit may start.
LEMMA PeerBeats ==
    ASSUME NEW s, PeerShape(s), NEW beats, NEW limited
    PROVE  LET n == [s EXCEPT !.beats = beats, !.limited = limited] IN n.beats = beats /\ SameBut(n, s, "beats")
<1> DEFINE m == [s EXCEPT !.beats = beats]
<1>1. [s EXCEPT !.beats = beats, !.limited = limited] = [m EXCEPT !.limited = limited]
  BY DEF PeerShape
<1>2. m.beats = beats /\ SameBut(m, s, "beats")
  BY DEF PeerShape, SameBut
<1> HIDE DEF m
<1>3. SameBut([m EXCEPT !.limited = limited], m, "flag")
  BY <1>2, PeerFlags DEF SameBut
<1> QED BY <1>1, <1>2, <1>3 DEF SameBut

\* A frame leaves the queue.
LEMMA TailParts ==
    ASSUME NEW rx \in Seq(Frame), rx # << >>
    PROVE  /\ Tail(rx) \in Seq(Frame) /\ Head(rx) = rx[1] /\ 1 \in DOMAIN rx
           /\ \A i \in DOMAIN Tail(rx) : i \in Nat /\ i + 1 \in DOMAIN rx /\ Tail(rx)[i] = rx[i + 1] /\ i + 1 > 1
OBVIOUS

\* A peer that took or lost the first frame of its queue has what it had before.
LEMMA PeerDequeues ==
    ASSUME NEW s, IsPeer(s), s.rx # << >>
    PROVE  LET n == [s EXCEPT !.rx = Tail(@)]
           IN /\ IsPeer(n) /\ n.online = s.online /\ n.known = s.known /\ n.suspect = s.suspect /\ n.copies = s.copies /\ n.beats = s.beats
              /\ n.rx = Tail(s.rx)
              /\ \A rs, c : GenuinePeer(rs, c, s) => GenuinePeer(rs, c, n)
              /\ \A rs, t : PeerHolds(rs, s, t) => PeerHolds(rs, n, t)
<1> DEFINE n == [s EXCEPT !.rx = Tail(s.rx)]
<1>1. /\ n.rx = Tail(s.rx) /\ n.copies = s.copies /\ n.beats = s.beats /\ n.online = s.online /\ n.suspect = s.suspect
      /\ n.known = s.known /\ PeerShape(n)
  <2>1. n.rx = Tail(s.rx) /\ SameBut(n, s, "rx")
    BY PeerFrames DEF IsPeer
  <2> HIDE DEF n
  <2> QED BY <2>1 DEF SameBut
<1>2. s.rx \in Seq(Frame)
  BY DEF IsPeer
<1>3. /\ Tail(s.rx) \in Seq(Frame)
      /\ \A i \in DOMAIN Tail(s.rx) : i \in Nat /\ i + 1 \in DOMAIN s.rx /\ Tail(s.rx)[i] = s.rx[i + 1]
  BY <1>2, TailParts
<1> HIDE DEF n
<1>4. IsPeer(n)
  BY <1>1, <1>3 DEF IsPeer
<1>5. ASSUME NEW rs, NEW c, GenuinePeer(rs, c, s) PROVE GenuinePeer(rs, c, n)
  <2>1. GenuineQueue(rs, c, n.rx)
    BY <1>1, <1>3, <1>5 DEF GenuinePeer, GenuineQueue
  <2>2. InOrder(c, n.rx)
    <3> SUFFICES ASSUME NEW i \in DOMAIN Tail(s.rx), NEW j \in DOMAIN Tail(s.rx), i < j, Tail(s.rx)[i].type = Tail(s.rx)[j].type
                 PROVE  Distance(Tail(s.rx)[i].version, c) >= Distance(Tail(s.rx)[j].version, c)
      BY <1>1 DEF InOrder
    <3>1. i + 1 \in DOMAIN s.rx /\ j + 1 \in DOMAIN s.rx /\ Tail(s.rx)[i] = s.rx[i + 1] /\ Tail(s.rx)[j] = s.rx[j + 1]
          /\ i \in Nat /\ j \in Nat
      BY <1>3
    <3>2. i + 1 < j + 1
      BY <3>1
    <3> HIDE DEF n
    <3>3. InOrder(c, s.rx)
      BY <1>5 DEF GenuinePeer
    <3> QED BY <3>1, <3>2, <3>3 DEF InOrder
  <2> QED BY <2>1, <2>2, <1>1, <1>5 DEF GenuinePeer
<1>6. ASSUME NEW rs, NEW t, PeerHolds(rs, s, t) PROVE PeerHolds(rs, n, t)
  <2>1. CurrentFrames(rs, t, n.rx)
    BY <1>1, <1>3, <1>6 DEF PeerHolds, CurrentFrames
  <2> QED BY <2>1, <1>1, <1>6 DEF PeerHolds
<1> QED BY <1>1, <1>4, <1>5, <1>6 DEF n

\* What the records in use say.
RecordsFit(rs) ==
    \A t \in Used(rs) : /\ rs[t].version \in Version
                        /\ rs[t].state = "live" => rs[t].data \in Data
                        /\ rs[t].state # "live" => rs[t].data = NoData

\* Copies without some types.
LEMMA RemoveParts ==
    ASSUME NEW s, PeerShape(s), NEW types
    PROVE  LET n == RemoveRemoteRecords(s, types)
           IN /\ SameBut(n, s, "copies")
              /\ DOMAIN n.copies = DOMAIN s.copies \ types
              /\ \A t \in DOMAIN n.copies : n.copies[t] = s.copies[t]
<1>1. CASE types \cap DOMAIN s.copies = {}
  <2>1. RemoveRemoteRecords(s, types) = s /\ DOMAIN s.copies = DOMAIN s.copies \ types
    BY <1>1 DEF RemoveRemoteRecords
  <2> QED BY <2>1 DEF SameBut
<1>2. CASE types \cap DOMAIN s.copies # {}
  <2> DEFINE n == [s EXCEPT !.copies = Without(s.copies, types), !.overflowed = FALSE]
  <2>1. RemoveRemoteRecords(s, types) = n
    BY <1>2 DEF RemoveRemoteRecords
  <2>2. n.copies = Without(s.copies, types) /\ SameBut(n, s, "copies")
    BY PeerFreesCopies
  <2> HIDE DEF n
  <2> QED BY <2>1, <2>2 DEF Without
<1> QED BY <1>1, <1>2

\* ApplyRemoteRecord(): a frame is ignored, or its copy is removed, not stored, or stored.
LEMMA ApplyCases ==
    ASSUME NEW s, PeerShape(s), NEW m
    PROVE  LET n == ApplyRecord(s, m)
           IN \/ IsOutdated(s, m) /\ n = s
              \/ /\ m.data = NoData /\ SameBut(n, s, "copies")
                 /\ DOMAIN n.copies = DOMAIN s.copies \ {m.type}
                 /\ \A t \in DOMAIN n.copies : n.copies[t] = s.copies[t]
              \/ n.suspect = TRUE /\ SameBut(n, s, "suspect")
              \/ /\ m.data # NoData /\ SameBut(n, s, "copies")
                 /\ DOMAIN n.copies = DOMAIN s.copies \cup {m.type}
                 /\ \A t \in DOMAIN n.copies \ {m.type} : n.copies[t] = s.copies[t]
                 /\ n.copies[m.type] = Copy(m)
<1> DEFINE n == ApplyRecord(s, m)
           copies == [t \in DOMAIN s.copies \cup {m.type} |-> IF t = m.type THEN Copy(m) ELSE s.copies[t]]
<1>1. CASE IsOutdated(s, m)
  BY <1>1 DEF ApplyRecord
<1>2. CASE ~IsOutdated(s, m) /\ m.data = NoData
  <2>1. n = RemoveRemoteRecords(s, {m.type})
    BY <1>2 DEF ApplyRecord
  <2> QED BY <2>1, <1>2, RemoveParts
<1>3. CASE n = MarkOverflowed(s)
  BY <1>3, PeerOverflows
<1>4. CASE m.data # NoData /\ n = [s EXCEPT !.copies = copies]
  <2>1. n.copies = copies /\ SameBut(n, s, "copies")
    BY <1>4, PeerCopies
  <2> HIDE DEF n
  <2>2. DOMAIN n.copies = DOMAIN s.copies \cup {m.type} /\ n.copies[m.type] = Copy(m)
        /\ \A t \in DOMAIN n.copies \ {m.type} : n.copies[t] = s.copies[t]
    BY <2>1
  <2> QED BY <1>4, <2>1, <2>2 DEF n
<1>5. IsOutdated(s, m) \/ (~IsOutdated(s, m) /\ m.data = NoData) \/ n = MarkOverflowed(s)
      \/ (m.data # NoData /\ n = [s EXCEPT !.copies = copies])
  BY DEF ApplyRecord
<1> QED BY <1>1, <1>2, <1>3, <1>4, <1>5

\* A version that does not compare newer is at least as far behind.
LEMMA NotNewer ==
    ASSUME NEW v \in Version, NEW w \in Version, NEW c \in Version, Distance(v, c) <= Window, Distance(w, c) <= Window,
           ~IsNewer(w, v)
    PROVE  Distance(w, c) >= Distance(v, c)
BY WindowAssumption DEF Version, Modulus, Distance, IsNewer

\* What a peer has after a frame.
LEMMA ApplyKeeps ==
    ASSUME NEW rs, NEW c \in Version, RecordsFit(rs), NEW s, IsPeer(s), s.known, s.online, GenuinePeer(rs, c, s), YoungPeer(c, s),
           NEW m \in Frame, Genuine(rs, c, m.type, m.version, m.data), Distance(m.version, c) <= Window
    PROVE  LET n == ApplyRecord(s, m)
           IN /\ IsPeer(n) /\ n.rx = s.rx /\ n.online
              /\ GenuinePeer(rs, c, n)
              /\ \A t \in Used(rs) : /\ CurrentFrames(rs, t, s.rx)
                                     /\ t = m.type => m.version = rs[t].version
                                     /\ t # m.type => PeerHolds(rs, s, t)
                                     => PeerHolds(rs, n, t)
<1> DEFINE n == ApplyRecord(s, m)
<1>0. PeerShape(s) /\ m.type \in Type /\ m.version \in Version /\ m.data \in Data \cup {NoData}
  BY DEF IsPeer, Frame
<1>1. CASE IsOutdated(s, m) /\ n = s
  <2>1. ASSUME NEW t \in Used(rs), CurrentFrames(rs, t, s.rx), t = m.type, m.version = rs[t].version, ~s.suspect
        PROVE  HeldCopy(rs, s.copies, t) /\ StaleIsCovered(rs, t, s.copies, s.beats)
    <3>1. t \in DOMAIN s.copies /\ ~s.copies[t].stale /\ ~IsNewer(m.version, s.copies[t].version)
      BY <1>1, <2>1 DEF IsOutdated
    <3>2. s.copies[t].version \in Version /\ s.copies[t].data \in Data /\ Distance(s.copies[t].version, c) <= Window
      BY <2>1, <3>1, PeerFields DEF YoungPeer
    <3>3. Genuine(rs, c, t, s.copies[t].version, s.copies[t].data)
      BY <2>1, <3>1 DEF GenuinePeer, GenuineCopies
    <3>4. Distance(m.version, c) >= Distance(s.copies[t].version, c)
      BY <1>0, <3>1, <3>2, NotNewer
    <3>5. Distance(s.copies[t].version, c) >= Distance(m.version, c)
      BY <2>1, <3>3 DEF Genuine
    <3>6. Distance(s.copies[t].version, c) \in Version /\ Distance(m.version, c) \in Version
      BY <1>0, <3>2, DistanceFacts
    <3>7. s.copies[t].version = m.version
      BY <1>0, <3>2, <3>4, <3>5, <3>6, SameDistance DEF Version
    <3>8. s.copies[t].data = rs[t].data
      BY <2>1, <3>3, <3>7 DEF Genuine
    <3>9. rs[t].state = "live"
      BY <3>2, <3>8, NoDataAssumption DEF RecordsFit
    <3> QED BY <3>1, <3>7, <3>8, <3>9, <2>1 DEF HeldCopy, StaleIsCovered
  <2> QED BY <1>1, <2>1 DEF PeerHolds
<1>2. CASE /\ m.data = NoData /\ SameBut(n, s, "copies")
           /\ DOMAIN n.copies = DOMAIN s.copies \ {m.type}
           /\ \A t \in DOMAIN n.copies : n.copies[t] = s.copies[t]
  <2> HIDE DEF n
  <2>1. n.rx = s.rx /\ n.beats = s.beats /\ n.online /\ n.suspect = s.suspect /\ PeerShape(n) /\ n.online = s.online
        /\ n.known = s.known
    BY <1>2 DEF SameBut
  <2>2. IsPeer(n)
    BY <1>2, <2>1 DEF IsPeer
  <2>3. GenuinePeer(rs, c, n)
    BY <1>2, <2>1 DEF GenuinePeer, GenuineCopies
  <2>4. ASSUME NEW t \in Used(rs), CurrentFrames(rs, t, s.rx), t = m.type, m.version = rs[t].version
        PROVE  PeerHolds(rs, n, t)
    <3>1. rs[t].state # "live"
      BY <2>4, <1>2, NoDataAssumption DEF Genuine, RecordsFit
    <3>2. t \notin DOMAIN n.copies
      BY <1>2, <2>4
    <3> QED BY <3>1, <3>2, <2>1, <2>4 DEF PeerHolds, HeldCopy, StaleIsCovered
  <2>5. ASSUME NEW t \in Used(rs), PeerHolds(rs, s, t), t # m.type
        PROVE  PeerHolds(rs, n, t)
    <3>1. /\ t \in DOMAIN n.copies <=> t \in DOMAIN s.copies
          /\ t \in DOMAIN n.copies => n.copies[t] = s.copies[t]
      BY <1>2, <2>5
    <3> QED BY <3>1, <2>1, <2>5 DEF PeerHolds, HeldCopy, StaleIsCovered
  <2> QED BY <2>1, <2>2, <2>3, <2>4, <2>5 DEF n
<1>3. CASE n.suspect = TRUE /\ SameBut(n, s, "suspect")
  <2> HIDE DEF n
  <2>1. n.rx = s.rx /\ n.beats = s.beats /\ n.online /\ n.copies = s.copies /\ PeerShape(n) /\ n.online = s.online
        /\ n.known = s.known
    BY <1>3 DEF SameBut
  <2>2. IsPeer(n)
    BY <1>3, <2>1 DEF IsPeer
  <2>3. GenuinePeer(rs, c, n)
    BY <1>3, <2>1 DEF GenuinePeer
  <2> QED BY <1>3, <2>1, <2>2, <2>3 DEF n, PeerHolds
<1>4. CASE /\ m.data # NoData /\ SameBut(n, s, "copies")
           /\ DOMAIN n.copies = DOMAIN s.copies \cup {m.type}
           /\ \A t \in DOMAIN n.copies \ {m.type} : n.copies[t] = s.copies[t]
           /\ n.copies[m.type] = Copy(m)
  <2> HIDE DEF n
  <2>1. n.rx = s.rx /\ n.beats = s.beats /\ n.online /\ n.suspect = s.suspect /\ PeerShape(n) /\ n.online = s.online
        /\ n.known = s.known
    BY <1>4 DEF SameBut
  <2>2. Copy(m) \in CopyRecord /\ Copy(m).version = m.version /\ Copy(m).data = m.data /\ Copy(m).stale = FALSE
    BY <1>0, <1>4 DEF Copy, CopyRecord
  <2>3. IsPeer(n)
    <3>1. DOMAIN n.copies \subseteq Type
      BY <1>0, <1>4 DEF IsPeer
    <3>2. \A t \in DOMAIN n.copies : n.copies[t] \in CopyRecord
      BY <1>4, <2>2 DEF IsPeer
    <3> QED BY <3>1, <3>2, <2>1 DEF IsPeer
  <2>4. GenuineCopies(rs, c, s.copies) => GenuineCopies(rs, c, n.copies)
    BY <1>4, <2>2 DEF GenuineCopies
  <2>5. GenuinePeer(rs, c, n)
    BY <2>1, <2>4 DEF GenuinePeer
  <2>6. ASSUME NEW t \in Used(rs), CurrentFrames(rs, t, s.rx), t = m.type, m.version = rs[t].version
        PROVE  PeerHolds(rs, n, t)
    <3>1. m.data = rs[t].data
      BY <2>6 DEF Genuine
    <3>2. rs[t].state = "live"
      BY <3>1, <1>4 DEF RecordsFit
    <3>3. t \in DOMAIN n.copies /\ n.copies[t] = Copy(m)
      BY <1>4, <2>6
    <3> QED BY <3>1, <3>2, <3>3, <2>1, <2>2, <2>6 DEF PeerHolds, HeldCopy, StaleIsCovered
  <2>7. ASSUME NEW t \in Used(rs), PeerHolds(rs, s, t), t # m.type
        PROVE  PeerHolds(rs, n, t)
    <3>1. /\ t \in DOMAIN n.copies <=> t \in DOMAIN s.copies
          /\ t \in DOMAIN n.copies => n.copies[t] = s.copies[t]
      BY <1>4, <2>7
    <3> QED BY <3>1, <2>1, <2>7 DEF PeerHolds, HeldCopy, StaleIsCovered
  <2> QED BY <2>1, <2>3, <2>5, <2>6, <2>7 DEF n
<1> QED BY ZenonT(40), <1>0, <1>1, <1>2, <1>3, <1>4, ApplyCases

\* Marking copies stale or fresh changes nothing else of them.
LEMMA StaleParts ==
    ASSUME NEW s, IsPeer(s)
    PROVE  /\ DOMAIN AllStale(s.copies) = DOMAIN s.copies /\ DOMAIN NoneStale(s.copies) = DOMAIN s.copies
           /\ \A t \in DOMAIN s.copies :
                 /\ AllStale(s.copies)[t] \in CopyRecord /\ AllStale(s.copies)[t].stale
                 /\ AllStale(s.copies)[t].version = s.copies[t].version /\ AllStale(s.copies)[t].data = s.copies[t].data
                 /\ NoneStale(s.copies)[t] \in CopyRecord /\ ~NoneStale(s.copies)[t].stale
                 /\ NoneStale(s.copies)[t].version = s.copies[t].version /\ NoneStale(s.copies)[t].data = s.copies[t].data
<1>1. ASSUME NEW r \in CopyRecord, NEW b \in BOOLEAN
      PROVE  /\ [r EXCEPT !.stale = b] \in CopyRecord /\ [r EXCEPT !.stale = b].stale = b
             /\ [r EXCEPT !.stale = b].version = r.version /\ [r EXCEPT !.stale = b].data = r.data
  BY DEF CopyRecord
<1>2. \A t \in DOMAIN s.copies : s.copies[t] \in CopyRecord
  BY DEF IsPeer
<1>3. /\ DOMAIN AllStale(s.copies) = DOMAIN s.copies /\ DOMAIN NoneStale(s.copies) = DOMAIN s.copies
      /\ \A t \in DOMAIN s.copies : /\ AllStale(s.copies)[t] = [s.copies[t] EXCEPT !.stale = TRUE]
                                    /\ NoneStale(s.copies)[t] = [s.copies[t] EXCEPT !.stale = FALSE]
  BY DEF AllStale, NoneStale
<1>4. ASSUME NEW t \in DOMAIN s.copies
      PROVE  /\ AllStale(s.copies)[t] \in CopyRecord /\ AllStale(s.copies)[t].stale
             /\ AllStale(s.copies)[t].version = s.copies[t].version /\ AllStale(s.copies)[t].data = s.copies[t].data
  <2> DEFINE r == s.copies[t]
  <2>1. r \in CopyRecord /\ AllStale(s.copies)[t] = [r EXCEPT !.stale = TRUE]
    BY <1>2, <1>3
  <2> HIDE DEF r
  <2>2. /\ [r EXCEPT !.stale = TRUE] \in CopyRecord /\ [r EXCEPT !.stale = TRUE].stale = TRUE
        /\ [r EXCEPT !.stale = TRUE].version = r.version /\ [r EXCEPT !.stale = TRUE].data = r.data
    BY <2>1, <1>1
  <2>3. /\ AllStale(s.copies)[t] \in CopyRecord /\ AllStale(s.copies)[t].stale = TRUE
        /\ AllStale(s.copies)[t].version = r.version /\ AllStale(s.copies)[t].data = r.data
    BY <2>1, <2>2
  <2> QED BY <2>3 DEF r
<1>5. ASSUME NEW t \in DOMAIN s.copies
      PROVE  /\ NoneStale(s.copies)[t] \in CopyRecord /\ ~NoneStale(s.copies)[t].stale
             /\ NoneStale(s.copies)[t].version = s.copies[t].version /\ NoneStale(s.copies)[t].data = s.copies[t].data
  <2> DEFINE r == s.copies[t]
  <2>1. r \in CopyRecord /\ NoneStale(s.copies)[t] = [r EXCEPT !.stale = FALSE]
    BY <1>2, <1>3
  <2> HIDE DEF r
  <2>2. /\ [r EXCEPT !.stale = FALSE] \in CopyRecord /\ [r EXCEPT !.stale = FALSE].stale = FALSE
        /\ [r EXCEPT !.stale = FALSE].version = r.version /\ [r EXCEPT !.stale = FALSE].data = r.data
    BY <2>1, <1>1
  <2>3. /\ NoneStale(s.copies)[t] \in CopyRecord /\ NoneStale(s.copies)[t].stale = FALSE
        /\ NoneStale(s.copies)[t].version = r.version /\ NoneStale(s.copies)[t].data = r.data
    BY <2>1, <2>2
  <2> QED BY <2>3 DEF r
<1> QED BY <1>3, <1>4, <1>5

\* All copies of a peer become stale: RESTARTED, or a digest that differs.
LEMMA AllStaleKeeps ==
    ASSUME NEW s, IsPeer(s)
    PROVE  LET n == [s EXCEPT !.copies = AllStale(@)]
           IN /\ IsPeer(n) /\ SameBut(n, s, "copies") /\ \A rs, c : GenuineCopies(rs, c, n.copies)
              /\ \A rs, t : HeldCopy(rs, s.copies, t) => HeldCopy(rs, n.copies, t)
<1> DEFINE n == [s EXCEPT !.copies = AllStale(s.copies)]
<1>1. n.copies = AllStale(s.copies) /\ SameBut(n, s, "copies")
  BY PeerCopies DEF IsPeer
<1> HIDE DEF n
<1>2. /\ DOMAIN n.copies = DOMAIN s.copies
      /\ \A t \in DOMAIN s.copies : n.copies[t] \in CopyRecord /\ n.copies[t].stale
                                    /\ n.copies[t].version = s.copies[t].version /\ n.copies[t].data = s.copies[t].data
  BY <1>1, StaleParts
<1>3. IsPeer(n)
  BY <1>1, <1>2 DEF SameBut, IsPeer
<1>4. ASSUME NEW rs, NEW c PROVE GenuineCopies(rs, c, n.copies)
  BY <1>2 DEF GenuineCopies
<1>5. ASSUME NEW rs, NEW t, HeldCopy(rs, s.copies, t) PROVE HeldCopy(rs, n.copies, t)
  BY <1>2, <1>5 DEF HeldCopy
<1> QED BY <1>1, <1>3, <1>4, <1>5 DEF n

\* Copies that a genuine digest lists are genuine.
LEMMA ListedCopies ==
    ASSUME NEW rs, NEW c, NEW copies, NEW beat, GenuineEntries(rs, c, beat),
           \A t \in DOMAIN copies : <<t, copies[t].version, copies[t].data>> \in beat
    PROVE  GenuineCopies(rs, c, copies)
<1> SUFFICES ASSUME NEW t \in DOMAIN copies PROVE Genuine(rs, c, t, copies[t].version, copies[t].data)
  BY DEF GenuineCopies
<1> DEFINE e == <<t, copies[t].version, copies[t].data>>
<1>1. e \in beat /\ e[1] = t /\ e[2] = copies[t].version /\ e[3] = copies[t].data
  OBVIOUS
<1> HIDE DEF e
<1> QED BY <1>1 DEF GenuineEntries

\* Copies that are what the digest of the owner's records covers are the owner's records.
LEMMA CoveredCopies ==
    ASSUME NEW copies, DigestOf(copies) = Covered, NEW t \in Type
    PROVE  HeldCopy(records, copies, t)
<1>1. ASSUME t \in Live PROVE t \in DOMAIN copies /\ copies[t].version = records[t].version /\ copies[t].data = records[t].data
  <2>1. <<t, records[t].version, records[t].data>> \in DigestOf(copies)
    BY <1>1 DEF Covered
  <2> QED BY <2>1 DEF DigestOf
<1>2. ASSUME t \in DOMAIN copies PROVE t \in Live
  <2>1. <<t, copies[t].version, copies[t].data>> \in Covered
    BY <1>2 DEF DigestOf
  <2> QED BY <2>1 DEF Covered
<1> QED BY <1>1, <1>2 DEF HeldCopy, Live

\* The digest check, before the beat is gone.
LEMMA HeartbeatKeeps ==
    ASSUME NEW s, IsPeer(s), NEW c, GenuinePeer(records, c, s), s.beats # << >>
    PROVE  LET n == OnHeartbeat(s, Head(s.beats))
           IN /\ IsPeer(n) /\ n.rx = s.rx /\ n.online = s.online
              /\ n.online => n.suspect \/ GenuineCopies(records, c, n.copies)
              /\ n.online => \A t \in Type : PeerHolds(records, s, t) => n.suspect \/ HeldCopy(records, n.copies, t)
<1> DEFINE beat == Head(s.beats)
           n == OnHeartbeat(s, beat)
           u == [s EXCEPT !.suspect = s.suspect /\ beat # Covered]
           stale == StaleTypes(s.copies)
           fresh == Without(s.copies, stale)
<1>1. beat = s.beats[1] /\ 1 \in DOMAIN s.beats /\ GenuineEntries(records, c, beat)
  <2>1. s.beats \in Seq(Beat)
    BY DEF IsPeer
  <2>2. beat = s.beats[1] /\ 1 \in DOMAIN s.beats
    BY <2>1
  <2> QED BY <2>2 DEF GenuinePeer, GenuineBeats
<1> HIDE DEF beat
<1>2. CASE ~s.online \/ s.overflowed
  <2>1. n = s
    BY <1>2 DEF OnHeartbeat, DigestDiffers
  <2> QED BY <2>1 DEF PeerHolds, GenuinePeer, beat
<1>3. CASE ~(~s.online \/ s.overflowed) /\ DigestDiffers(s, beat)
  <2>1. n = [s EXCEPT !.copies = AllStale(s.copies)]
    BY <1>3 DEF OnHeartbeat
  <2>2. IsPeer(n) /\ SameBut(n, s, "copies") /\ GenuineCopies(records, c, n.copies)
        /\ \A t : HeldCopy(records, s.copies, t) => HeldCopy(records, n.copies, t)
    BY <2>1, AllStaleKeeps
  <2> HIDE DEF n
  <2> QED BY <2>2 DEF n, beat, SameBut, PeerHolds
<1>4. u.suspect = (s.suspect /\ beat # Covered) /\ SameBut(u, s, "suspect")
  BY PeerSuspect DEF IsPeer
<1> HIDE DEF u
<1>5. IsPeer(u) /\ u.copies = s.copies /\ u.rx = s.rx /\ u.online = s.online
  BY <1>4 DEF SameBut, IsPeer
<1>6. CASE s.online /\ DigestOf(s.copies) = beat /\ n = [u EXCEPT !.copies = NoneStale(u.copies)]
  <2>1. n.copies = NoneStale(s.copies) /\ SameBut(n, u, "copies")
    <3>1. PeerShape(u) /\ NoneStale(u.copies) = NoneStale(s.copies)
      BY <1>5 DEF IsPeer
    <3>2. LET m == [u EXCEPT !.copies = NoneStale(u.copies)] IN m.copies = NoneStale(u.copies) /\ SameBut(m, u, "copies")
      BY <3>1, PeerCopies
    <3> HIDE DEF n
    <3> QED BY <3>1, <3>2, <1>6
  <2> HIDE DEF n
  <2>2. /\ DOMAIN n.copies = DOMAIN s.copies
        /\ \A t \in DOMAIN s.copies : n.copies[t] \in CopyRecord
                                      /\ n.copies[t].version = s.copies[t].version /\ n.copies[t].data = s.copies[t].data
    BY <2>1, StaleParts
  <2>3. IsPeer(n)
    BY <2>1, <2>2, <1>5 DEF SameBut, IsPeer
  <2>4. GenuineCopies(records, c, n.copies)
    BY <2>2, <1>1, <1>6, ListedCopies DEF DigestOf
  <2>5. ASSUME NEW t \in Type, PeerHolds(records, s, t), ~n.suspect PROVE HeldCopy(records, n.copies, t)
    <3>1. HeldCopy(records, s.copies, t)
      BY <2>1, <2>5, <1>4, <1>6, CoveredCopies DEF SameBut, PeerHolds
    <3> QED BY <3>1, <2>2 DEF HeldCopy
  <2> QED BY <2>1, <2>3, <2>4, <2>5, <1>5 DEF n, beat, SameBut
<1>7. CASE s.online /\ DigestOf(fresh) = beat /\ n = RemoveRemoteRecords(u, stale)
  <2>1. SameBut(n, u, "copies") /\ DOMAIN n.copies = DOMAIN s.copies \ stale /\ \A t \in DOMAIN n.copies : n.copies[t] = s.copies[t]
    BY <1>5, <1>7, RemoveParts DEF IsPeer
  <2> HIDE DEF n
  <2>2. IsPeer(n)
    BY <2>1, <1>5 DEF SameBut, IsPeer
  <2>3. DOMAIN fresh = DOMAIN n.copies /\ \A t \in DOMAIN n.copies : fresh[t] = n.copies[t]
    BY <2>1 DEF Without
  <2> HIDE DEF fresh, stale
  <2>4. DigestOf(n.copies) = beat
    BY <2>3, <1>7 DEF DigestOf
  <2>5. GenuineCopies(records, c, n.copies)
    BY <2>4, <1>1, ListedCopies DEF DigestOf
  <2>6. ASSUME NEW t \in Type, PeerHolds(records, s, t), ~n.suspect PROVE HeldCopy(records, n.copies, t)
    <3>1. CASE s.suspect
      BY <3>1, <2>1, <2>4, <2>6, <1>4, CoveredCopies DEF SameBut
    <3>2. CASE ~s.suspect
      <4>1. HeldCopy(records, s.copies, t) /\ StaleIsCovered(records, t, s.copies, s.beats)
        BY <3>2, <2>6 DEF PeerHolds
      <4>2. ASSUME t \in DOMAIN s.copies, t \notin DOMAIN n.copies PROVE FALSE
        <5>1. s.copies[t].stale
          BY <4>2, <2>1 DEF stale, StaleTypes
        <5>2. Entry(records, t) \in DigestOf(n.copies)
          BY <5>1, <4>1, <4>2, <2>4, <1>1 DEF StaleIsCovered
        <5> QED BY <5>2, <4>2 DEF DigestOf, Entry
      <4> QED BY <4>1, <4>2, <2>1 DEF HeldCopy
    <3> QED BY <3>1, <3>2
  <2> QED BY <2>1, <2>2, <2>5, <2>6, <1>5 DEF n, beat, SameBut
<1>8. CASE ~(~s.online \/ s.overflowed) /\ ~DigestDiffers(s, beat)
  <2>1. n = IF DigestOf(s.copies) = beat THEN [u EXCEPT !.copies = NoneStale(u.copies)]
            ELSE RemoveRemoteRecords(u, stale)
    BY <1>8 DEF OnHeartbeat, u
  <2>2. s.online /\ (DigestOf(s.copies) # beat => DigestOf(fresh) = beat)
    BY <1>8 DEF DigestDiffers, MatchesWithoutStale
  <2> QED BY <2>1, <2>2, <1>6, <1>7
<1> QED BY <1>2, <1>3, <1>8

\* Sequences: joined, and cut.
LEMMA Joined ==
    ASSUME NEW S, NEW a \in Seq(S), NEW b \in Seq(S)
    PROVE  /\ a \o b \in Seq(S) /\ DOMAIN (a \o b) = 1 .. Len(a) + Len(b) /\ Len(a \o b) = Len(a) + Len(b)
           /\ Len(a) \in Nat /\ Len(b) \in Nat
           /\ \A i \in DOMAIN (a \o b) : IF i <= Len(a) THEN i \in DOMAIN a /\ (a \o b)[i] = a[i]
                                         ELSE i - Len(a) \in DOMAIN b /\ (a \o b)[i] = b[i - Len(a)]
OBVIOUS

\* The part of a sequence that fits a queue.
LEMMA Cut ==
    ASSUME NEW S, NEW a \in Seq(S), NEW m \in Nat, m <= Len(a), 1 <= m
    PROVE  /\ SubSeq(a, 1, m) \in Seq(S) /\ DOMAIN SubSeq(a, 1, m) = 1 .. m
           /\ \A i \in 1 .. m : i \in DOMAIN a /\ SubSeq(a, 1, m)[i] = a[i]
OBVIOUS

\* A full receive queue drops the last frames.
LEMMA QueueParts ==
    ASSUME NEW s, IsPeer(s), NEW frames \in Seq(Frame)
    PROVE  LET n == QueueFrames(s, frames)
           IN /\ IsPeer(n) /\ SameBut(n, s, "rx")
              /\ \A i \in DOMAIN n.rx : \/ i \in DOMAIN s.rx /\ n.rx[i] = s.rx[i]
                                        \/ /\ \A j \in DOMAIN s.rx : j < i
                                           /\ \E j \in DOMAIN frames : n.rx[i] = frames[j]
<1> DEFINE rx == IF Len(s.rx) + Len(frames) <= MaxQueue THEN s.rx \o frames ELSE SubSeq(s.rx \o frames, 1, MaxQueue)
           n == [s EXCEPT !.rx = rx]
<1>1. s.rx \in Seq(Frame) /\ PeerShape(s)
  BY DEF IsPeer
<1> DEFINE all == s.rx \o frames
<1>2. rx \in Seq(Frame) /\ \A i \in DOMAIN rx : i \in DOMAIN all /\ rx[i] = all[i]
  <2>1. all \in Seq(Frame) /\ Len(all) = Len(s.rx) + Len(frames) /\ Len(s.rx) \in Nat /\ Len(frames) \in Nat
    BY <1>1, Joined
  <2>2. CASE Len(s.rx) + Len(frames) <= MaxQueue
    BY <2>1, <2>2
  <2>3. CASE ~(Len(s.rx) + Len(frames) <= MaxQueue)
    <3>1. rx = SubSeq(all, 1, MaxQueue) /\ MaxQueue \in Nat /\ MaxQueue <= Len(all) /\ 1 <= MaxQueue
      BY <2>1, <2>3, ReceiverAssumption
    <3> HIDE DEF all, rx
    <3> QED BY <2>1, <3>1, Cut
  <2> QED BY <2>2, <2>3
<1>3. \A i \in DOMAIN rx : \/ i \in DOMAIN s.rx /\ rx[i] = s.rx[i]
                           \/ /\ \A j \in DOMAIN s.rx : j < i
                              /\ \E j \in DOMAIN frames : rx[i] = frames[j]
  <2>1. \A j \in DOMAIN s.rx : j \in Nat /\ j <= Len(s.rx)
    BY <1>1
  <2>2. \A i \in DOMAIN all : i \in Nat
    BY <1>1, Joined
  <2>3. ASSUME NEW i \in DOMAIN rx
        PROVE  \/ i \in DOMAIN s.rx /\ rx[i] = s.rx[i]
               \/ /\ \A j \in DOMAIN s.rx : j < i
                  /\ \E j \in DOMAIN frames : rx[i] = frames[j]
    <3>1. i \in DOMAIN all /\ rx[i] = all[i] /\ i \in Nat /\ Len(s.rx) \in Nat
      BY <1>1, <1>2, <2>2, Joined
    <3>2. IF i <= Len(s.rx) THEN i \in DOMAIN s.rx /\ all[i] = s.rx[i]
          ELSE i - Len(s.rx) \in DOMAIN frames /\ all[i] = frames[i - Len(s.rx)]
      BY <1>1, <3>1, Joined
    <3> HIDE DEF all, rx
    <3>3. CASE i <= Len(s.rx)
      BY <3>1, <3>2, <3>3
    <3>4. CASE ~(i <= Len(s.rx))
      <4>1. \A j \in DOMAIN s.rx : j < i
        BY <2>1, <3>1, <3>4
      <4> QED BY <4>1, <3>1, <3>2, <3>4
    <3> QED BY <3>3, <3>4
  <2> QED BY <2>3
<1> HIDE DEF rx
<1>4. n.rx = rx /\ SameBut(n, s, "rx")
  BY <1>1, PeerFrames
<1>5. QueueFrames(s, frames) = n
  BY DEF QueueFrames, rx
<1> HIDE DEF n
<1>6. IsPeer(n)
  BY <1>2, <1>4 DEF IsPeer, SameBut
<1> QED BY <1>3, <1>4, <1>5, <1>6

\* Notifications of records in use join the queue.
LEMMA QueueKeeps ==
    ASSUME NEW rs, NEW c \in Version, RecordsFit(rs), \A t, u \in Used(rs) : t # u => rs[t].version # rs[u].version,
           NEW s, IsPeer(s), GenuinePeer(rs, c, s), NEW n, SameBut(n, s, "rx"),
           \A i \in DOMAIN n.rx : \/ i \in DOMAIN s.rx /\ n.rx[i] = s.rx[i]
                                  \/ /\ \A j \in DOMAIN s.rx : j < i
                                     /\ \E t \in Used(rs) : n.rx[i] = [type |-> t, version |-> rs[t].version, data |-> rs[t].data],
           DOMAIN n.rx \subseteq Nat, DOMAIN s.rx \subseteq Nat
    PROVE  GenuinePeer(rs, c, n) /\ \A t \in Used(rs) : PeerHolds(rs, s, t) => PeerHolds(rs, n, t)
<1>0. ASSUME NEW i \in DOMAIN n.rx, i \notin DOMAIN s.rx
      PROVE  /\ \A j \in DOMAIN s.rx : j < i
             /\ n.rx[i].type \in Used(rs) /\ n.rx[i].version = rs[n.rx[i].type].version /\ n.rx[i].data = rs[n.rx[i].type].data
  <2>1. PICK t \in Used(rs) : n.rx[i] = [type |-> t, version |-> rs[t].version, data |-> rs[t].data]
    BY <1>0
  <2>2. n.rx[i].type = t /\ n.rx[i].version = rs[t].version /\ n.rx[i].data = rs[t].data
    BY <2>1
  <2> QED BY <1>0, <2>2
<1>a. ASSUME NEW i \in DOMAIN n.rx, i \in DOMAIN s.rx PROVE n.rx[i] = s.rx[i]
  BY <1>a
<1>1. /\ n.copies = s.copies /\ n.beats = s.beats /\ n.online = s.online /\ n.suspect = s.suspect
      /\ GenuineQueue(rs, c, s.rx) /\ InOrder(c, s.rx)
  BY DEF SameBut, GenuinePeer
<1>2. ASSUME NEW i \in DOMAIN n.rx
      PROVE  Genuine(rs, c, n.rx[i].type, n.rx[i].version, n.rx[i].data)
  <2>1. CASE i \in DOMAIN s.rx
    BY <2>1, <1>a, <1>1, <1>2 DEF GenuineQueue
  <2>2. CASE i \notin DOMAIN s.rx
    <3> DEFINE t == n.rx[i].type
    <3>1. t \in Used(rs) /\ n.rx[i].version = rs[t].version /\ n.rx[i].data = rs[t].data /\ rs[t].version \in Version
      BY <1>0, <1>2, <2>2 DEF RecordsFit
    <3> HIDE DEF t
    <3>2. Distance(rs[t].version, c) \in Version
      BY <3>1, DistanceFacts
    <3>3. Distance(rs[t].version, c) >= Distance(rs[t].version, c)
      BY <3>2 DEF Version
    <3> QED BY <3>1, <3>3 DEF Genuine, t
  <2> QED BY <2>1, <2>2
<1>3. InOrder(c, n.rx)
  <2> SUFFICES ASSUME NEW i \in DOMAIN n.rx, NEW j \in DOMAIN n.rx, i < j, n.rx[i].type = n.rx[j].type
               PROVE  Distance(n.rx[i].version, c) >= Distance(n.rx[j].version, c)
    BY DEF InOrder
  <2>1. CASE j \in DOMAIN s.rx
    <3>1. i \in DOMAIN s.rx
      BY <2>1, <1>0
    <3> QED BY <3>1, <2>1, <1>a, <1>1 DEF InOrder
  <2>2. CASE j \notin DOMAIN s.rx
    <3>1. n.rx[i].type \in Used(rs) /\ n.rx[j].version = rs[n.rx[i].type].version
      BY <1>0, <2>2
    <3>2. Genuine(rs, c, n.rx[i].type, n.rx[i].version, n.rx[i].data)
      BY <1>2
    <3> QED BY <3>1, <3>2 DEF Genuine
  <2> QED BY <2>1, <2>2
<1>4. ASSUME NEW t \in Used(rs), PeerHolds(rs, s, t) PROVE PeerHolds(rs, n, t)
  <2>1. CurrentFrames(rs, t, n.rx)
    <3> SUFFICES ASSUME NEW i \in DOMAIN n.rx, n.rx[i].type = t PROVE n.rx[i].version = rs[t].version
      BY DEF CurrentFrames
    <3> QED BY <1>0, <1>a, <1>4 DEF PeerHolds, CurrentFrames
  <2> QED BY <2>1, <1>1, <1>4 DEF PeerHolds
<1> QED BY <1>1, <1>2, <1>3, <1>4 DEF GenuinePeer, GenuineQueue

\* A notification says what the record says.
LEMMA NotificationFrame ==
    ASSUME IndInv, NEW t \in Type
    PROVE  Notification(t) \in Frame
BY DEF Notification, Frame, IndInv, LocalTypeOK, Record

\* Announcements, resends and replays reach the queues.
LEMMA BroadcastParts ==
    ASSUME IndInv, NetTypes, NEW types, types \subseteq InUse, Broadcast(types)
    PROVE  /\ DOMAIN peer' = Peer
           /\ \A p \in Peer :
                 /\ IsPeer(peer'[p]) /\ SameBut(peer'[p], peer[p], "rx")
                 /\ \A i \in DOMAIN peer'[p].rx : \/ i \in DOMAIN peer[p].rx /\ peer'[p].rx[i] = peer[p].rx[i]
                                                  \/ /\ \A j \in DOMAIN peer[p].rx : j < i
                                                     /\ \E t \in InUse : peer'[p].rx[i] = Notification(t)
<1>1. PICK order \in InTypeOrder(types) :
         peer' = [p \in Peer |-> IF p \in Listening THEN QueueFrames(peer[p], [i \in DOMAIN order |-> Notification(order[i])]) ELSE peer[p]]
  BY DEF Broadcast
<1> DEFINE frames == [i \in DOMAIN order |-> Notification(order[i])]
<1>2. order \in [1 .. Cardinality(types) -> types]
  BY DEF InTypeOrder
<1>3. types \subseteq Type /\ Cardinality(types) \in Nat
  BY FS_Subset, FS_CardinalityType, TypeAssumption DEF InUse
<1>4. \A i \in 1 .. Cardinality(types) : order[i] \in types /\ Notification(order[i]) \in Frame
  BY <1>2, <1>3, NotificationFrame
<1>5. DOMAIN order = 1 .. Cardinality(types)
  BY <1>2
<1>6. frames \in Seq(Frame) /\ \A i \in DOMAIN frames : \E t \in InUse : frames[i] = Notification(t)
  BY <1>3, <1>4, <1>5
<1>7. peer' = [p \in Peer |-> IF p \in Listening THEN QueueFrames(peer[p], frames) ELSE peer[p]]
  BY <1>1
<1> HIDE DEF frames
<1>8. ASSUME NEW p \in Peer
      PROVE  /\ IsPeer(peer'[p]) /\ SameBut(peer'[p], peer[p], "rx")
             /\ \A i \in DOMAIN peer'[p].rx : \/ i \in DOMAIN peer[p].rx /\ peer'[p].rx[i] = peer[p].rx[i]
                                              \/ /\ \A j \in DOMAIN peer[p].rx : j < i
                                                 /\ \E t \in InUse : peer'[p].rx[i] = Notification(t)
  <2>0. IsPeer(peer[p])
    BY DEF NetTypes
  <2>1. CASE peer'[p] = peer[p]
    BY <2>0, <2>1 DEF SameBut, IsPeer
  <2>2. CASE peer'[p] = QueueFrames(peer[p], frames)
    BY <2>0, <2>2, <1>6, QueueParts
  <2> QED BY <1>7, <2>1, <2>2
<1> QED BY <1>7, <1>8

\* The owner's records say what their states allow, under distinct versions.
LEMMA RecordsFitNow ==
    ASSUME IndInv, OwnerFits
    PROVE  RecordsFit(records) /\ Used(records) = InUse /\ \A t, u \in Used(records) : t # u => records[t].version # records[u].version
<1>1. records \in [Type -> Record]
  BY DEF IndInv, LocalTypeOK
<1>2. Used(records) = InUse
  BY DEF Used, InUse
<1>3. \A t \in Type : records[t].version \in Version
  BY <1>1 DEF Record
<1> QED BY <1>2, <1>3 DEF OwnerFits, RecordsFit, VersionsDistinct, DataFits, InUse

\* Announcements, resends and replays leave the network connected: they say what the records say.
LEMMA BroadcastKeeps ==
    ASSUME IndInv, NetTypes, OwnerFits, Unlocked, NEW types, types \subseteq InUse, Broadcast(types),
           Connected(records, counter, digest, peer, responses, acked),
           NEW ak, \A t \in Type : ak[t] \subseteq acked[t]
    PROVE  Connected(records, counter, digest, peer', responses, ak)
<1>1. counter \in Version /\ RecordsFit(records) /\ Used(records) = InUse
      /\ \A t, u \in Used(records) : t # u => records[t].version # records[u].version
  BY RecordsFitNow DEF IndInv, LocalTypeOK
<1>2. ASSUME NEW p \in Peer
      PROVE  /\ GenuinePeer(records, counter, peer'[p])
             /\ \A t \in Used(records) : PeerHolds(records, peer[p], t) => PeerHolds(records, peer'[p], t)
             /\ peer'[p].online = peer[p].online
             /\ \A i \in DOMAIN peer'[p].rx : \/ \E j \in DOMAIN peer[p].rx : peer'[p].rx[i].version = peer[p].rx[j].version
                                              \/ \E t \in InUse : peer'[p].rx[i].version = records[t].version
  <2>0. IsPeer(peer[p]) /\ IsPeer(peer'[p]) /\ SameBut(peer'[p], peer[p], "rx")
    BY BroadcastParts DEF NetTypes
  <2>1. \A i \in DOMAIN peer'[p].rx : \/ i \in DOMAIN peer[p].rx /\ peer'[p].rx[i] = peer[p].rx[i]
                                      \/ /\ \A j \in DOMAIN peer[p].rx : j < i
                                         /\ \E t \in InUse : peer'[p].rx[i] = Notification(t)
    BY BroadcastParts
  <2>2. DOMAIN peer[p].rx \subseteq Nat /\ DOMAIN peer'[p].rx \subseteq Nat
    <3>1. \A q : q \in Seq(Frame) => DOMAIN q \subseteq Nat
      OBVIOUS
    <3> QED BY <2>0, <3>1 DEF IsPeer
  <2>3. GenuinePeer(records, counter, peer[p])
    BY DEF Connected
  <2>4. \A t : Notification(t) = [type |-> t, version |-> records[t].version, data |-> records[t].data]
               /\ Notification(t).version = records[t].version
    BY DEF Notification
  <2>5. /\ GenuinePeer(records, counter, peer'[p])
        /\ \A t \in Used(records) : PeerHolds(records, peer[p], t) => PeerHolds(records, peer'[p], t)
    BY <1>1, <2>0, <2>1, <2>2, <2>3, <2>4, QueueKeeps
  <2> QED BY <2>0, <2>1, <2>4, <2>5 DEF SameBut
<1>3. ASSUME NEW t \in Live PROVE Entry(records, t) \in digest
  BY <1>3 DEF IndInv, DigestCurrent, Covered, Entry
<1>4. \A t \in Used(records) : records[t].state = "live" => Entry(records, t) \in digest \/ ak[t] \subseteq acked[t]
  BY DEF Used
<1>5. \A p \in Peer : \A i \in DOMAIN peer'[p].rx :
              \/ \E j \in DOMAIN peer[p].rx : peer'[p].rx[i].version = peer[p].rx[j].version
              \/ \A t \in Used(records) : records[t].state = "live" /\ records[t].version = peer'[p].rx[i].version => Entry(records, t) \in digest
  BY <1>3 DEF Used, Live
<1>6. ASSUME NEW p \in Peer, NEW t \in Used(records), peer'[p].online, Answered(records, responses, ak, p, t)
      PROVE  PeerHolds(records, peer'[p], t)
  <2>1. Answered(records, responses, acked, p, t) /\ peer[p].online
    BY <1>2, <1>6 DEF Answered, Used
  <2>2. PeerHolds(records, peer[p], t)
    BY <2>1 DEF Connected
  <2> QED BY <2>2, <1>2
<1> QED BY <1>2, <1>4, <1>5, <1>6, NetPeers

\* One iteration of the refresh stamps one record, or none.
LEMMA RefreshStamps ==
    ASSUME IndInv, RefreshNext
    PROVE  /\ ~Unlocked /\ ~Unlocked' /\ UNCHANGED <<digest, online>>
           /\ \/ \E i \in Type \ refreshed :
                    /\ StampedOne(records, counter, records', i) /\ counter' = NextVersion(counter)
                    /\ records'[i].state = "live" /\ records'[i].data = records[i].data /\ records[i].state = "live"
                    /\ records'[i].announce
                    /\ refreshed' = refreshed \cup {i}
              \/ UNCHANGED <<records, counter, refreshed>>
<1>1. ~Unlocked /\ UNCHANGED <<digest, online, announceAll, changing>>
  BY DEF RefreshNext
<1>2. PICK i \in InUse \ visited :
          IF IsLagging(i)
             THEN /\ records' = [records EXCEPT ![i] = Stamped(records[i])]
                  /\ counter' = NextVersion(counter)
                  /\ refreshed' = refreshed \cup {i}
             ELSE UNCHANGED <<records, counter, refreshed, stamp>>
  BY DEF RefreshNext
<1>3. CASE IsLagging(i)
  <2>1. records \in [Type -> Record] /\ i \in Type /\ i \notin refreshed
    BY <1>1 DEF IndInv, LocalTypeOK, MidChange, RefreshOrder, InUse
  <2>2. records[i] \in Record /\ records'[i] = Stamped(records[i]) /\ \A t \in Type \ {i} : records'[t] = records[t]
    BY <1>2, <1>3, <2>1
  <2>3. /\ records'[i].version = NextVersion(counter) /\ records'[i].announce
        /\ records'[i].state = records[i].state /\ records'[i].data = records[i].data
    BY <2>2 DEF Stamped, Record
  <2>4. records[i].state = "live"
    BY <1>3 DEF IsLagging, Live
  <2>5. StampedOne(records, counter, records', i)
    BY <2>1, <2>2, <2>3 DEF StampedOne, KeptRecord
  <2> QED BY <1>1, <1>2, <1>3, <2>1, <2>3, <2>4, <2>5 DEF Unlocked
<1>4. CASE ~IsLagging(i)
  BY <1>1, <1>2, <1>4 DEF Unlocked
<1> QED BY <1>3, <1>4

\* What the records say and what the digest covers keep their types.
OwnerTypes == DataFits /\ digest \in Beat

\* Every step of the owner keeps the types of its records' data and of its digest.
LEMMA OwnerTypesStep ==
    ASSUME IndInv, OwnerTypes, [LocalNext]_localVars
    PROVE  OwnerTypes'
<1>1. ASSUME NEW t \in Type, ClearLocalState(t) \/ \E data \in Data : SetLocalState(t, data) PROVE OwnerTypes'
  BY <1>1, ChangeStamps DEF OwnerTypes, DataFits, StampedOne, KeptRecord
<1>2. CASE RefreshNext
  BY <1>2, RefreshStamps DEF OwnerTypes, DataFits, StampedOne, KeptRecord
<1>3. CASE FinishChange
  <2>1. records' = records /\ digest' = Covered
    BY <1>3 DEF FinishChange
  <2>2. \A t \in Live : t \in Type /\ records[t].version \in Version /\ records[t].data \in Data
    BY DEF IndInv, LocalTypeOK, Record, OwnerTypes, DataFits, Live
  <2>3. Covered \in Beat
    BY <2>2 DEF Covered, Beat
  <2> QED BY <2>1, <2>3 DEF OwnerTypes, DataFits
<1>4. CASE QuietStep
  BY <1>4 DEF QuietStep, OwnerTypes, DataFits, Free
<1>5. CASE Reboot
  <2>1. records' = [t \in Type |-> Free] /\ digest' = {}
    BY <1>5 DEF Reboot
  <2> QED BY <2>1 DEF OwnerTypes, DataFits, Free, Beat
<1>6. CASE UNCHANGED localVars
  BY <1>6 DEF localVars, OwnerTypes, DataFits
<1>7. ASSUME NEW peers \in SUBSET Peer, NEW due \in SUBSET Type, Transmit(peers, due) PROVE QuietStep
  BY <1>7, TransmitIsQuiet
<1>8. ASSUME NEW q \in Peer, DropPeer(q) PROVE QuietStep
  BY <1>8, DropPeerIsQuiet
<1>9. ASSUME NEW q \in Peer, NEW version \in Version, ProcessResponse(q, version) PROVE QuietStep
  BY <1>9, ResponseIsQuiet
<1>10. CASE EnterOnline \/ LeaveOnline
  BY <1>4, <1>10, OnlineIsQuiet
<1> QED BY <1>1, <1>2, <1>3, <1>4, <1>5, <1>6, <1>7, <1>8, <1>9, <1>10 DEF LocalNext

-----------------------------------------------------------------------------
(* The types of a peer *)

\* ApplyRemoteRecord() keeps the types of a peer.
LEMMA ApplyIsPeer ==
    ASSUME NEW s, IsPeer(s), s.known, NEW m \in Frame
    PROVE  IsPeer(ApplyRecord(s, m))
<1> DEFINE n == ApplyRecord(s, m)
<1>0. PeerShape(s) /\ m.type \in Type /\ m.version \in Version /\ m.data \in Data \cup {NoData}
  BY DEF IsPeer, Frame
<1>1. CASE n = s
  BY <1>1
<1>2. CASE n.suspect = TRUE /\ SameBut(n, s, "suspect")
  <2> HIDE DEF n
  <2>1. IsPeer(n)
    BY <1>2 DEF SameBut, IsPeer
  <2> QED BY <2>1 DEF n
<1>3. CASE /\ SameBut(n, s, "copies") /\ DOMAIN n.copies = DOMAIN s.copies \ {m.type}
           /\ \A t \in DOMAIN n.copies : n.copies[t] = s.copies[t]
  <2> HIDE DEF n
  <2>1. IsPeer(n)
    BY <1>3 DEF SameBut, IsPeer
  <2> QED BY <2>1 DEF n
<1>4. CASE /\ m.data # NoData /\ SameBut(n, s, "copies") /\ DOMAIN n.copies = DOMAIN s.copies \cup {m.type}
           /\ \A t \in DOMAIN n.copies \ {m.type} : n.copies[t] = s.copies[t]
           /\ n.copies[m.type] = Copy(m)
  <2> HIDE DEF n
  <2>1. Copy(m) \in CopyRecord
    BY <1>0, <1>4 DEF Copy, CopyRecord
  <2>2. DOMAIN n.copies \subseteq Type /\ \A t \in DOMAIN n.copies : n.copies[t] \in CopyRecord
    BY <1>0, <1>4, <2>1 DEF IsPeer
  <2>3. IsPeer(n)
    BY <1>4, <2>2 DEF SameBut, IsPeer
  <2> QED BY <2>3 DEF n
<1> QED BY ZenonT(40), <1>0, <1>1, <1>2, <1>3, <1>4, ApplyCases

\* The digest check keeps the types of a peer, its frames and its network state.
LEMMA HeartbeatIsPeer ==
    ASSUME NEW s, IsPeer(s), NEW beat
    PROVE  IsPeer(OnHeartbeat(s, beat)) /\ OnHeartbeat(s, beat).rx = s.rx /\ OnHeartbeat(s, beat).online = s.online
<1> DEFINE n == OnHeartbeat(s, beat)
           u == [s EXCEPT !.suspect = s.suspect /\ beat # Covered]
<1>1. u.suspect = (s.suspect /\ beat # Covered) /\ SameBut(u, s, "suspect")
  BY PeerSuspect DEF IsPeer
<1>2. n = s \/ n = [s EXCEPT !.copies = AllStale(s.copies)]
      \/ n = [u EXCEPT !.copies = NoneStale(u.copies)] \/ n = RemoveRemoteRecords(u, StaleTypes(s.copies))
  BY DEF OnHeartbeat
<1> HIDE DEF u
<1>3. IsPeer(u) /\ PeerShape(u) /\ u.rx = s.rx /\ u.online = s.online
  BY <1>1 DEF SameBut, IsPeer
<1>4. CASE n = s
  BY <1>4
<1>5. CASE n = [s EXCEPT !.copies = AllStale(s.copies)]
  BY <1>5, AllStaleKeeps DEF SameBut
<1>6. CASE n = [u EXCEPT !.copies = NoneStale(u.copies)]
  <2>1. n.copies = NoneStale(u.copies) /\ SameBut(n, u, "copies")
    BY <1>3, <1>6, PeerCopies
  <2> HIDE DEF n
  <2>2. DOMAIN n.copies = DOMAIN u.copies /\ \A t \in DOMAIN u.copies : n.copies[t] \in CopyRecord
    BY <2>1, <1>3, StaleParts
  <2>3. IsPeer(n)
    BY <2>1, <2>2, <1>3 DEF SameBut, IsPeer
  <2> QED BY <2>1, <2>3, <1>3 DEF n, SameBut
<1>7. CASE n = RemoveRemoteRecords(u, StaleTypes(s.copies))
  <2>1. SameBut(n, u, "copies") /\ DOMAIN n.copies \subseteq DOMAIN u.copies /\ \A t \in DOMAIN n.copies : n.copies[t] = u.copies[t]
    BY <1>3, <1>7, RemoveParts
  <2> HIDE DEF n
  <2>2. IsPeer(n)
    BY <2>1, <1>3 DEF SameBut, IsPeer
  <2> QED BY <2>1, <2>2, <1>3 DEF n, SameBut
<1> QED BY <1>2, <1>4, <1>5, <1>6, <1>7

\* A peer that stopped is a peer with nothing.
LEMMA OfflineIsPeer == IsPeer(Offline) /\ ~Offline.online /\ Offline.rx = << >>
<1>1. PeerShape(Offline)
  BY DEF Offline, PeerShape
<1>2. /\ Offline.online = FALSE /\ Offline.known = FALSE /\ Offline.suspect = FALSE /\ Offline.rx = << >> /\ Offline.beats = << >>
      /\ DOMAIN Offline.copies = {}
  BY DEF Offline, NoCopies
<1>3. << >> \in Seq(Frame) /\ << >> \in Seq(Beat)
  OBVIOUS
<1> QED BY <1>1, <1>2, <1>3 DEF IsPeer

\* The network service tells a peer about the owner or about itself, or a beat arrives.
LEMMA PeerNews ==
    ASSUME NEW s, PeerShape(s), NEW flag
    PROVE  /\ [s EXCEPT !.known = flag].known = flag /\ SameBut([s EXCEPT !.known = flag], s, "known")
           /\ [s EXCEPT !.online = flag].online = flag /\ SameBut([s EXCEPT !.online = flag], s, "online")
           /\ [s EXCEPT !.beats = flag].beats = flag /\ SameBut([s EXCEPT !.beats = flag], s, "beats")
<1>1. [s EXCEPT !.known = flag].known = flag /\ SameBut([s EXCEPT !.known = flag], s, "known")
  BY DEF PeerShape, SameBut
<1>2. [s EXCEPT !.online = flag].online = flag /\ SameBut([s EXCEPT !.online = flag], s, "online")
  BY DEF PeerShape, SameBut
<1>3. [s EXCEPT !.beats = flag].beats = flag /\ SameBut([s EXCEPT !.beats = flag], s, "beats")
  BY DEF PeerShape, SameBut
<1> QED BY <1>1, <1>2, <1>3

\* LEFT drops the owner's copies and keeps the frames in the queue.
LEMMA LeftParts ==
    ASSUME NEW s, PeerShape(s)
    PROVE  /\ PeerShape(OnLeft(s)) /\ OnLeft(s).online = s.online /\ OnLeft(s).rx = s.rx /\ OnLeft(s).beats = s.beats
           /\ OnLeft(s).suspect = FALSE /\ OnLeft(s).copies = NoCopies /\ OnLeft(s).known = FALSE
<1> DEFINE a == [s EXCEPT !.known = FALSE]
           b == [a EXCEPT !.copies = NoCopies]
           f == [b EXCEPT !.overflowed = FALSE]
           d == [f EXCEPT !.limited = FALSE]
           e == [d EXCEPT !.suspect = FALSE]
<1>1. OnLeft(s) = e
  BY DEF OnLeft, PeerShape
<1>2. a.known = FALSE /\ SameBut(a, s, "known")
  BY PeerNews
<1> HIDE DEF a
<1>3. b.copies = NoCopies /\ SameBut(b, a, "copies")
  BY <1>2, PeerCopies DEF SameBut
<1> HIDE DEF b
<1>4. SameBut(f, b, "flag")
  BY <1>3, PeerFlags DEF SameBut
<1> HIDE DEF f
<1>5. SameBut(d, f, "flag")
  BY <1>4, PeerFlags DEF SameBut
<1> HIDE DEF d
<1>6. e.suspect = FALSE /\ SameBut(e, d, "suspect")
  BY <1>5, PeerSuspect DEF SameBut
<1> HIDE DEF e
<1> QED BY <1>1, <1>2, <1>3, <1>4, <1>5, <1>6 DEF SameBut

\* A change of one peer.
LEMMA OnePeer ==
    ASSUME NetTypes, NEW p \in Peer, NEW s, IsPeer(s), peer' = [peer EXCEPT ![p] = s]
    PROVE  DOMAIN peer' = Peer /\ peer'[p] = s /\ (\A q \in Peer : IsPeer(peer'[q])) /\ \A q \in Peer \ {p} : peer'[q] = peer[q]
<1>1. DOMAIN peer = Peer
  BY DEF NetTypes
<1>2. DOMAIN peer' = Peer /\ peer'[p] = s /\ \A q \in Peer \ {p} : peer'[q] = peer[q]
  BY <1>1
<1> QED BY <1>2 DEF NetTypes

\* The parts of a peer that its steps change one by one.
LEMMA PeerSteps ==
    ASSUME NEW s, IsPeer(s)
    PROVE  /\ s.online => IsPeer([s EXCEPT !.known = TRUE])
           /\ IsPeer([s EXCEPT !.online = TRUE])
           /\ \A flag \in BOOLEAN : IsPeer([s EXCEPT !.limited = flag]) /\ IsPeer([s EXCEPT !.suspect = flag])
           /\ \A beats \in Seq(Beat) : \A limited : IsPeer([s EXCEPT !.beats = beats, !.limited = limited])
           /\ \A beats \in Seq(Beat) : IsPeer([s EXCEPT !.beats = beats])
           /\ IsPeer(OnLeft(s)) /\ IsPeer(OnRestarted(s))
<1>0. PeerShape(s)
  BY DEF IsPeer
<1>1. ASSUME s.online PROVE IsPeer([s EXCEPT !.known = TRUE])
  <2> DEFINE n == [s EXCEPT !.known = TRUE]
  <2>1. n.known = TRUE /\ SameBut(n, s, "known")
    BY <1>0, PeerNews
  <2> HIDE DEF n
  <2>2. IsPeer(n)
    BY <1>1, <2>1 DEF SameBut, IsPeer
  <2> QED BY <2>2 DEF n
<1>2. ASSUME NEW flag \in BOOLEAN PROVE IsPeer([s EXCEPT !.limited = flag])
  <2> DEFINE n == [s EXCEPT !.limited = flag]
  <2>1. SameBut(n, s, "flag")
    BY <1>0, PeerFlags
  <2> HIDE DEF n
  <2>2. IsPeer(n)
    BY <2>1 DEF SameBut, IsPeer
  <2> QED BY <2>2 DEF n
<1>3. IsPeer([s EXCEPT !.online = TRUE])
  <2> DEFINE n == [s EXCEPT !.online = TRUE]
  <2>1. n.online = TRUE /\ SameBut(n, s, "online")
    BY <1>0, PeerNews
  <2> HIDE DEF n
  <2>2. IsPeer(n)
    BY <2>1 DEF SameBut, IsPeer
  <2> QED BY <2>2 DEF n
<1>4. ASSUME NEW flag \in BOOLEAN PROVE IsPeer([s EXCEPT !.suspect = flag])
  <2> DEFINE n == [s EXCEPT !.suspect = flag]
  <2>1. n.suspect = flag /\ SameBut(n, s, "suspect")
    BY <1>0, PeerSuspect
  <2> HIDE DEF n
  <2>2. IsPeer(n)
    BY <2>1 DEF SameBut, IsPeer
  <2> QED BY <2>2 DEF n
<1>5. ASSUME NEW n, NEW beats \in Seq(Beat), n.beats = beats, SameBut(n, s, "beats") PROVE IsPeer(n)
  BY <1>5 DEF SameBut, IsPeer
<1>6. ASSUME NEW beats \in Seq(Beat), NEW limited PROVE IsPeer([s EXCEPT !.beats = beats, !.limited = limited])
  BY <1>0, <1>5, PeerBeats
<1>7. ASSUME NEW beats \in Seq(Beat) PROVE IsPeer([s EXCEPT !.beats = beats])
  BY <1>0, <1>5, PeerNews
<1>8. IsPeer(OnLeft(s))
  <2> DEFINE n == OnLeft(s)
  <2>1. /\ PeerShape(n) /\ n.online = s.online /\ n.rx = s.rx /\ n.beats = s.beats
        /\ n.suspect = FALSE /\ n.copies = NoCopies /\ n.known = FALSE
    BY <1>0, LeftParts
  <2> HIDE DEF n
  <2>2. DOMAIN NoCopies = {}
    BY DEF NoCopies
  <2>3. IsPeer(n)
    BY <2>1, <2>2 DEF IsPeer
  <2> QED BY <2>3 DEF n
<1>9. IsPeer(OnRestarted(s))
  BY AllStaleKeeps DEF OnRestarted
<1> QED BY <1>1, <1>2, <1>3, <1>4, <1>6, <1>7, <1>8, <1>9

AckTypes == DOMAIN acked = Type /\ \A t \in Type : acked[t] \subseteq Peer

\* A step of the network is a step of the owner's records, or leaves them alone.
LocalStep == LocalNext \/ UNCHANGED localVars

\* A stamp takes the acknowledgements of the stamped record away, and nobody acknowledges by it.
LEMMA AckedAfterLess ==
    ASSUME acked' = AckedAfter
    PROVE  DOMAIN acked' = Type /\ \A t \in Type : acked'[t] \subseteq acked[t] /\ (records'[t].announce => acked'[t] = {})
BY DEF AckedAfter

\* The frame a peer takes from its queue.
LEMMA HeadFrame ==
    ASSUME NetTypes, NEW p \in Peer, peer[p].rx # << >>
    PROVE  /\ Head(peer[p].rx) \in Frame /\ Head(peer[p].rx).version \in Version /\ Head(peer[p].rx) = peer[p].rx[1]
           /\ 1 \in DOMAIN peer[p].rx /\ IsPeer([peer[p] EXCEPT !.rx = Tail(@)])
<1>1. IsPeer(peer[p]) /\ peer[p].rx \in Seq(Frame)
  BY DEF NetTypes, IsPeer
<1>2. Head(peer[p].rx) = peer[p].rx[1] /\ 1 \in DOMAIN peer[p].rx
  BY <1>1, TailParts
<1>3. peer[p].rx[1] \in Frame /\ peer[p].rx[1].version \in Version
  BY <1>1, <1>2, PeerFields
<1>4. IsPeer([peer[p] EXCEPT !.rx = Tail(@)])
  BY <1>1, PeerDequeues
<1> QED BY <1>2, <1>3, <1>4

\* The owner's changes, its work queue and its heartbeat keep the types, and are steps of its records.
LEMMA OwnerTypesKept ==
    ASSUME IndInv, NetTypes, OwnerTypes, Change \/ OwnerWork \/ SendHeartbeat
    PROVE  NetTypes' /\ LocalStep
<1>1. CASE Change
  <2>1. NetTypes'
    BY <1>1, AckedAfterLess DEF Change, NetTypes
  <2>2. LocalNext
    BY <1>1 DEF Change, LocalNext
  <2> QED BY <2>1, <2>2 DEF LocalStep
<1>2. CASE Refresh
  <2>1. NetTypes'
    BY <1>2, AckedAfterLess DEF Refresh, NetTypes
  <2>2. LocalNext
    BY <1>2 DEF Refresh, LocalNext
  <2> QED BY <2>1, <2>2 DEF LocalStep
<1>3. CASE SendChanges
  <2>1. PICK due \in SUBSET Waiting :
          /\ Transmit(table, due) /\ Broadcast(Announced \cup due)
          /\ acked' = [t \in Type |-> IF t \in Announced \/ records'[t].state = "free" THEN {} ELSE acked[t]]
          /\ UNCHANGED <<table, responses>>
    BY <1>3 DEF SendChanges
  <2>2. due \subseteq InUse /\ Announced \subseteq InUse /\ InUse \subseteq Type /\ table \in SUBSET Peer
    BY DEF Waiting, Announced, InUse, NetTypes
  <2>3. DOMAIN peer' = Peer /\ \A p \in Peer : IsPeer(peer'[p])
    BY <2>1, <2>2, BroadcastParts
  <2>4. NetTypes'
    BY <2>1, <2>3 DEF NetTypes
  <2>5. LocalNext
    BY <2>1, <2>2 DEF LocalNext
  <2> QED BY <2>4, <2>5 DEF LocalStep
<1>4. CASE ReceiveResponse
  <2>1. PICK r \in responses :
          /\ ProcessResponse(r[1], r[2]) /\ responses' = responses \ {r}
          /\ acked' = [t \in Type |-> IF r[1] \in records[t].unacknowledged /\ records[t].version = r[2]
                                         /\ records'[t].state # "free"
                                      THEN acked[t] \cup {r[1]} ELSE acked[t]]
          /\ UNCHANGED <<peer, table>>
    BY <1>4 DEF ReceiveResponse
  <2>2. r[1] \in Peer /\ r[2] \in Version
    BY DEF NetTypes
  <2>3. NetTypes'
    BY <2>1, <2>2 DEF NetTypes
  <2>4. LocalNext
    BY <2>1, <2>2 DEF LocalNext
  <2> QED BY <2>3, <2>4 DEF LocalStep
<1>5. CASE ProcessSyncRequest
  <2>1. UNCHANGED <<localVars, table, responses, acked>> /\ ReplayRecords
    BY <1>5 DEF ProcessSyncRequest
  <2>2. DOMAIN peer' = Peer /\ \A p \in Peer : IsPeer(peer'[p])
    <3>1. CASE online
      <4>1. Live \subseteq InUse
        BY DEF Live, InUse
      <4> QED BY <2>1, <3>1, <4>1, BroadcastParts DEF ReplayRecords
    <3>2. CASE ~online
      BY <2>1, <3>2 DEF ReplayRecords, NetTypes
    <3> QED BY <3>1, <3>2
  <2> QED BY <2>1, <2>2 DEF NetTypes, LocalStep
<1>6. CASE SendHeartbeat
  <2>1. /\ UNCHANGED <<localVars, table, responses, acked>>
        /\ peer' = [p \in Peer |-> IF p \in Listening THEN [peer[p] EXCEPT !.beats = <<digest>>] ELSE peer[p]]
    BY <1>6 DEF SendHeartbeat
  <2>2. <<digest>> \in Seq(Beat)
    BY DEF OwnerTypes
  <2>3. \A p \in Peer : IsPeer(peer'[p])
    BY <2>1, <2>2, PeerSteps DEF NetTypes
  <2> QED BY <2>1, <2>3 DEF NetTypes, LocalStep
<1> QED BY <1>1, <1>2, <1>3, <1>4, <1>5, <1>6 DEF OwnerWork

\* So do news of the network, stops, power losses and losses of frames,
LEMMA NewsTypesKept ==
    ASSUME IndInv, NetTypes, NetworkNews \/ OwnerLeaves \/ (\E p \in Peer : PeerLeaves(p)) \/ Loss
    PROVE  NetTypes' /\ LocalStep
<1>1. CASE AddPeer
  BY <1>1 DEF AddPeer, NetTypes, LocalStep, Listening
<1>2. CASE RemovePeer
  <2>1. PICK p \in table : DropPeer(p) /\ table' = table \ {p} /\ UNCHANGED <<peer, responses, acked>>
    BY <1>2 DEF RemovePeer
  <2>2. p \in Peer
    BY DEF NetTypes
  <2> QED BY <2>1, <2>2 DEF NetTypes, LocalStep, LocalNext
<1>3. CASE OwnerReturns
  <2>1. EnterOnline /\ UNCHANGED <<table, responses, acked>>
    BY <1>3 DEF OwnerReturns
  <2>2. \A p \in Peer : IsPeer(peer[p]) /\ IsPeer(OnRestarted(peer[p])) /\ IsPeer([peer[p] EXCEPT !.suspect = peer[p].suspect \/ peer[p].known])
    BY PeerSteps DEF NetTypes
  <2>3. DOMAIN peer' = Peer /\ \A p \in Peer : IsPeer(peer'[p])
    <3>1. CASE peer' = [p \in Peer |-> OnRestarted(peer[p])]
      BY <3>1, <2>2
    <3>2. CASE \E missed \in Peer : peer' = [p \in Peer |-> IF p = missed THEN [peer[p] EXCEPT !.suspect = peer[p].suspect \/ peer[p].known]
                                                       ELSE OnRestarted(peer[p])]
      BY <3>2, <2>2
    <3> QED BY <3>1, <3>2, <1>3 DEF OwnerReturns
  <2> QED BY <2>1, <2>3 DEF NetTypes, LocalStep, LocalNext
<1>4. ASSUME NEW p \in Peer, OwnerJoined(p) PROVE NetTypes' /\ LocalStep
  <2>1. /\ UNCHANGED <<localVars, table, responses, acked>> /\ peer' = [peer EXCEPT ![p] = [peer[p] EXCEPT !.known = TRUE]]
        /\ peer[p].online
    BY <1>4 DEF OwnerJoined
  <2>2. IsPeer([peer[p] EXCEPT !.known = TRUE])
    BY <2>1, PeerSteps DEF NetTypes
  <2> QED BY <2>1, <2>2, OnePeer DEF NetTypes, LocalStep
<1>5. ASSUME NEW p \in Peer, OwnerLeft(p) PROVE NetTypes' /\ LocalStep
  <2>1. UNCHANGED <<localVars, table, responses, acked>> /\ peer' = [peer EXCEPT ![p] = OnLeft(peer[p])]
    BY <1>5 DEF OwnerLeft
  <2>2. IsPeer(OnLeft(peer[p]))
    BY PeerSteps DEF NetTypes
  <2> QED BY <2>1, <2>2, OnePeer DEF NetTypes, LocalStep
<1>6. ASSUME NEW p \in Peer, PeerJoins(p) PROVE NetTypes' /\ LocalStep
  <2>1. /\ UNCHANGED <<localVars, table, responses>> /\ peer' = [peer EXCEPT ![p] = [peer[p] EXCEPT !.online = TRUE]]
        /\ acked' = [t \in Type |-> acked[t] \ {p}]
    BY <1>6 DEF PeerJoins
  <2>2. IsPeer([peer[p] EXCEPT !.online = TRUE])
    BY PeerSteps DEF NetTypes
  <2> QED BY <2>1, <2>2, OnePeer DEF NetTypes, LocalStep
<1>7. CASE OwnerLeaves
  <2>1. /\ LeaveOnline \/ Reboot
        /\ table' = {} /\ responses' = {} /\ acked' = [t \in Type |-> {}] /\ UNCHANGED peer
    BY <1>7 DEF OwnerLeaves
  <2> QED BY <2>1 DEF NetTypes, LocalStep, LocalNext
<1>8. ASSUME NEW p \in Peer, PeerLeaves(p) PROVE NetTypes' /\ LocalStep
  <2>1. UNCHANGED <<localVars, table, responses, acked>> /\ peer' = [peer EXCEPT ![p] = Offline]
    BY <1>8 DEF PeerLeaves
  <2> QED BY <2>1, OnePeer, OfflineIsPeer DEF NetTypes, LocalStep
<1>9. CASE Loss
  <2>1. UNCHANGED <<localVars, table, acked>> /\ responses' \subseteq responses
    BY <1>9 DEF Loss
  <2>2. CASE UNCHANGED peer
    BY <2>1, <2>2 DEF NetTypes, LocalStep
  <2>3. ASSUME NEW p \in Peer, peer[p].rx # << >>, peer' = [peer EXCEPT ![p] = [peer[p] EXCEPT !.rx = Tail(@)]]
        PROVE  NetTypes' /\ LocalStep
    BY <2>1, <2>3, HeadFrame, OnePeer DEF NetTypes, LocalStep
  <2> QED BY <2>2, <2>3, <1>9 DEF Loss
<1> QED BY <1>1, <1>2, <1>3, <1>4, <1>5, <1>6, <1>7, <1>8, <1>9 DEF NetworkNews

\* and the handlers of the peers.
LEMMA ReceiverTypesKept ==
    ASSUME IndInv, NetTypes, NEW p \in Peer, ProcessStateChangeFrame(p) \/ ProcessHeartbeat(p) \/ RateLimitExpires(p)
    PROVE  NetTypes' /\ LocalStep
<1>1. CASE ProcessStateChangeFrame(p)
  <2> DEFINE m == Head(peer[p].rx)
             s == [peer[p] EXCEPT !.rx = Tail(@)]
  <2>1. /\ peer[p].rx # << >> /\ UNCHANGED <<localVars, table, acked>>
        /\ \/ s.known /\ peer' = [peer EXCEPT ![p] = ApplyRecord(s, m)] /\ responses' = SendResponse(p, m)
           \/ peer' = [peer EXCEPT ![p] = s] /\ UNCHANGED responses
    BY <1>1 DEF ProcessStateChangeFrame
  <2>2. m \in Frame /\ m.version \in Version /\ IsPeer(s)
    BY <2>1, HeadFrame
  <2> HIDE DEF m, s
  <2>3. s.known => IsPeer(ApplyRecord(s, m))
    BY <2>2, ApplyIsPeer
  <2>4. DOMAIN peer' = Peer /\ \A q \in Peer : IsPeer(peer'[q])
    BY <2>1, <2>2, <2>3, OnePeer
  <2>5. responses' \subseteq Peer \X Version
    BY <2>1, <2>2 DEF SendResponse, NetTypes
  <2> QED BY <2>1, <2>4, <2>5 DEF NetTypes, LocalStep
<1>2. CASE ProcessHeartbeat(p)
  <2> DEFINE s == IF peer[p].known THEN OnHeartbeat(peer[p], Head(peer[p].beats)) ELSE peer[p]
             limited == s.limited \/ (peer[p].known /\ DigestDiffers(peer[p], Head(peer[p].beats)) /\ ~peer[p].limited)
  <2>1. /\ UNCHANGED <<localVars, table, responses, acked>>
        /\ peer' = [peer EXCEPT ![p] = [s EXCEPT !.beats = << >>, !.limited = limited]]
    BY <1>2 DEF ProcessHeartbeat
  <2>2. IsPeer(s)
    BY HeartbeatIsPeer DEF NetTypes
  <2> HIDE DEF s, limited
  <2>3. IsPeer([s EXCEPT !.beats = << >>, !.limited = limited])
    <3> DEFINE none == << >>
    <3>1. none \in Seq(Beat)
      OBVIOUS
    <3> HIDE DEF none
    <3>2. IsPeer([s EXCEPT !.beats = none, !.limited = limited])
      BY <2>2, <3>1, PeerSteps
    <3> QED BY <3>2 DEF none
  <2> QED BY <2>1, <2>3, OnePeer DEF NetTypes, LocalStep
<1>3. CASE RateLimitExpires(p)
  <2>1. UNCHANGED <<localVars, table, responses, acked>> /\ peer' = [peer EXCEPT ![p] = [peer[p] EXCEPT !.limited = FALSE]]
    BY <1>3 DEF RateLimitExpires
  <2>2. IsPeer([peer[p] EXCEPT !.limited = FALSE])
    BY PeerSteps DEF NetTypes
  <2> QED BY <2>1, <2>2, OnePeer DEF NetTypes, LocalStep
<1> QED BY <1>1, <1>2, <1>3

\* The types of all, and that every step is a step of the owner's records or leaves them alone.
LEMMA TypesStep == IndInv /\ OwnerTypes /\ NetTypes /\ [Next]_vars => IndInv' /\ OwnerTypes' /\ NetTypes' /\ [LocalNext]_localVars
<1> SUFFICES ASSUME IndInv, OwnerTypes, NetTypes, [Next]_vars PROVE IndInv' /\ OwnerTypes' /\ NetTypes' /\ [LocalNext]_localVars
  OBVIOUS
<1>1. CASE Next
  <2>1. NetTypes' /\ LocalStep
    BY <1>1, OwnerTypesKept, NewsTypesKept, ReceiverTypesKept DEF Next
  <2>2. [LocalNext]_localVars
    BY <2>1 DEF LocalStep
  <2> QED BY <2>1, <2>2, IndInvStep, OwnerTypesStep
<1>2. CASE UNCHANGED vars
  <2>1. UNCHANGED localVars
    BY <1>2 DEF vars
  <2>2. NetTypes'
    BY <1>2 DEF vars, netVars, NetTypes
  <2> QED BY <2>1, <2>2, IndInvStep, OwnerTypesStep
<1> QED BY <1>1, <1>2

\* Everything is empty at first.
LEMMA TypesInit == Init => IndInv /\ OwnerTypes /\ NetTypes
<1> SUFFICES ASSUME Init PROVE IndInv /\ OwnerTypes /\ NetTypes
  OBVIOUS
<1>1. IndInv
  BY IndInvInit DEF Init
<1>2. OwnerTypes
  BY DEF Init, LocalInit, OwnerTypes, DataFits, Free, Beat
<1>3. NetTypes
  BY OfflineIsPeer DEF Init, NetTypes
<1> QED BY <1>1, <1>2, <1>3

\* The network refines the owner's records: whatever the peers and the bus do, the owner sees some
\* peers and some responses, so what LocalSpec promises holds of the whole.
THEOREM NetworkRefinesLocal == Spec => LocalSpec
<1>1. Init => LocalInit
  BY DEF Init
<1> QED BY <1>1, TypesInit, TypesStep, PTL DEF Spec, LocalSpec

Linked == IF online THEN Connected(records, counter, digest, peer, responses, acked) ELSE Silence

\* The digest at the end of a change.
LEMMA FinishFits ==
    ASSUME IndInv, IndInv', OwnerTypes', OwnerFits, FinishChange
    PROVE  OwnerFits'
<1>1. records' = records /\ counter' = counter /\ digest' = Covered /\ Unlocked' /\ ~Unlocked
  BY DEF FinishChange, Unlocked
<1>2. RecordsFit(records) /\ Used(records) = InUse /\ \A t, u \in Used(records) : t # u => records[t].version # records[u].version
  BY RecordsFitNow
<1>3. ASSUME NEW t \in Live PROVE /\ Genuine(records, counter, t, records[t].version, records[t].data)
                                 /\ Distance(records[t].version, counter) <= RestBound
  <2>1. t \in Used(records) /\ records[t].version \in Version /\ counter \in Version
    BY <1>2, <1>3, MidLag, <1>1 DEF Live, InUse
  <2>2. Distance(records[t].version, counter) \in Version
    BY <2>1, DistanceFacts
  <2>3. Distance(records[t].version, counter) >= Distance(records[t].version, counter)
    BY <2>2 DEF Version
  <2>4. Genuine(records, counter, t, records[t].version, records[t].data)
    BY <1>2, <2>1, <2>3 DEF Genuine
  <2>5. Live' = Live /\ LagOf(t)' = Distance(records[t].version, counter)
    BY <1>1 DEF Live, LagOf
  <2>6. LagOf(t)' <= RestBound
    BY <1>1, <1>3, <2>5 DEF IndInv, AtRest
  <2> QED BY <2>4, <2>5, <2>6
<1>4. ASSUME NEW e \in Covered PROVE Genuine(records, counter, e[1], e[2], e[3]) /\ Distance(e[2], counter) <= RestBound
  <2>1. PICK t \in Live : e = <<t, records[t].version, records[t].data>>
    BY DEF Covered
  <2>2. e[1] = t /\ e[2] = records[t].version /\ e[3] = records[t].data
    BY <2>1
  <2> QED BY <2>2, <1>3
<1>5. DigestFits'
  <2>1. digest' \in Beat
    BY DEF OwnerTypes
  <2> QED BY <2>1, <1>1, <1>4 DEF DigestFits, GenuineEntries
<1>6. VersionsDistinct' /\ DataFits'
  BY <1>1 DEF OwnerFits, VersionsDistinct, DataFits, InUse
<1> QED BY <1>5, <1>6 DEF OwnerFits

\* What the records say stays distinct and the digest near, whatever the owner does.
LEMMA OwnerFitsStep ==
    ASSUME IndInv, IndInv', OwnerTypes', Young, OwnerFits, [LocalNext]_localVars
    PROVE  OwnerFits'
<1>1. ASSUME NEW t \in Type, ClearLocalState(t) \/ \E data \in Data : SetLocalState(t, data) PROVE OwnerFits'
  <2>1. /\ StampedOne(records, counter, records', t) /\ counter' = NextVersion(counter)
        /\ records'[t].state = "live" => records'[t].data \in Data
        /\ records'[t].state # "live" => records'[t].data = NoData
        /\ Unlocked /\ ~Unlocked' /\ refreshed' = {} /\ digest' = digest
    BY <1>1, ChangeStamps
  <2> QED BY <2>1, StampKeeps
<1>2. CASE RefreshNext
  <2>1. ~Unlocked /\ ~Unlocked' /\ UNCHANGED <<digest, online>>
    BY <1>2, RefreshStamps
  <2>2. ASSUME NEW i \in Type \ refreshed,
               StampedOne(records, counter, records', i), counter' = NextVersion(counter),
               records'[i].state = "live", records'[i].data = records[i].data, records[i].state = "live",
               refreshed' = refreshed \cup {i}
        PROVE  OwnerFits'
    <3>1. records'[i].data \in Data
      BY <2>2 DEF OwnerFits, DataFits
    <3> QED BY <2>1, <2>2, <3>1, StampKeeps
  <2>3. CASE UNCHANGED <<records, counter, refreshed>>
    BY <2>1, <2>3 DEF OwnerFits, DataFits, VersionsDistinct, InUse, DigestFits
  <2> QED BY <1>2, <2>2, <2>3, RefreshStamps
<1>3. CASE FinishChange
  BY <1>3, FinishFits
<1>4. CASE QuietStep
  BY <1>4, QuietKeeps
<1>5. CASE Reboot
  <2>1. records' = [t \in Type |-> Free] /\ digest' = {}
    BY <1>5 DEF Reboot
  <2>2. InUse' = {}
    BY <2>1 DEF InUse, Free
  <2>3. digest' \in Beat
    BY DEF OwnerTypes
  <2> QED BY <2>1, <2>2, <2>3 DEF OwnerFits, DataFits, VersionsDistinct, DigestFits, GenuineEntries,
             OwnerTypes
<1>6. CASE UNCHANGED localVars
  BY <1>6 DEF localVars, OwnerFits, DataFits, VersionsDistinct, InUse, DigestFits, Unlocked
<1>7. ASSUME NEW peers \in SUBSET Peer, NEW due \in SUBSET Type, Transmit(peers, due) PROVE QuietStep
  BY <1>7, TransmitIsQuiet
<1>8. ASSUME NEW q \in Peer, DropPeer(q) PROVE QuietStep
  BY <1>8, DropPeerIsQuiet
<1>9. ASSUME NEW q \in Peer, NEW version \in Version, ProcessResponse(q, version) PROVE QuietStep
  BY <1>9, ResponseIsQuiet
<1>10. CASE EnterOnline \/ LeaveOnline
  BY <1>4, <1>10, OnlineIsQuiet
<1> QED BY <1>1, <1>2, <1>3, <1>4, <1>5, <1>6, <1>7, <1>8, <1>9, <1>10 DEF LocalNext

-----------------------------------------------------------------------------
(* The network, step by step *)

\* A stamp of the owner while nobody sends or receives.
LEMMA StampLinks ==
    ASSUME IndInv, Young, NetTypes, Linked, NEW x, StampedOne(records, counter, records', x),
           records'[x].announce, counter' = NextVersion(counter), acked' = AckedAfter,
           UNCHANGED <<digest, online, peer, responses>>
    PROVE  Linked'
<1>1. \A t \in Type : acked'[t] \subseteq acked[t]
  BY AckedAfterLess
<1>2. x \in Type /\ acked'[x] = {}
  BY AckedAfterLess DEF StampedOne
<1>3. CASE online
  <2>1. Near(records, counter) /\ counter \in Version
    BY RecordsNear
  <2>2. \A p \in Peer : IsPeer(peer[p]) /\ YoungPeer(counter, peer[p])
    BY <1>3 DEF NetTypes, Young
  <2>3. \A r \in responses : r[2] \in Version /\ Distance(r[2], counter) <= Window
    BY <1>3 DEF NetTypes, Young
  <2>4. Connected(records, counter, digest, peer, responses, acked)
    BY <1>3 DEF Linked
  <2>5. Connected(records', NextVersion(counter), digest, peer, responses, acked')
    BY <1>1, <1>2, <2>1, <2>2, <2>3, <2>4, NetStamped
  <2> QED BY <2>5, <1>3 DEF Linked
<1>4. CASE ~online
  BY <1>1, <1>4 DEF Linked, Silence
<1> QED BY <1>3, <1>4

\* SetLocalState() and ClearLocalState(): nobody has seen the new version.
LEMMA ChangeLinks ==
    ASSUME IndInv, Young, NetTypes, Linked, Change
    PROVE  Linked'
<1>1. PICK t \in Type : ClearLocalState(t) \/ \E data \in Data : SetLocalState(t, data)
  BY DEF Change
<1>2. acked' = AckedAfter /\ UNCHANGED <<peer, responses>>
  BY DEF Change
<1> QED BY <1>1, <1>2, ChangeStamps, StampLinks

\* Steps that leave the records and the counter alone, or only free records.
LEMMA LessLinks ==
    ASSUME Linked, Kept(records, records'), \A t \in Type : acked'[t] \subseteq acked[t], responses' \subseteq responses,
           UNCHANGED <<counter, digest, online, peer>>
    PROVE  Linked'
<1>1. CASE online
  <2>1. \A t \in Used(records) : \A p \in acked'[t] : Answered(records, responses, acked, p, t)
    BY DEF Answered, Used
  <2>2. Connected(records, counter, digest, peer, responses', acked')
    BY <1>1, <2>1, NetLess DEF Linked
  <2>3. Connected(records', counter, digest, peer, responses', acked')
    BY <2>2, NetKept
  <2> QED BY <1>1, <2>3 DEF Linked
<1>2. CASE ~online
  BY <1>2 DEF Linked, Silence
<1> QED BY <1>1, <1>2

\* Records that do not change are kept.
LEMMA SameRecords ==
    ASSUME UNCHANGED records
    PROVE  Kept(records, records')
BY DEF Kept, KeptRecord

\* The refresh after a change, and the digest at its end, which covers every live record.
LEMMA RefreshLinks ==
    ASSUME IndInv, Young, NetTypes, Linked, Refresh
    PROVE  Linked'
<1>1. acked' = AckedAfter /\ UNCHANGED <<peer, responses>> /\ \A t \in Type : acked'[t] \subseteq acked[t]
  BY AckedAfterLess DEF Refresh
<1>2. CASE RefreshNext
  <2>1. UNCHANGED <<digest, online>>
    BY <1>2, RefreshStamps
  <2>2. ASSUME NEW i \in Type, StampedOne(records, counter, records', i), counter' = NextVersion(counter), records'[i].announce
        PROVE  Linked'
    BY <1>1, <2>1, <2>2, StampLinks
  <2>3. CASE UNCHANGED <<records, counter, refreshed>>
    BY <1>1, <2>1, <2>3, SameRecords, LessLinks
  <2> QED BY <1>2, <2>2, <2>3, RefreshStamps
<1>3. CASE FinishChange
  <2>1. digest' = Covered /\ UNCHANGED <<records, counter, online>>
    BY <1>3 DEF FinishChange
  <2>2. CASE online
    <3>1. Connected(records, counter, digest, peer, responses, acked)
      BY <2>2 DEF Linked
    <3>2. \A t \in Used(records) : records[t].state = "live" => Entry(records, t) \in Covered
      BY DEF Covered, Live, Entry, Used
    <3>3. \A p \in Peer, t \in Used(records) : Answered(records, responses, acked', p, t) => Answered(records, responses, acked, p, t)
      BY <1>1 DEF Answered, Used
    <3>4. Connected(records, counter, Covered, peer, responses, acked')
      BY <3>1, <3>2, <3>3 DEF Connected, Sent
    <3> QED BY <2>1, <2>2, <3>4, <1>1 DEF Linked
  <2>3. CASE ~online
    BY <2>3, <2>1, <1>1 DEF Linked, Silence
  <2> QED BY <2>2, <2>3
<1> QED BY <1>2, <1>3 DEF Refresh

\* Announcements and resends.
LEMMA SendLinks ==
    ASSUME IndInv, NetTypes, OwnerFits, Linked, SendChanges
    PROVE  Linked'
<1>1. PICK due \in SUBSET Waiting :
          /\ Transmit(table, due) /\ Broadcast(Announced \cup due)
          /\ acked' = [t \in Type |-> IF t \in Announced \/ records'[t].state = "free" THEN {} ELSE acked[t]]
          /\ UNCHANGED <<table, responses>>
  BY DEF SendChanges
<1>2. due \subseteq InUse /\ Announced \subseteq InUse /\ InUse \subseteq Type /\ table \in SUBSET Peer
  BY DEF Waiting, Announced, InUse, NetTypes
<1>3. Unlocked /\ online /\ UNCHANGED <<counter, digest, online>>
  BY <1>1 DEF Transmit
<1>4. \A t \in Type : acked'[t] \subseteq acked[t]
  BY <1>1
<1>5. Connected(records, counter, digest, peer', responses, acked')
  <2>1. Connected(records, counter, digest, peer, responses, acked) /\ Announced \cup due \subseteq InUse
    BY <1>2, <1>3 DEF Linked
  <2> QED BY <2>1, <1>1, <1>3, <1>4, BroadcastKeeps
<1>6. Kept(records, records')
  BY <1>1, <1>2, TransmitIsQuiet, QuietKeeps
<1>7. Connected(records', counter, digest, peer', responses, acked')
  BY <1>5, <1>6, NetKept
<1> QED BY <1>1, <1>3, <1>7 DEF Linked

\* A response that arrives: its sender held the record when it answered, and still does.
LEMMA ResponseLinks ==
    ASSUME IndInv, NetTypes, OwnerFits, Linked, ReceiveResponse
    PROVE  Linked'
<1>1. PICK r \in responses :
          /\ ProcessResponse(r[1], r[2]) /\ responses' = responses \ {r}
          /\ acked' = [t \in Type |-> IF r[1] \in records[t].unacknowledged /\ records[t].version = r[2]
                                         /\ records'[t].state # "free"
                                      THEN acked[t] \cup {r[1]} ELSE acked[t]]
          /\ UNCHANGED <<peer, table>>
  BY DEF ReceiveResponse
<1>2. r[1] \in Peer /\ r[2] \in Version /\ r = <<r[1], r[2]>>
  BY DEF NetTypes
<1>3. online /\ UNCHANGED <<counter, digest, online>>
  BY <1>1 DEF ProcessResponse
<1>4. Kept(records, records')
  BY <1>1, <1>2, ResponseIsQuiet, QuietKeeps
<1>5. ASSUME NEW t \in Used(records), NEW p \in acked'[t] PROVE Answered(records, responses, acked, p, t)
  <2>1. t \in Type
    BY DEF Used
  <2>2. p \in acked[t] \/ (p = r[1] /\ records[t].version = r[2])
    BY <1>1, <1>5, <2>1
  <2> QED BY <1>2, <2>2 DEF Answered
<1>6. Connected(records, counter, digest, peer, responses, acked)
  BY <1>3 DEF Linked
<1>7. Connected(records, counter, digest, peer, responses', acked')
  BY <1>1, <1>5, <1>6, NetLess
<1>8. Connected(records', counter, digest, peer, responses', acked')
  BY <1>4, <1>7, NetKept
<1> QED BY <1>1, <1>3, <1>8 DEF Linked

\* A replay.
LEMMA ReplayLinks ==
    ASSUME IndInv, NetTypes, OwnerFits, Linked, ProcessSyncRequest
    PROVE  Linked'
<1>1. Unlocked /\ UNCHANGED <<localVars, table, responses, acked>> /\ ReplayRecords
  BY DEF ProcessSyncRequest
<1>2. UNCHANGED <<records, counter, digest, online>>
  BY <1>1 DEF localVars
<1>3. CASE online
  <2>1. Live \subseteq InUse /\ Broadcast(Live) /\ Connected(records, counter, digest, peer, responses, acked)
    BY <1>1, <1>3 DEF Live, InUse, ReplayRecords, Linked
  <2>2. Connected(records, counter, digest, peer', responses, acked)
    BY <1>1, <2>1, BroadcastKeeps
  <2> QED BY <1>1, <1>2, <1>3, <2>2 DEF Linked
<1>4. CASE ~online
  BY <1>1, <1>2, <1>4 DEF Linked, Silence
<1> QED BY <1>3, <1>4

\* Nothing reaches the queues or the owner.
StillPeer(rs, c, pr, rsp, ak, pr2, p) ==
    \/ pr2[p] = pr[p]
    \/ /\ GenuinePeer(rs, c, pr2[p])
       /\ \A i \in DOMAIN pr2[p].rx : \E j \in DOMAIN pr[p].rx : pr2[p].rx[i].version = pr[p].rx[j].version
       /\ \A t \in Used(rs) : pr2[p].online /\ Answered(rs, rsp, ak, p, t) => PeerHolds(rs, pr2[p], t)

\* Peers that change what they have, without new frames or responses.
LEMMA NetStill ==
    ASSUME NEW rs, NEW c, NEW dg, NEW pr, NEW rsp, NEW ak, NEW pr2, NEW ak2,
           Connected(rs, c, dg, pr, rsp, ak), \A t \in Type : ak2[t] \subseteq ak[t],
           \A p \in Peer : StillPeer(rs, c, pr, rsp, ak2, pr2, p)
    PROVE  Connected(rs, c, dg, pr2, rsp, ak2)
<1>1. \A p \in Peer : GenuinePeer(rs, c, pr2[p])
  BY DEF Connected, StillPeer
<1>2. \A t \in Used(rs) : ak2[t] \subseteq ak[t]
  BY DEF Used
<1>3. ASSUME NEW p \in Peer, NEW t \in Used(rs), pr2[p].online, Answered(rs, rsp, ak2, p, t) PROVE PeerHolds(rs, pr2[p], t)
  <2>1. CASE pr2[p] = pr[p]
    <3>1. Answered(rs, rsp, ak, p, t) /\ pr[p].online
      BY <1>2, <1>3, <2>1 DEF Answered
    <3> QED BY <2>1, <3>1 DEF Connected
  <2>2. CASE pr2[p] # pr[p]
    BY <1>3, <2>2 DEF StillPeer
  <2> QED BY <2>1, <2>2
<1>4. \A p \in Peer : \A i \in DOMAIN pr2[p].rx : \E j \in DOMAIN pr[p].rx : pr2[p].rx[i].version = pr[p].rx[j].version
  BY DEF StillPeer
<1> QED BY <1>1, <1>2, <1>3, <1>4, NetPeers

\* The heartbeat takes the digest to everybody: it covers what a peer answered for.
LEMMA BeatLinks ==
    ASSUME IndInv, NetTypes, OwnerFits, Linked, SendHeartbeat
    PROVE  Linked'
<1>1. /\ online /\ UNCHANGED <<localVars, table, responses, acked>>
      /\ peer' = [p \in Peer |-> IF p \in Listening THEN [peer[p] EXCEPT !.beats = <<digest>>] ELSE peer[p]]
  BY DEF SendHeartbeat
<1>2. UNCHANGED <<records, counter, digest, online>> /\ Connected(records, counter, digest, peer, responses, acked)
  BY <1>1 DEF localVars, Linked
<1>3. ASSUME NEW p \in Listening
      PROVE  /\ GenuinePeer(records, counter, peer'[p])
             /\ peer'[p].rx = peer[p].rx
             /\ \A t \in Used(records) : Answered(records, responses, acked, p, t) => PeerHolds(records, peer'[p], t)
  <2> DEFINE s == peer[p]
             n == [s EXCEPT !.beats = <<digest>>]
  <2>1. IsPeer(s) /\ PeerShape(s) /\ p \in Peer /\ s.online
    BY DEF NetTypes, IsPeer, Listening
  <2>2. peer'[p] = n
    BY <1>1, <2>1
  <2>3. GenuinePeer(records, counter, s)
    BY <1>2, <2>1 DEF Connected
  <2>4. \A t \in Used(records) : Answered(records, responses, acked, p, t) => PeerHolds(records, s, t)
    BY <1>2, <2>1 DEF Connected
  <2> HIDE DEF s
  <2>5. n.beats = <<digest>> /\ SameBut(n, s, "beats")
    BY <2>1, PeerNews
  <2> HIDE DEF n
  <2>6. n.rx = s.rx /\ n.copies = s.copies /\ n.suspect = s.suspect /\ n.online = s.online
    BY <2>5 DEF SameBut
  <2>7. GenuineBeats(records, counter, n.beats)
    BY <2>5 DEF OwnerFits, DigestFits, GenuineBeats
  <2>8. GenuinePeer(records, counter, n)
    BY <2>3, <2>6, <2>7 DEF GenuinePeer
  <2>9. ASSUME NEW t \in Used(records), Answered(records, responses, acked, p, t) PROVE PeerHolds(records, n, t)
    <3>1. PeerHolds(records, s, t)
      BY <2>4, <2>9
    <3>2. ASSUME HeldCopy(records, s.copies, t), t \in DOMAIN s.copies PROVE Entry(records, t) \in digest
      <4>1. records[t].state = "live"
        <5>1. records[t].state \in {"free", "live", "withdrawn"} /\ records[t].state # "free"
          BY DEF IndInv, LocalTypeOK, Record, Used
        <5> QED BY <3>2, <5>1 DEF HeldCopy
      <4>2. Sent(records, digest, peer, responses, acked, t)
        BY <1>2, <4>1 DEF Connected
      <4>3. ~(acked[t] = {} /\ \A r \in responses : r[2] # records[t].version)
        BY <2>9 DEF Answered
      <4> QED BY <4>2, <4>3 DEF Sent
    <3>3. HeldCopy(records, s.copies, t) => StaleIsCovered(records, t, n.copies, n.beats)
      BY <2>5, <2>6, <3>2 DEF StaleIsCovered
    <3> QED BY <3>1, <3>3, <2>6 DEF PeerHolds
  <2> QED BY <2>2, <2>6, <2>8, <2>9 DEF s
<1>4. \A p \in Peer \ Listening : peer'[p] = peer[p]
  BY <1>1
<1>5. Connected(records, counter, digest, peer', responses, acked)
  <2>1. \A p \in Listening : \A i \in DOMAIN peer'[p].rx : \E j \in DOMAIN peer[p].rx : peer'[p].rx[i].version = peer[p].rx[j].version
    BY <1>3
  <2>2. \A p \in Peer : StillPeer(records, counter, peer, responses, acked, peer', p)
    BY <1>3, <1>4, <2>1 DEF StillPeer
  <2> QED BY <1>2, <2>2, NetStill
<1> QED BY <1>1, <1>2, <1>5 DEF Linked

\* The owner's device table.
LEMMA TableLinks ==
    ASSUME IndInv, NetTypes, OwnerFits, Linked, AddPeer \/ RemovePeer
    PROVE  Linked'
<1>1. CASE AddPeer
  <2>1. UNCHANGED <<localVars, peer, responses, acked>>
    BY <1>1 DEF AddPeer
  <2> QED BY <2>1, SameRecords, LessLinks DEF localVars
<1>2. CASE RemovePeer
  <2>1. PICK p \in table : DropPeer(p) /\ table' = table \ {p} /\ UNCHANGED <<peer, responses, acked>>
    BY <1>2 DEF RemovePeer
  <2>2. p \in Peer /\ UNCHANGED <<counter, digest, online>>
    BY <2>1 DEF NetTypes, DropPeer
  <2>3. Kept(records, records')
    BY <2>1, <2>2, DropPeerIsQuiet, QuietKeeps
  <2> QED BY <2>1, <2>2, <2>3, LessLinks
<1> QED BY <1>1, <1>2

\* An owner that leaves has no responses and no acknowledgements.
LEMMA LeavesLinks ==
    ASSUME OwnerLeaves
    PROVE  Linked'
<1>1. /\ LeaveOnline \/ Reboot
      /\ responses' = {} /\ acked' = [t \in Type |-> {}]
  BY DEF OwnerLeaves
<1>2. ~online'
  BY <1>1 DEF LeaveOnline, Reboot
<1> QED BY <1>1, <1>2 DEF Linked, Silence

\* The owner comes back: no frame or beat of before is left, and copies are stale or their peer suspect.
LEMMA ReturnLinks ==
    ASSUME NetTypes, NetTypes', Linked, OwnerReturns
    PROVE  Linked'
<1>1. EnterOnline /\ UNCHANGED <<responses, acked>> /\ \A p \in Peer : peer[p].rx = << >> /\ peer[p].beats = << >>
  BY DEF OwnerReturns
<1>2. ~online /\ online' /\ UNCHANGED <<records, counter, digest>>
  BY <1>1 DEF EnterOnline
<1>3. responses = {} /\ \A t \in Type : acked[t] = {}
  BY <1>2 DEF Linked, Silence
<1>4. ASSUME NEW p \in Peer, peer'[p] = OnRestarted(peer[p]) \/ peer'[p] = [peer[p] EXCEPT !.suspect = peer[p].suspect \/ peer[p].known]
      PROVE  /\ peer'[p].rx = << >> /\ peer'[p].beats = << >>
             /\ peer'[p].suspect \/ GenuineCopies(records, counter, peer'[p].copies)
  <2> DEFINE s == peer[p]
             n == [s EXCEPT !.suspect = s.suspect \/ s.known]
  <2>0. IsPeer(s) /\ PeerShape(s) /\ s.rx = << >> /\ s.beats = << >> /\ s.suspect \in BOOLEAN
    BY <1>1 DEF NetTypes, IsPeer
  <2>1. CASE peer'[p] = OnRestarted(s)
    <3>1. SameBut(peer'[p], s, "copies") /\ GenuineCopies(records, counter, peer'[p].copies)
      BY <2>0, <2>1, AllStaleKeeps DEF OnRestarted
    <3> QED BY <2>0, <3>1 DEF SameBut
  <2>2. CASE peer'[p] = n
    <3>1. n.suspect = (s.suspect \/ s.known) /\ SameBut(n, s, "suspect")
      BY <2>0, PeerSuspect
    <3> HIDE DEF n
    <3>2. n.rx = << >> /\ n.beats = << >> /\ n.copies = s.copies
      BY <2>0, <3>1 DEF SameBut
    <3>3. n.suspect \/ DOMAIN n.copies = {}
      BY <2>0, <3>1, <3>2 DEF IsPeer
    <3>4. DOMAIN n.copies = {} => GenuineCopies(records, counter, n.copies)
      BY DEF GenuineCopies
    <3> QED BY <2>2, <3>2, <3>3, <3>4
  <2> QED BY <1>4, <2>1, <2>2
<1>5. \A p \in Peer : peer'[p] = OnRestarted(peer[p]) \/ peer'[p] = [peer[p] EXCEPT !.suspect = peer[p].suspect \/ peer[p].known]
  BY DEF OwnerReturns
<1>6. ASSUME NEW p \in Peer PROVE GenuinePeer(records, counter, peer'[p]) /\ \A v : Unsent(v, peer'[p].rx)
  <2>1. /\ peer'[p].rx = << >> /\ peer'[p].beats = << >>
        /\ peer'[p].suspect \/ GenuineCopies(records, counter, peer'[p].copies)
    BY <1>4, <1>5
  <2>2. DOMAIN peer'[p].rx = {} /\ DOMAIN peer'[p].beats = {}
    BY <2>1
  <2> QED BY <2>1, <2>2 DEF GenuinePeer, GenuineQueue, InOrder, GenuineBeats, Unsent
<1>7. \A p \in Peer, t \in Used(records) : ~Answered(records, responses, acked, p, t)
  BY <1>3 DEF Answered, Used
<1>8. \A t \in Used(records) : Sent(records, digest, peer', responses, acked, t)
  BY <1>3, <1>6 DEF Sent, Used
<1>9. Connected(records, counter, digest, peer', responses, acked)
  BY <1>6, <1>7, <1>8 DEF Connected
<1> QED BY <1>1, <1>2, <1>9 DEF Linked

\* A step of one peer that sends nothing.
LEMMA OneLinks ==
    ASSUME NetTypes, Linked, NEW p \in Peer, NEW n, IsPeer(n), peer' = [peer EXCEPT ![p] = n],
           \A t \in Type : acked'[t] \subseteq acked[t],
           online => GenuinePeer(records, counter, n),
           \A i \in DOMAIN n.rx : \E j \in DOMAIN peer[p].rx : n.rx[i].version = peer[p].rx[j].version,
           online => \A t \in Used(records) : n.online /\ Answered(records, responses, acked', p, t) => PeerHolds(records, n, t),
           UNCHANGED <<localVars, responses>>
    PROVE  Linked'
<1>1. peer'[p] = n /\ \A q \in Peer \ {p} : peer'[q] = peer[q]
  BY OnePeer
<1>2. UNCHANGED <<records, counter, digest, online>>
  BY DEF localVars
<1>3. CASE online
  <2>1. Connected(records, counter, digest, peer, responses, acked)
    BY <1>3 DEF Linked
  <2>2. ASSUME NEW q \in Peer
        PROVE StillPeer(records, counter, peer, responses, acked', peer', q)
    <3>1. CASE q = p
      BY <1>1, <1>3, <3>1 DEF StillPeer
    <3>2. CASE q # p
      BY <1>1, <3>2 DEF StillPeer
    <3> QED BY <3>1, <3>2
  <2>3. Connected(records, counter, digest, peer', responses, acked')
    BY <2>1, <2>2, NetStill
  <2> QED BY <1>2, <1>3, <2>3 DEF Linked
<1>4. CASE ~online
  BY <1>2, <1>4 DEF Linked, Silence
<1> QED BY <1>3, <1>4

\* The same for a step that changes nothing the owner's records are compared with.
LEMMA QuietPeer ==
    ASSUME NetTypes, Linked, NEW p \in Peer, NEW n, IsPeer(n), peer' = [peer EXCEPT ![p] = n],
           n.rx = peer[p].rx, n.beats = peer[p].beats, n.copies = peer[p].copies, n.suspect = peer[p].suspect, n.online = peer[p].online,
           UNCHANGED <<localVars, responses, acked>>
    PROVE  Linked'
<1>1. ASSUME online PROVE GenuinePeer(records, counter, n)
  <2>1. GenuinePeer(records, counter, peer[p])
    BY <1>1 DEF Linked, Connected
  <2> QED BY <2>1 DEF GenuinePeer
<1>2. ASSUME online, NEW t \in Used(records), n.online, Answered(records, responses, acked', p, t) PROVE PeerHolds(records, n, t)
  <2>1. PeerHolds(records, peer[p], t)
    BY <1>2 DEF Linked, Connected
  <2> QED BY <2>1 DEF PeerHolds
<1> QED BY <1>1, <1>2, OneLinks

\* The network service of a peer, its stop and its rate limit.
LEMMA NewsLinks ==
    ASSUME NetTypes, Linked, NEW p \in Peer, OwnerJoined(p) \/ OwnerLeft(p) \/ RateLimitExpires(p) \/ PeerJoins(p) \/ PeerLeaves(p)
    PROVE  Linked'
<1>0. IsPeer(peer[p]) /\ PeerShape(peer[p])
  BY DEF NetTypes, IsPeer
<1>1. CASE OwnerJoined(p)
  <2> DEFINE n == [peer[p] EXCEPT !.known = TRUE]
  <2>1. UNCHANGED <<localVars, responses, acked>> /\ peer' = [peer EXCEPT ![p] = n] /\ peer[p].online
    BY <1>1 DEF OwnerJoined
  <2>2. IsPeer(n) /\ SameBut(n, peer[p], "known")
    BY <1>0, <2>1, PeerSteps, PeerNews
  <2> HIDE DEF n
  <2> QED BY <2>1, <2>2, QuietPeer DEF SameBut
<1>2. CASE OwnerLeft(p)
  <2>1. ~online /\ UNCHANGED <<localVars, responses, acked>>
    BY <1>2 DEF OwnerLeft
  <2> QED BY <2>1 DEF Linked, Silence, localVars
<1>3. CASE RateLimitExpires(p)
  <2> DEFINE n == [peer[p] EXCEPT !.limited = FALSE]
  <2>1. UNCHANGED <<localVars, responses, acked>> /\ peer' = [peer EXCEPT ![p] = n]
    BY <1>3 DEF RateLimitExpires
  <2>2. IsPeer(n) /\ SameBut(n, peer[p], "flag")
    BY <1>0, <2>1, PeerSteps, PeerFlags
  <2> HIDE DEF n
  <2> QED BY <2>1, <2>2, QuietPeer DEF SameBut
<1>4. CASE PeerJoins(p)
  <2> DEFINE n == [peer[p] EXCEPT !.online = TRUE]
  <2>1. /\ UNCHANGED <<localVars, responses>> /\ peer' = [peer EXCEPT ![p] = n] /\ ~peer[p].online
        /\ acked' = [t \in Type |-> acked[t] \ {p}] /\ \A r \in responses : r[1] # p
    BY <1>4 DEF PeerJoins
  <2>2. IsPeer(n) /\ SameBut(n, peer[p], "online")
    BY <1>0, <2>1, PeerSteps, PeerNews
  <2> HIDE DEF n
  <2>3. DOMAIN n.copies = {} /\ n.rx = peer[p].rx /\ n.beats = peer[p].beats
    BY <1>0, <2>1, <2>2 DEF SameBut, IsPeer
  <2>4. GenuineCopies(records, counter, n.copies)
    BY <2>3 DEF GenuineCopies
  <2>5. online => GenuinePeer(records, counter, n)
    BY <2>3, <2>4 DEF Linked, Connected, GenuinePeer
  <2>6. \A t \in Used(records) : ~Answered(records, responses, acked', p, t)
    BY <2>1 DEF Answered, Used
  <2>7. \A t \in Type : acked'[t] \subseteq acked[t]
    BY <2>1
  <2> QED BY <2>1, <2>2, <2>3, <2>5, <2>6, <2>7, OneLinks
<1>5. CASE PeerLeaves(p)
  <2>1. UNCHANGED <<localVars, responses, acked>> /\ peer' = [peer EXCEPT ![p] = Offline]
    BY <1>5 DEF PeerLeaves
  <2>2. IsPeer(Offline) /\ ~Offline.online /\ DOMAIN Offline.rx = {} /\ DOMAIN Offline.beats = {}
    BY OfflineIsPeer DEF Offline
  <2>3. GenuinePeer(records, counter, Offline)
    BY <2>2 DEF GenuinePeer, GenuineQueue, InOrder, GenuineBeats
  <2> QED BY <2>1, <2>2, <2>3, OneLinks
<1> QED BY <1>1, <1>2, <1>3, <1>4, <1>5

\* The digest check of a peer.
LEMMA CheckLinks ==
    ASSUME NetTypes, Linked, NEW p \in Peer, ProcessHeartbeat(p)
    PROVE  Linked'
<1> DEFINE s == peer[p]
           u == IF s.known THEN OnHeartbeat(s, Head(s.beats)) ELSE s
           limited == u.limited \/ (s.known /\ DigestDiffers(s, Head(s.beats)) /\ ~s.limited)
           none == << >>
           n == [u EXCEPT !.beats = none, !.limited = limited]
<1>1. UNCHANGED <<localVars, responses, acked>> /\ peer' = [peer EXCEPT ![p] = n] /\ s.beats # << >>
  BY DEF ProcessHeartbeat
<1>2. IsPeer(s)
  BY DEF NetTypes
<1>3. none \in Seq(Beat) /\ DOMAIN none = {}
  OBVIOUS
<1>4. /\ IsPeer(u) /\ u.rx = s.rx /\ u.online = s.online
  BY <1>2, HeartbeatIsPeer
<1>5. ASSUME online
      PROVE  /\ GenuinePeer(records, counter, s)
             /\ u.online => u.suspect \/ GenuineCopies(records, counter, u.copies)
             /\ u.online => \A t \in Type : PeerHolds(records, s, t) => u.suspect \/ HeldCopy(records, u.copies, t)
  <2>1. GenuinePeer(records, counter, s)
    BY <1>5 DEF Linked, Connected
  <2>2. CASE s.known
    BY <2>1, <2>2, <1>1, <1>2, HeartbeatKeeps
  <2>3. CASE ~s.known
    <3>1. u = s
      BY <2>3
    <3> QED BY <2>1, <3>1 DEF GenuinePeer, PeerHolds
  <2> QED BY <2>1, <2>2, <2>3
<1> HIDE DEF u, limited, none
<1>6. IsPeer(n) /\ n.beats = none /\ SameBut(n, u, "beats")
  <2>1. PeerShape(u)
    BY <1>4 DEF IsPeer
  <2>2. IsPeer(n)
    BY <1>3, <1>4, PeerSteps
  <2> QED BY <2>1, <2>2, PeerBeats
<1> HIDE DEF n
<1>7. n.rx = s.rx /\ n.online = s.online /\ n.copies = u.copies /\ n.suspect = u.suspect
  BY <1>4, <1>6 DEF SameBut
<1>8. ASSUME online PROVE GenuinePeer(records, counter, n)
  <2>1. GenuineBeats(records, counter, n.beats)
    BY <1>3, <1>6 DEF GenuineBeats
  <2> QED BY <2>1, <1>4, <1>5, <1>7, <1>8 DEF GenuinePeer
<1>9. ASSUME online, NEW t \in Used(records), n.online, Answered(records, responses, acked', p, t)
      PROVE  PeerHolds(records, n, t)
  <2>1. PeerHolds(records, s, t) /\ t \in Type
    BY <1>1, <1>7, <1>9 DEF Linked, Connected, Used
  <2>2. u.suspect \/ HeldCopy(records, u.copies, t)
    BY <2>1, <1>4, <1>5, <1>7, <1>9
  <2>3. StaleIsCovered(records, t, n.copies, n.beats)
    BY <1>3, <1>6 DEF StaleIsCovered
  <2> QED BY <2>1, <2>2, <2>3, <1>7 DEF PeerHolds
<1>10. \A i \in DOMAIN n.rx : \E j \in DOMAIN peer[p].rx : n.rx[i].version = peer[p].rx[j].version
  BY <1>7
<1>11. \A t \in Type : acked'[t] \subseteq acked[t]
  BY <1>1
<1> QED BY <1>1, <1>6, <1>8, <1>9, <1>10, <1>11, OneLinks

\* The frames behind the one that has the current version of its type have it too.
LEMMA CurrentRest ==
    ASSUME NEW rs, NEW c \in Version, RecordsFit(rs), NEW s, IsPeer(s), GenuinePeer(rs, c, s), s.rx # << >>,
           NEW t \in Used(rs), s.rx[1].type = t, s.rx[1].version = rs[t].version
    PROVE  CurrentFrames(rs, t, s.rx)
<1>1. s.rx \in Seq(Frame)
  BY DEF IsPeer
<1>2. 1 \in DOMAIN s.rx /\ \A i \in DOMAIN s.rx : i = 1 \/ 1 < i
  BY <1>1
<1> SUFFICES ASSUME NEW i \in DOMAIN s.rx, s.rx[i].type = t, 1 < i PROVE s.rx[i].version = rs[t].version
  BY <1>2 DEF CurrentFrames
<1>3. Distance(s.rx[1].version, c) >= Distance(s.rx[i].version, c)
  BY <1>2 DEF GenuinePeer, InOrder
<1>4. Distance(s.rx[i].version, c) >= Distance(rs[t].version, c)
  BY DEF GenuinePeer, GenuineQueue, Genuine
<1>5. s.rx[i].version \in Version /\ rs[t].version \in Version
  BY PeerFields DEF RecordsFit
<1>6. Distance(s.rx[i].version, c) \in Version /\ Distance(rs[t].version, c) \in Version
  BY <1>5, DistanceFacts
<1>7. Distance(s.rx[i].version, c) = Distance(rs[t].version, c)
  BY <1>3, <1>4, <1>6 DEF Version
<1> QED BY <1>5, <1>7, SameDistance

\* A peer takes a frame from its queue, applies it and answers.
LEMMA FrameLinks ==
    ASSUME IndInv, Young, NetTypes, OwnerFits, Linked, NEW p \in Peer, ProcessStateChangeFrame(p)
    PROVE  Linked'
<1> DEFINE m == Head(peer[p].rx)
           s == [peer[p] EXCEPT !.rx = Tail(@)]
           n == ApplyRecord(s, m)
<1>1. /\ peer[p].rx # << >> /\ UNCHANGED <<localVars, table, acked>>
      /\ \/ s.online /\ s.known /\ peer' = [peer EXCEPT ![p] = n] /\ responses' = SendResponse(p, m)
         \/ peer' = [peer EXCEPT ![p] = s] /\ UNCHANGED responses
  BY DEF ProcessStateChangeFrame
<1>2. m \in Frame /\ m.version \in Version /\ m = peer[p].rx[1] /\ 1 \in DOMAIN peer[p].rx
  BY <1>1, HeadFrame
<1>3. IsPeer(peer[p])
  BY DEF NetTypes
<1>4. /\ IsPeer(s) /\ s.online = peer[p].online /\ s.known = peer[p].known /\ s.suspect = peer[p].suspect
      /\ s.copies = peer[p].copies /\ s.beats = peer[p].beats /\ s.rx = Tail(peer[p].rx)
      /\ \A rs, c : GenuinePeer(rs, c, peer[p]) => GenuinePeer(rs, c, s)
      /\ \A rs, t : PeerHolds(rs, peer[p], t) => PeerHolds(rs, s, t)
  BY <1>1, <1>3, PeerDequeues
<1>5. \A i \in DOMAIN s.rx : i \in Nat /\ i + 1 \in DOMAIN peer[p].rx /\ s.rx[i] = peer[p].rx[i + 1]
  <2>1. peer[p].rx \in Seq(Frame)
    BY <1>3 DEF IsPeer
  <2> HIDE DEF s
  <2> QED BY <2>1, <1>1, <1>4, TailParts
<1> HIDE DEF m, s
<1>6. \A i \in DOMAIN s.rx : \E j \in DOMAIN peer[p].rx : s.rx[i].version = peer[p].rx[j].version
  BY <1>5
<1>7. UNCHANGED <<records, counter, digest, online>>
  BY <1>1 DEF localVars
<1>8. CASE ~online
  BY <1>1, <1>7, <1>8 DEF Linked, Silence, SendResponse
<1>9. CASE online /\ peer' = [peer EXCEPT ![p] = s] /\ UNCHANGED responses
  <2>1. GenuinePeer(records, counter, s)
    BY <1>4, <1>9 DEF Linked, Connected
  <2>2. ASSUME NEW t \in Used(records), s.online, Answered(records, responses, acked', p, t) PROVE PeerHolds(records, s, t)
    BY <1>1, <1>4, <1>9, <2>2 DEF Linked, Connected
  <2>3. \A t \in Type : acked'[t] \subseteq acked[t]
    BY <1>1
  <2> QED BY <1>1, <1>4, <1>6, <1>9, <2>1, <2>2, <2>3, OneLinks
<1>10. CASE online /\ s.online /\ s.known /\ peer' = [peer EXCEPT ![p] = n] /\ responses' = SendResponse(p, m)
  <2>1. Connected(records, counter, digest, peer, responses, acked)
    BY <1>10 DEF Linked
  <2>2. GenuinePeer(records, counter, peer[p]) /\ GenuinePeer(records, counter, s)
    BY <1>4, <2>1 DEF Connected
  <2>3. counter \in Version /\ RecordsFit(records)
    BY RecordsFitNow DEF IndInv, LocalTypeOK
  <2>4. YoungPeer(counter, peer[p])
    BY <1>10 DEF Young
  <2>5. YoungPeer(counter, s)
    <3>1. \A i \in DOMAIN s.rx : Distance(s.rx[i].version, counter) <= Window
      BY <1>5, <2>4 DEF YoungPeer
    <3> QED BY <3>1, <1>4, <2>4 DEF YoungPeer
  <2>6. Genuine(records, counter, m.type, m.version, m.data) /\ Distance(m.version, counter) <= Window
    BY <1>2, <2>2, <2>4 DEF GenuinePeer, GenuineQueue, YoungPeer
  <2>7. /\ IsPeer(n) /\ n.rx = s.rx /\ n.online
        /\ GenuinePeer(records, counter, n)
        /\ \A t \in Used(records) : /\ CurrentFrames(records, t, s.rx)
                                    /\ t = m.type => m.version = records[t].version
                                    /\ t # m.type => PeerHolds(records, s, t)
                                    => PeerHolds(records, n, t)
    BY <1>2, <1>4, <1>10, <2>2, <2>3, <2>5, <2>6, ApplyKeeps
  <2> HIDE DEF n
  <2>8. \A q \in Peer : peer'[q] = IF q = p THEN n ELSE peer[q]
    BY <2>7, <1>10, OnePeer
  <2>9. responses' = responses \cup {<<p, m.version>>}
    BY <1>10 DEF SendResponse
  <2>10. ASSUME NEW t \in Used(records), Answered(records, responses', acked', p, t) PROVE PeerHolds(records, n, t)
    <3>1. Answered(records, responses, acked, p, t) \/ records[t].version = m.version
      BY <2>9, <2>10, <1>1 DEF Answered
    <3>2. CASE records[t].version = m.version
      <4>1. t = m.type
        BY <2>6, <3>2 DEF Genuine
      <4>2. CurrentFrames(records, t, peer[p].rx)
        BY <1>1, <1>2, <1>3, <2>2, <2>3, <3>2, <4>1, CurrentRest
      <4>3. CurrentFrames(records, t, s.rx)
        BY <4>2, <1>5 DEF CurrentFrames
      <4> QED BY <2>7, <3>2, <4>1, <4>3
    <3>3. CASE Answered(records, responses, acked, p, t)
      <4>1. PeerHolds(records, peer[p], t)
        BY <2>1, <3>3, <1>4, <1>10 DEF Connected
      <4>2. PeerHolds(records, s, t)
        BY <4>1, <1>4
      <4>3. t = m.type => m.version = records[t].version
        BY <4>1, <1>2 DEF PeerHolds, CurrentFrames
      <4>4. CurrentFrames(records, t, s.rx)
        BY <4>2 DEF PeerHolds
      <4> QED BY <2>7, <4>2, <4>3, <4>4
    <3> QED BY <3>1, <3>2, <3>3
  <2>11. ASSUME NEW q \in Peer, NEW t \in Used(records), peer'[q].online, Answered(records, responses', acked', q, t)
         PROVE  PeerHolds(records, peer'[q], t)
    <3>1. CASE q = p
      BY <2>8, <2>10, <2>11, <3>1
    <3>2. CASE q # p
      <4>1. Answered(records, responses, acked, q, t) /\ peer'[q] = peer[q]
        BY <2>8, <2>9, <2>11, <3>2, <1>1 DEF Answered
      <4> QED BY <4>1, <2>1, <2>11 DEF Connected
    <3> QED BY <3>1, <3>2
  <2>12. \A q \in Peer : GenuinePeer(records, counter, peer'[q])
    BY <2>1, <2>7, <2>8 DEF Connected
  <2>13. \A q \in Peer : \A i \in DOMAIN peer'[q].rx : \E j \in DOMAIN peer[q].rx : peer'[q].rx[i].version = peer[q].rx[j].version
    BY <2>7, <2>8, <1>6
  <2>14. \A r \in responses' : r \in responses \/ \E q \in Peer : \E j \in DOMAIN peer[q].rx : r[2] = peer[q].rx[j].version
    <3>1. m.version = peer[p].rx[1].version /\ <<p, m.version>>[2] = m.version
      BY <1>2
    <3> QED BY <2>9, <3>1, <1>2
  <2>15. Connected(records, counter, digest, peer', responses', acked')
    <3>1. \A t \in Used(records) : acked'[t] \subseteq acked[t]
      BY <1>1 DEF Used
    <3>2. \A t \in Used(records) : records[t].state = "live" => Entry(records, t) \in digest \/ acked'[t] \subseteq acked[t]
      BY <3>1
    <3>3. \A q \in Peer : \A i \in DOMAIN peer'[q].rx :
              \/ \E j \in DOMAIN peer[q].rx : peer'[q].rx[i].version = peer[q].rx[j].version
              \/ \A t \in Used(records) : records[t].state = "live" /\ records[t].version = peer'[q].rx[i].version => Entry(records, t) \in digest
      BY <2>13
    <3>4. \A q \in Peer, t \in Used(records) : peer'[q].online /\ Answered(records, responses', acked', q, t) => PeerHolds(records, peer'[q], t)
      BY <2>11
    <3> QED BY <2>1, <2>12, <2>14, <3>2, <3>3, <3>4, NetPeers
  <2> QED BY <1>7, <1>10, <2>15 DEF Linked
<1> QED BY <1>1, <1>8, <1>9, <1>10

\* A frame, a request or a response that is lost.
LEMMA LossLinks ==
    ASSUME NetTypes, Linked, Loss
    PROVE  Linked'
<1>1. UNCHANGED <<localVars, acked>> /\ responses' \subseteq responses
  BY DEF Loss
<1>2. CASE UNCHANGED peer
  BY <1>1, <1>2, SameRecords, LessLinks DEF localVars
<1>3. ASSUME NEW p \in Peer, peer[p].rx # << >>, peer' = [peer EXCEPT ![p] = [peer[p] EXCEPT !.rx = Tail(@)]], UNCHANGED responses
      PROVE  Linked'
  <2> DEFINE s == [peer[p] EXCEPT !.rx = Tail(@)]
  <2>1. IsPeer(peer[p]) /\ peer[p].rx \in Seq(Frame)
    BY DEF NetTypes, IsPeer
  <2>2. /\ IsPeer(s) /\ s.online = peer[p].online /\ s.rx = Tail(peer[p].rx)
        /\ \A rs, c : GenuinePeer(rs, c, peer[p]) => GenuinePeer(rs, c, s)
        /\ \A rs, t : PeerHolds(rs, peer[p], t) => PeerHolds(rs, s, t)
    BY <1>3, <2>1, PeerDequeues
  <2>3. peer' = [peer EXCEPT ![p] = s]
    BY <1>3
  <2> HIDE DEF s
  <2>4. \A i \in DOMAIN s.rx : \E j \in DOMAIN peer[p].rx : s.rx[i].version = peer[p].rx[j].version
    BY <1>3, <2>1, <2>2, TailParts
  <2>5. online => GenuinePeer(records, counter, s)
    BY <2>2 DEF Linked, Connected
  <2>6. ASSUME online, NEW t \in Used(records), s.online, Answered(records, responses, acked', p, t) PROVE PeerHolds(records, s, t)
    BY <1>1, <2>2, <2>6 DEF Linked, Connected
  <2>7. \A t \in Type : acked'[t] \subseteq acked[t]
    BY <1>1
  <2> QED BY <1>1, <1>3, <2>2, <2>3, <2>4, <2>5, <2>6, <2>7, OneLinks
<1> QED BY <1>2, <1>3 DEF Loss

-----------------------------------------------------------------------------
(* Acknowledged means held *)

\* At first the owner is offline and has no records.
LEMMA ReplicaInit == Init => OwnerFits /\ Linked
<1> SUFFICES ASSUME Init PROVE OwnerFits /\ Linked
  OBVIOUS
<1>1. OwnerTypes /\ digest = {} /\ InUse = {} /\ ~online
  BY TypesInit DEF Init, LocalInit, InUse, Free
<1>2. OwnerFits
  BY <1>1 DEF OwnerTypes, OwnerFits, VersionsDistinct, DigestFits, GenuineEntries
<1> QED BY <1>1, <1>2 DEF Init, Linked, Silence

ReplicaInv == IndInv /\ OwnerTypes /\ NetTypes /\ OwnerFits /\ Linked

\* Every step keeps the invariant, one case for each action.
LEMMA ReplicaStep == ReplicaInv /\ Young /\ [Next]_vars => ReplicaInv'
<1> SUFFICES ASSUME ReplicaInv, Young, [Next]_vars PROVE ReplicaInv'
  OBVIOUS
<1>1. IndInv /\ OwnerTypes /\ NetTypes /\ OwnerFits /\ Linked
  BY DEF ReplicaInv
<1>2. IndInv' /\ OwnerTypes' /\ NetTypes' /\ [LocalNext]_localVars
  BY <1>1, TypesStep
<1>3. OwnerFits'
  BY <1>1, <1>2, OwnerFitsStep
<1>4. ASSUME Change PROVE Linked'
  BY <1>1, <1>4, ChangeLinks
<1>5. ASSUME OwnerWork \/ SendHeartbeat PROVE Linked'
  BY <1>1, <1>5, RefreshLinks, SendLinks, ResponseLinks, ReplayLinks, BeatLinks DEF OwnerWork
<1>6. ASSUME NetworkNews PROVE Linked'
  BY <1>1, <1>2, <1>6, TableLinks, ReturnLinks, NewsLinks DEF NetworkNews
<1>7. ASSUME NEW p \in Peer, ProcessStateChangeFrame(p) \/ ProcessHeartbeat(p) \/ RateLimitExpires(p) \/ PeerLeaves(p)
      PROVE  Linked'
  BY <1>1, <1>7, FrameLinks, CheckLinks, NewsLinks
<1>8. ASSUME OwnerLeaves \/ Loss PROVE Linked'
  BY <1>1, <1>8, LeavesLinks, LossLinks
<1>9. ASSUME UNCHANGED vars PROVE Linked'
  <2>1. UNCHANGED <<localVars, peer, responses, acked>>
    BY <1>9 DEF vars, netVars
  <2> QED BY <1>1, <2>1, SameRecords, LessLinks DEF localVars
<1>10. Linked'
  BY <1>4, <1>5, <1>6, <1>7, <1>8, <1>9 DEF Next
<1> QED BY <1>2, <1>3, <1>10 DEF ReplicaInv

\* A peer that the owner takes for one that has the record has it.
LEMMA ReplicaImplies == ReplicaInv => AcknowledgedMeansHeld
<1> SUFFICES ASSUME ReplicaInv, NEW t \in Type, NEW p \in acked[t] \cap Listening, ~peer[p].suspect
             PROVE  /\ t \in Live => Holds(p, t)
                    /\ t \in Withdrawn => t \notin DOMAIN peer[p].copies
  BY DEF AcknowledgedMeansHeld
<1>1. CASE online
  <2>1. p \in Peer /\ peer[p].online
    BY DEF Listening
  <2>2. Answered(records, responses, acked, p, t)
    BY DEF Answered
  <2>3. t \in Used(records) => PeerHolds(records, peer[p], t)
    BY <1>1, <2>1, <2>2 DEF ReplicaInv, Linked, Connected
  <2> QED BY <2>3 DEF PeerHolds, HeldCopy, Holds, Live, Withdrawn, Used
<1>2. CASE ~online
  BY <1>2 DEF ReplicaInv, Linked, Silence
<1> QED BY <1>1, <1>2

\* A peer that acknowledged the current version of a record has it, or none of a withdrawn one, whatever was
\* lost, resent, replayed or overtaken, and whoever stopped or restarted: the response that ProcessStateChangeFrame()
\* sends for duplicates and outdated frames too is never taken for more than it says. Beyond the window of
\* IsNewer() a version says nothing about age, so nothing that is compared may be older than that (Young).
THEOREM AcknowledgedIsHeld == Spec /\ []Young => []AcknowledgedMeansHeld
<1>1. Init => ReplicaInv
  BY TypesInit, ReplicaInit DEF ReplicaInv
<1> QED BY <1>1, ReplicaStep, ReplicaImplies, PTL DEF Spec

-----------------------------------------------------------------------------
(* Until the counter has made as many stamps as the window has versions *)

\* Nothing a peer has or is sent is ahead of the owner's counter, except what it will not compare: stale
\* copies, and those of a peer that is suspect anyway.
EarlyPeer(c, s) ==
    /\ \A i \in DOMAIN s.rx : s.rx[i].version <= c
    /\ \A i \in DOMAIN s.beats : \A e \in s.beats[i] : e[2] <= c
    /\ s.online /\ ~s.suspect => \A t \in DOMAIN s.copies : s.copies[t].stale \/ s.copies[t].version <= c

EarlyOwner ==
    /\ \A t \in InUse : records[t].version <= counter
    /\ \A e \in digest : e[2] <= counter

EarlyNet ==
    IF online THEN (\A p \in Peer : EarlyPeer(counter, peer[p])) /\ \A r \in responses : r[2] <= counter
    ELSE responses = {}

\* The owner's counter, since its power came on.
NotWrapped == counter <= Window

\* While the counter has not wrapped, what is not ahead of it is not older than the window.
LEMMA EarlyIsYoung ==
    ASSUME IndInv, NetTypes, EarlyOwner, EarlyNet, NotWrapped
    PROVE  Young
<1>1. ASSUME NEW v \in Version, v <= counter PROVE Distance(v, counter) <= Window
  BY <1>1, WindowAssumption DEF IndInv, LocalTypeOK, Version, Modulus, Distance, NotWrapped
<1>2. ASSUME online, NEW p \in Peer PROVE YoungPeer(counter, peer[p])
  <2>1. IsPeer(peer[p]) /\ EarlyPeer(counter, peer[p])
    BY <1>2 DEF NetTypes, EarlyNet
  <2>2. \A i \in DOMAIN peer[p].rx : Distance(peer[p].rx[i].version, counter) <= Window
    BY <1>1, <2>1, PeerFields DEF EarlyPeer
  <2>3. \A i \in DOMAIN peer[p].beats : \A e \in peer[p].beats[i] : Distance(e[2], counter) <= Window
    BY <1>1, <2>1, PeerFields DEF EarlyPeer
  <2>4. ASSUME peer[p].online, ~peer[p].suspect, NEW t \in DOMAIN peer[p].copies
        PROVE  peer[p].copies[t].stale \/ Distance(peer[p].copies[t].version, counter) <= Window
    <3>1. peer[p].copies[t].version \in Version /\ (peer[p].copies[t].stale \/ peer[p].copies[t].version <= counter)
      BY <2>1, <2>4, PeerFields DEF EarlyPeer
    <3> QED BY <3>1, <1>1
  <2> QED BY <2>2, <2>3, <2>4 DEF YoungPeer
<1>3. ASSUME online, NEW r \in responses PROVE Distance(r[2], counter) <= Window
  BY <1>1, <1>3 DEF NetTypes, EarlyNet
<1>4. ASSUME NEW t \in Withdrawn PROVE LagOf(t) <= Window
  <2>1. records[t].version \in Version /\ records[t].version <= counter
    BY <1>4 DEF Withdrawn, InUse, EarlyOwner, IndInv, LocalTypeOK, Record
  <2> QED BY <2>1, <1>1 DEF LagOf
<1> QED BY <1>2, <1>3, <1>4 DEF Young

\* The next stamp is one more.
LEMMA NoWrapYet ==
    ASSUME IndInv, NotWrapped
    PROVE  NextVersion(counter) = counter + 1 /\ counter \in Nat
BY WindowAssumption DEF IndInv, LocalTypeOK, Version, Modulus, NextVersion, NotWrapped

\* The owner's records and digest are never ahead of its counter.
LEMMA EarlyOwnerStep ==
    ASSUME IndInv, OwnerTypes, EarlyOwner, NotWrapped, [LocalNext]_localVars
    PROVE  EarlyOwner' /\ (counter <= counter' \/ ~online')
<1>0. /\ counter \in Nat /\ counter <= counter /\ counter <= counter + 1
      /\ \A t \in InUse : records[t].version \in Nat /\ t \in Type
      /\ \A e \in digest : e[2] \in Nat
  <2>1. counter \in Nat /\ \A v \in Version : v \in Nat
    BY NoWrapYet DEF Version
  <2>2. \A t \in InUse : records[t].version \in Version /\ t \in Type
    BY DEF IndInv, LocalTypeOK, Record, InUse
  <2>3. \A e \in digest : e[2] \in Version
    BY DEF OwnerTypes, Beat
  <2> QED BY <2>1, <2>2, <2>3
<1>1. ASSUME NEW x, StampedOne(records, counter, records', x), counter' = NextVersion(counter), digest' = digest
      PROVE  EarlyOwner' /\ counter <= counter'
  <2>1. counter' = counter + 1
    BY <1>1, NoWrapYet
  <2>2. \A t \in InUse' : t = x \/ (t \in InUse /\ records'[t].version = records[t].version)
    BY <1>1 DEF InUse, StampedOne, KeptRecord
  <2>3. records'[x].version = counter + 1
    BY <1>1, NoWrapYet DEF StampedOne
  <2>4. \A t \in InUse' : records'[t].version <= counter'
    BY <2>1, <2>2, <2>3, <1>0 DEF EarlyOwner
  <2>5. \A e \in digest' : e[2] <= counter'
    BY <2>1, <1>0, <1>1 DEF EarlyOwner
  <2> QED BY <2>1, <2>4, <2>5, <1>0 DEF EarlyOwner
<1>2. ASSUME Kept(records, records'), counter' = counter, digest' = digest
      PROVE  EarlyOwner' /\ counter <= counter'
  <2>1. \A t \in InUse' : t \in InUse /\ records'[t].version = records[t].version
    BY <1>2 DEF InUse, Kept, KeptRecord
  <2> QED BY <2>1, <1>0, <1>2 DEF EarlyOwner
<1>3. ASSUME NEW t \in Type, ClearLocalState(t) \/ \E data \in Data : SetLocalState(t, data)
      PROVE  EarlyOwner' /\ counter <= counter'
  BY <1>1, <1>3, ChangeStamps
<1>4. ASSUME RefreshNext PROVE EarlyOwner' /\ counter <= counter'
  BY <1>1, <1>2, <1>4, RefreshStamps, SameRecords
<1>5. ASSUME FinishChange PROVE EarlyOwner' /\ counter <= counter'
  <2>1. digest' = Covered /\ UNCHANGED <<records, counter>>
    BY <1>5 DEF FinishChange
  <2>2. ASSUME NEW e \in Covered PROVE e[2] <= counter
    <3>1. PICK t \in Live : e = <<t, records[t].version, records[t].data>>
      BY DEF Covered
    <3>2. t \in InUse /\ e[2] = records[t].version
      BY <3>1 DEF Live, InUse
    <3> QED BY <3>2 DEF EarlyOwner
  <2>3. InUse' = InUse
    BY <2>1 DEF InUse
  <2> QED BY <2>1, <2>2, <2>3, <1>0 DEF EarlyOwner
<1>6. ASSUME QuietStep PROVE EarlyOwner' /\ counter <= counter'
  <2>1. Kept(records, records') /\ counter' = counter /\ digest' = digest
    BY <1>6 DEF QuietStep, Kept, KeptRecord, Free
  <2> QED BY <2>1, <1>2
<1>7. ASSUME Reboot PROVE EarlyOwner' /\ ~online'
  <2>1. records' = [t \in Type |-> Free] /\ digest' = {} /\ ~online'
    BY <1>7 DEF Reboot
  <2>2. InUse' = {}
    BY <2>1 DEF InUse, Free
  <2> QED BY <2>1, <2>2 DEF EarlyOwner
<1>8. ASSUME UNCHANGED localVars PROVE EarlyOwner' /\ counter <= counter'
  BY <1>2, <1>8, SameRecords DEF localVars
<1>9. ASSUME NEW peers \in SUBSET Peer, NEW due \in SUBSET Type, Transmit(peers, due) PROVE QuietStep
  BY <1>9, TransmitIsQuiet
<1>10. ASSUME NEW q \in Peer, DropPeer(q) PROVE QuietStep
  BY <1>10, DropPeerIsQuiet
<1>11. ASSUME NEW q \in Peer, NEW version \in Version, ProcessResponse(q, version) PROVE QuietStep
  BY <1>11, ResponseIsQuiet
<1>12. ASSUME EnterOnline \/ LeaveOnline PROVE QuietStep
  BY <1>12, OnlineIsQuiet
<1> QED BY <1>3, <1>4, <1>5, <1>6, <1>7, <1>8, <1>9, <1>10, <1>11, <1>12 DEF LocalNext

\* The counter goes on.
LEMMA EarlyPeerLater ==
    ASSUME NEW c \in Nat, NEW d \in Nat, c <= d, NEW s, IsPeer(s), EarlyPeer(c, s)
    PROVE  EarlyPeer(d, s)
<1>1. \A v \in Version : v <= c => v <= d
  BY DEF Version
<1>2. \A i \in DOMAIN s.rx : s.rx[i].version <= d
  BY <1>1, PeerFields DEF EarlyPeer
<1>3. \A i \in DOMAIN s.beats : \A e \in s.beats[i] : e[2] <= d
  BY <1>1, PeerFields DEF EarlyPeer
<1>4. ASSUME s.online, ~s.suspect, NEW t \in DOMAIN s.copies PROVE s.copies[t].stale \/ s.copies[t].version <= d
  <2>1. s.copies[t].version \in Version /\ (s.copies[t].stale \/ s.copies[t].version <= c)
    BY <1>4, PeerFields DEF EarlyPeer
  <2> QED BY <2>1, <1>1
<1> QED BY <1>2, <1>3, <1>4 DEF EarlyPeer

\* The owner works, and nobody sends.
LEMMA EarlyLater ==
    ASSUME IndInv, IndInv', NetTypes, EarlyNet, UNCHANGED <<peer, online>>, responses' \subseteq responses, counter <= counter' \/ ~online'
    PROVE  EarlyNet'
<1>1. counter \in Nat /\ counter' \in Nat
  BY DEF IndInv, LocalTypeOK, Version
<1>2. CASE online
  <2>1. counter <= counter'
    BY <1>2
  <2>2. \A p \in Peer : EarlyPeer(counter', peer[p])
    BY <1>1, <1>2, <2>1, EarlyPeerLater DEF EarlyNet, NetTypes
  <2>3. ASSUME NEW r \in responses' PROVE r[2] <= counter'
    <3>1. r[2] \in Version /\ r[2] <= counter
      BY <1>2, <2>3 DEF EarlyNet, NetTypes
    <3> QED BY <1>1, <2>1, <3>1 DEF Version
  <2> QED BY <1>2, <2>2, <2>3 DEF EarlyNet
<1>3. CASE ~online
  BY <1>3 DEF EarlyNet
<1> QED BY <1>2, <1>3

\* Frames of the owner's records.
LEMMA EarlyBroadcast ==
    ASSUME IndInv, NetTypes, EarlyOwner, EarlyNet, NEW types, types \subseteq InUse, Broadcast(types), online,
           UNCHANGED <<counter, online, responses>>
    PROVE  EarlyNet'
<1>1. ASSUME NEW p \in Peer PROVE EarlyPeer(counter, peer'[p])
  <2>1. /\ SameBut(peer'[p], peer[p], "rx")
        /\ \A i \in DOMAIN peer'[p].rx : \/ i \in DOMAIN peer[p].rx /\ peer'[p].rx[i] = peer[p].rx[i]
                                         \/ \E t \in InUse : peer'[p].rx[i] = Notification(t)
    BY BroadcastParts
  <2>2. EarlyPeer(counter, peer[p])
    BY DEF EarlyNet
  <2>3. \A t \in InUse : Notification(t).version <= counter
    BY DEF Notification, EarlyOwner
  <2>4. \A i \in DOMAIN peer'[p].rx : peer'[p].rx[i].version <= counter
    BY <2>1, <2>2, <2>3 DEF EarlyPeer
  <2> QED BY <2>1, <2>2, <2>4 DEF SameBut, EarlyPeer
<1> QED BY <1>1 DEF EarlyNet

\* A step of one peer.
LEMMA EarlyOne ==
    ASSUME NetTypes, EarlyNet, NEW p \in Peer, NEW n, IsPeer(n), peer' = [peer EXCEPT ![p] = n],
           online => EarlyPeer(counter, n),
           \A r \in responses' : r \in responses \/ (online /\ r[2] <= counter),
           UNCHANGED localVars
    PROVE  EarlyNet'
<1>1. peer'[p] = n /\ \A q \in Peer \ {p} : peer'[q] = peer[q]
  BY OnePeer
<1>2. UNCHANGED <<counter, online>>
  BY DEF localVars
<1>3. CASE online
  <2>1. \A q \in Peer : EarlyPeer(counter, peer'[q])
    BY <1>1, <1>3 DEF EarlyNet
  <2> QED BY <1>2, <1>3, <2>1 DEF EarlyNet
<1>4. CASE ~online
  BY <1>2, <1>4 DEF EarlyNet
<1> QED BY <1>3, <1>4

\* Taking a frame from the queue.
LEMMA EarlyDequeue ==
    ASSUME NEW c, NEW s, IsPeer(s), s.rx # << >>, EarlyPeer(c, s)
    PROVE  EarlyPeer(c, [s EXCEPT !.rx = Tail(@)])
<1> DEFINE n == [s EXCEPT !.rx = Tail(@)]
<1>1. n.online = s.online /\ n.suspect = s.suspect /\ n.copies = s.copies /\ n.beats = s.beats /\ n.rx = Tail(s.rx)
  BY PeerDequeues
<1>2. s.rx \in Seq(Frame)
  BY DEF IsPeer
<1> HIDE DEF n
<1>3. \A i \in DOMAIN n.rx : n.rx[i].version <= c
  BY <1>1, <1>2, TailParts DEF EarlyPeer
<1>4. EarlyPeer(c, n)
  BY <1>1, <1>3 DEF EarlyPeer
<1> QED BY <1>4 DEF n

\* Storing what a frame says.
LEMMA EarlyApply ==
    ASSUME NEW c, NEW s, IsPeer(s), EarlyPeer(c, s), NEW m, m.version <= c
    PROVE  EarlyPeer(c, ApplyRecord(s, m))
<1> DEFINE n == ApplyRecord(s, m)
<1>0. PeerShape(s)
  BY DEF IsPeer
<1>6. \/ n = s
      \/ SameBut(n, s, "copies") /\ DOMAIN n.copies = DOMAIN s.copies \ {m.type}
         /\ \A t \in DOMAIN n.copies : n.copies[t] = s.copies[t]
      \/ n.suspect = TRUE /\ SameBut(n, s, "suspect")
      \/ SameBut(n, s, "copies") /\ DOMAIN n.copies = DOMAIN s.copies \cup {m.type}
         /\ (\A t \in DOMAIN n.copies \ {m.type} : n.copies[t] = s.copies[t]) /\ n.copies[m.type] = Copy(m)
  BY <1>0, ApplyCases
<1> HIDE DEF n
<1>1. \/ n = s
      \/ n.suspect = TRUE /\ SameBut(n, s, "suspect")
      \/ SameBut(n, s, "copies") /\ \A t \in DOMAIN n.copies : \/ n.copies[t] = Copy(m)
                                                              \/ (t \in DOMAIN s.copies /\ n.copies[t] = s.copies[t])
  BY <1>6
<1>2. Copy(m).version = m.version
  BY DEF Copy
<1>3. CASE n = s
  <2>1. EarlyPeer(c, n)
    BY <1>3
  <2> QED BY <2>1 DEF n
<1>4. CASE n.suspect = TRUE /\ SameBut(n, s, "suspect")
  <2>1. EarlyPeer(c, n)
    BY <1>4 DEF SameBut, EarlyPeer
  <2> QED BY <2>1 DEF n
<1>5. CASE SameBut(n, s, "copies") /\ \A t \in DOMAIN n.copies : \/ n.copies[t] = Copy(m)
                                                                \/ (t \in DOMAIN s.copies /\ n.copies[t] = s.copies[t])
  <2>1. n.rx = s.rx /\ n.beats = s.beats /\ n.online = s.online /\ n.suspect = s.suspect
    BY <1>5 DEF SameBut
  <2>2. ASSUME n.online, ~n.suspect, NEW t \in DOMAIN n.copies PROVE n.copies[t].stale \/ n.copies[t].version <= c
    BY <1>2, <1>5, <2>1, <2>2 DEF EarlyPeer
  <2>3. EarlyPeer(c, n)
    BY <2>1, <2>2 DEF EarlyPeer
  <2> QED BY <2>3 DEF n
<1> QED BY <1>1, <1>3, <1>4, <1>5 DEF n

\* Copies that a digest lists are not ahead of it.
LEMMA EarlyListed ==
    ASSUME NEW c, NEW copies, NEW beat, DigestOf(copies) = beat, \A e \in beat : e[2] <= c
    PROVE  \A t \in DOMAIN copies : copies[t].version <= c
<1> TAKE t \in DOMAIN copies
<1> DEFINE e == <<t, copies[t].version, copies[t].data>>
<1>1. e \in beat /\ e[2] = copies[t].version
  BY DEF DigestOf
<1> HIDE DEF e
<1> QED BY <1>1

\* What a digest check leaves is stale, or was in the digest.
LEMMA EarlyHeartbeat ==
    ASSUME NEW c, NEW s, IsPeer(s), s.beats # << >>, EarlyPeer(c, s)
    PROVE  LET n == OnHeartbeat(s, Head(s.beats))
           IN n.online /\ ~n.suspect => \A t \in DOMAIN n.copies : n.copies[t].stale \/ n.copies[t].version <= c
<1> DEFINE beat == Head(s.beats)
           n == OnHeartbeat(s, beat)
           u == [s EXCEPT !.suspect = s.suspect /\ beat # Covered]
           stale == StaleTypes(s.copies)
           fresh == Without(s.copies, stale)
<1>1. \A e \in beat : e[2] <= c
  <2>1. s.beats \in Seq(Beat)
    BY DEF IsPeer
  <2>2. beat = s.beats[1] /\ 1 \in DOMAIN s.beats
    BY <2>1
  <2> QED BY <2>2 DEF EarlyPeer
<1> HIDE DEF beat
<1>2. u.suspect = (s.suspect /\ beat # Covered) /\ SameBut(u, s, "suspect")
  BY PeerSuspect DEF IsPeer
<1>3. \/ n = s \/ n = [s EXCEPT !.copies = AllStale(s.copies)]
      \/ DigestOf(s.copies) = beat /\ n = [u EXCEPT !.copies = NoneStale(u.copies)]
      \/ DigestOf(fresh) = beat /\ n = RemoveRemoteRecords(u, stale)
  BY DEF OnHeartbeat, DigestDiffers, MatchesWithoutStale
<1> HIDE DEF u
<1>4. PeerShape(u) /\ u.copies = s.copies
  BY <1>2 DEF SameBut
<1>5. CASE n = s
  BY <1>5 DEF EarlyPeer, beat
<1>6. CASE n = [s EXCEPT !.copies = AllStale(s.copies)]
  <2>1. n.copies = AllStale(s.copies)
    BY <1>6, PeerCopies DEF IsPeer
  <2> HIDE DEF n
  <2>2. \A t \in DOMAIN n.copies : n.copies[t].stale
    BY <2>1, StaleParts
  <2> QED BY <2>2 DEF n, beat
<1>7. CASE DigestOf(s.copies) = beat /\ n = [u EXCEPT !.copies = NoneStale(u.copies)]
  <2>1. n.copies = NoneStale(s.copies)
    BY <1>4, <1>7, PeerCopies
  <2> HIDE DEF n
  <2>2. DOMAIN n.copies = DOMAIN s.copies /\ \A t \in DOMAIN s.copies : n.copies[t].version = s.copies[t].version
    BY <2>1, StaleParts
  <2>3. \A t \in DOMAIN n.copies : n.copies[t].version <= c
    BY <1>1, <1>7, <2>2, EarlyListed
  <2> QED BY <2>3 DEF n, beat
<1>8. CASE DigestOf(fresh) = beat /\ n = RemoveRemoteRecords(u, stale)
  <2>1. DOMAIN n.copies = DOMAIN s.copies \ stale /\ \A t \in DOMAIN n.copies : n.copies[t] = s.copies[t]
    BY <1>4, <1>8, RemoveParts
  <2> HIDE DEF n
  <2>2. DOMAIN fresh = DOMAIN n.copies /\ \A t \in DOMAIN n.copies : fresh[t] = n.copies[t]
    BY <2>1 DEF Without
  <2> HIDE DEF fresh, stale
  <2>3. \A t \in DOMAIN n.copies : n.copies[t].version <= c
    BY <1>1, <1>8, <2>2, EarlyListed
  <2> QED BY <2>3 DEF n, beat
<1> QED BY <1>3, <1>5, <1>6, <1>7, <1>8

\* The heartbeat takes the digest along.
LEMMA EarlyBeat ==
    ASSUME NetTypes, EarlyOwner, EarlyNet, SendHeartbeat
    PROVE  EarlyNet'
<1>1. /\ online /\ UNCHANGED <<localVars, responses>>
      /\ peer' = [p \in Peer |-> IF p \in Listening THEN [peer[p] EXCEPT !.beats = <<digest>>] ELSE peer[p]]
  BY DEF SendHeartbeat
<1>2. UNCHANGED <<counter, online>>
  BY <1>1 DEF localVars
<1>3. ASSUME NEW p \in Peer PROVE EarlyPeer(counter, peer'[p])
  <2> DEFINE s == peer[p]
             n == [s EXCEPT !.beats = <<digest>>]
  <2>1. PeerShape(s) /\ EarlyPeer(counter, s)
    BY <1>1 DEF NetTypes, IsPeer, EarlyNet
  <2>2. peer'[p] = n \/ peer'[p] = s
    BY <1>1
  <2> HIDE DEF s
  <2>3. n.beats = <<digest>> /\ SameBut(n, s, "beats")
    BY <2>1, PeerNews
  <2> HIDE DEF n
  <2>4. n.rx = s.rx /\ n.copies = s.copies /\ n.suspect = s.suspect /\ n.online = s.online
    BY <2>3 DEF SameBut
  <2>5. \A i \in DOMAIN n.beats : n.beats[i] = digest
    BY <2>3
  <2>6. EarlyPeer(counter, n)
    BY <2>1, <2>4, <2>5 DEF EarlyPeer, EarlyOwner
  <2> QED BY <2>1, <2>2, <2>6
<1> QED BY <1>1, <1>2, <1>3 DEF EarlyNet

\* The owner comes back with whatever counter: nothing of before is left to be compared with it.
LEMMA EarlyReturn ==
    ASSUME NetTypes, EarlyNet, OwnerReturns
    PROVE  EarlyNet'
<1>1. EnterOnline /\ UNCHANGED responses /\ \A p \in Peer : peer[p].rx = << >> /\ peer[p].beats = << >>
  BY DEF OwnerReturns
<1>2. ~online /\ online' /\ UNCHANGED counter
  BY <1>1 DEF EnterOnline
<1>3. responses' = {}
  BY <1>1, <1>2 DEF EarlyNet
<1>4. \A p \in Peer : peer'[p] = OnRestarted(peer[p]) \/ peer'[p] = [peer[p] EXCEPT !.suspect = peer[p].suspect \/ peer[p].known]
  BY DEF OwnerReturns
<1>5. ASSUME NEW p \in Peer PROVE EarlyPeer(counter, peer'[p])
  <2> DEFINE s == peer[p]
             n == [s EXCEPT !.suspect = s.suspect \/ s.known]
             r == [s EXCEPT !.copies = AllStale(s.copies)]
  <2>0. IsPeer(s) /\ PeerShape(s) /\ s.rx = << >> /\ s.beats = << >> /\ s.suspect \in BOOLEAN
    BY <1>1 DEF NetTypes, IsPeer
  <2>1. peer'[p] = r \/ peer'[p] = n
    BY <1>4 DEF OnRestarted
  <2> HIDE DEF s
  <2>2. DOMAIN s.rx = {} /\ DOMAIN s.beats = {}
    BY <2>0
  <2>3. EarlyPeer(counter, r)
    <3>1. r.copies = AllStale(s.copies) /\ SameBut(r, s, "copies")
      BY <2>0, PeerCopies
    <3> HIDE DEF r
    <3>2. \A t \in DOMAIN r.copies : r.copies[t].stale
      BY <2>0, <3>1, StaleParts
    <3>3. DOMAIN r.rx = {} /\ DOMAIN r.beats = {}
      BY <2>2, <3>1 DEF SameBut
    <3> QED BY <3>2, <3>3 DEF EarlyPeer
  <2>4. EarlyPeer(counter, n)
    <3>1. n.suspect = (s.suspect \/ s.known) /\ SameBut(n, s, "suspect")
      BY <2>0, PeerSuspect
    <3> HIDE DEF n
    <3>2. DOMAIN n.rx = {} /\ DOMAIN n.beats = {} /\ n.copies = s.copies
      BY <2>2, <3>1 DEF SameBut
    <3>3. n.suspect \/ DOMAIN n.copies = {}
      BY <2>0, <3>1, <3>2 DEF IsPeer
    <3> QED BY <3>2, <3>3 DEF EarlyPeer
  <2> QED BY <2>1, <2>3, <2>4
<1> QED BY <1>2, <1>3, <1>5 DEF EarlyNet

\* The network service of a peer, its stop and its rate limit.
LEMMA EarlyNews ==
    ASSUME NetTypes, EarlyNet, NEW p \in Peer, OwnerJoined(p) \/ OwnerLeft(p) \/ RateLimitExpires(p) \/ PeerJoins(p) \/ PeerLeaves(p)
    PROVE  EarlyNet'
<1>0. IsPeer(peer[p]) /\ PeerShape(peer[p]) /\ (online => EarlyPeer(counter, peer[p]))
  BY DEF NetTypes, IsPeer, EarlyNet
<1>1. CASE OwnerJoined(p)
  <2> DEFINE n == [peer[p] EXCEPT !.known = TRUE]
  <2>1. UNCHANGED <<localVars, responses>> /\ peer' = [peer EXCEPT ![p] = n] /\ peer[p].online
    BY <1>1 DEF OwnerJoined
  <2>2. IsPeer(n) /\ SameBut(n, peer[p], "known")
    BY <1>0, <2>1, PeerSteps, PeerNews
  <2> HIDE DEF n
  <2>3. online => EarlyPeer(counter, n)
    BY <1>0, <2>2 DEF SameBut, EarlyPeer
  <2> QED BY <2>1, <2>2, <2>3, EarlyOne
<1>2. CASE OwnerLeft(p)
  <2>1. ~online /\ UNCHANGED <<localVars, responses>>
    BY <1>2 DEF OwnerLeft
  <2> QED BY <2>1 DEF EarlyNet, localVars
<1>3. CASE RateLimitExpires(p)
  <2> DEFINE n == [peer[p] EXCEPT !.limited = FALSE]
  <2>1. UNCHANGED <<localVars, responses>> /\ peer' = [peer EXCEPT ![p] = n]
    BY <1>3 DEF RateLimitExpires
  <2>2. IsPeer(n) /\ SameBut(n, peer[p], "flag")
    BY <1>0, <2>1, PeerSteps, PeerFlags
  <2> HIDE DEF n
  <2>3. online => EarlyPeer(counter, n)
    BY <1>0, <2>2 DEF SameBut, EarlyPeer
  <2> QED BY <2>1, <2>2, <2>3, EarlyOne
<1>4. CASE PeerJoins(p)
  <2> DEFINE n == [peer[p] EXCEPT !.online = TRUE]
  <2>1. UNCHANGED <<localVars, responses>> /\ peer' = [peer EXCEPT ![p] = n] /\ ~peer[p].online
    BY <1>4 DEF PeerJoins
  <2>2. IsPeer(n) /\ SameBut(n, peer[p], "online")
    BY <1>0, <2>1, PeerSteps, PeerNews
  <2> HIDE DEF n
  <2>3. DOMAIN n.copies = {} /\ n.rx = peer[p].rx /\ n.beats = peer[p].beats
    BY <1>0, <2>1, <2>2 DEF SameBut, IsPeer
  <2>4. online => EarlyPeer(counter, n)
    BY <1>0, <2>3 DEF EarlyPeer
  <2> QED BY <2>1, <2>2, <2>4, EarlyOne
<1>5. CASE PeerLeaves(p)
  <2>1. UNCHANGED <<localVars, responses>> /\ peer' = [peer EXCEPT ![p] = Offline]
    BY <1>5 DEF PeerLeaves
  <2>2. IsPeer(Offline) /\ ~Offline.online /\ DOMAIN Offline.rx = {} /\ DOMAIN Offline.beats = {}
    BY OfflineIsPeer DEF Offline
  <2>3. EarlyPeer(counter, Offline)
    BY <2>2 DEF EarlyPeer
  <2> QED BY <2>1, <2>2, <2>3, EarlyOne
<1> QED BY <1>1, <1>2, <1>3, <1>4, <1>5

\* A frame that a peer takes from its queue, or that is lost.
LEMMA EarlyFrame ==
    ASSUME NetTypes, EarlyNet, NEW p \in Peer, ProcessStateChangeFrame(p)
    PROVE  EarlyNet'
<1> DEFINE m == Head(peer[p].rx)
           s == [peer[p] EXCEPT !.rx = Tail(@)]
<1>1. /\ peer[p].rx # << >> /\ UNCHANGED localVars
      /\ \/ s.known /\ peer' = [peer EXCEPT ![p] = ApplyRecord(s, m)] /\ responses' = SendResponse(p, m)
         \/ peer' = [peer EXCEPT ![p] = s] /\ UNCHANGED responses
  BY DEF ProcessStateChangeFrame
<1>2. m \in Frame /\ m = peer[p].rx[1] /\ 1 \in DOMAIN peer[p].rx /\ IsPeer(s) /\ IsPeer(peer[p])
  BY <1>1, HeadFrame DEF NetTypes
<1>3. online => m.version <= counter /\ EarlyPeer(counter, s)
  <2>1. online => EarlyPeer(counter, peer[p])
    BY DEF EarlyNet
  <2>2. online => peer[p].rx[1].version <= counter
    BY <1>2, <2>1 DEF EarlyPeer
  <2> QED BY <1>1, <1>2, <2>1, <2>2, EarlyDequeue
<1> HIDE DEF m, s
<1>4. online => EarlyPeer(counter, ApplyRecord(s, m))
  BY <1>2, <1>3, EarlyApply
<1>5. s.known => IsPeer(ApplyRecord(s, m))
  BY <1>2, ApplyIsPeer
<1>6. \A r \in SendResponse(p, m) : r \in responses \/ (online /\ r[2] <= counter)
  BY <1>3 DEF SendResponse
<1>7. CASE s.known /\ peer' = [peer EXCEPT ![p] = ApplyRecord(s, m)] /\ responses' = SendResponse(p, m)
  BY <1>1, <1>4, <1>5, <1>6, <1>7, EarlyOne
<1>8. CASE peer' = [peer EXCEPT ![p] = s] /\ UNCHANGED responses
  BY <1>1, <1>2, <1>3, <1>8, EarlyOne
<1> QED BY <1>1, <1>7, <1>8

\* The digest check: copies that match it are not ahead of the counter, the others are stale.
LEMMA EarlyCheck ==
    ASSUME NetTypes, EarlyNet, NEW p \in Peer, ProcessHeartbeat(p)
    PROVE  EarlyNet'
<1> DEFINE s == peer[p]
           u == IF s.known THEN OnHeartbeat(s, Head(s.beats)) ELSE s
           limited == u.limited \/ (s.known /\ DigestDiffers(s, Head(s.beats)) /\ ~s.limited)
           none == << >>
           n == [u EXCEPT !.beats = none, !.limited = limited]
<1>1. UNCHANGED <<localVars, responses>> /\ peer' = [peer EXCEPT ![p] = n] /\ s.beats # << >>
  BY DEF ProcessHeartbeat
<1>2. IsPeer(s) /\ (online => EarlyPeer(counter, s))
  BY DEF NetTypes, EarlyNet
<1>3. none \in Seq(Beat) /\ DOMAIN none = {}
  OBVIOUS
<1>4. IsPeer(u) /\ u.rx = s.rx
  BY <1>2, HeartbeatIsPeer
<1>5. online /\ u.online /\ ~u.suspect => \A t \in DOMAIN u.copies : u.copies[t].stale \/ u.copies[t].version <= counter
  <2>1. CASE s.known
    <3>1. u = OnHeartbeat(s, Head(s.beats))
      BY <2>1
    <3> HIDE DEF u, s
    <3> QED BY <3>1, <1>1, <1>2, EarlyHeartbeat
  <2>2. CASE ~s.known
    <3>1. u = s
      BY <2>2
    <3> HIDE DEF u, s
    <3> QED BY <3>1, <1>2 DEF EarlyPeer
  <2> QED BY <2>1, <2>2
<1> HIDE DEF u, limited, none
<1>6. IsPeer(n) /\ n.beats = none /\ SameBut(n, u, "beats")
  <2>1. PeerShape(u)
    BY <1>4 DEF IsPeer
  <2>2. IsPeer(n)
    BY <1>3, <1>4, PeerSteps
  <2> QED BY <2>1, <2>2, PeerBeats
<1> HIDE DEF n
<1>7. n.rx = s.rx /\ n.online = u.online /\ n.copies = u.copies /\ n.suspect = u.suspect
  BY <1>4, <1>6 DEF SameBut
<1>8. online => EarlyPeer(counter, n)
  BY <1>2, <1>3, <1>5, <1>6, <1>7 DEF EarlyPeer
<1> QED BY <1>1, <1>6, <1>8, EarlyOne

\* A lost frame.
LEMMA EarlyLoss ==
    ASSUME IndInv, IndInv', NetTypes, EarlyNet, Loss
    PROVE  EarlyNet'
<1>0. counter \in Nat /\ counter <= counter
  BY DEF IndInv, LocalTypeOK, Version
<1>1. UNCHANGED localVars /\ responses' \subseteq responses
  BY DEF Loss
<1>2. CASE UNCHANGED peer
  BY <1>0, <1>1, <1>2, EarlyLater DEF localVars
<1>3. ASSUME NEW p \in Peer, peer[p].rx # << >>, peer' = [peer EXCEPT ![p] = [peer[p] EXCEPT !.rx = Tail(@)]], UNCHANGED responses
      PROVE  EarlyNet'
  <2> DEFINE s == [peer[p] EXCEPT !.rx = Tail(@)]
  <2>1. IsPeer(peer[p]) /\ (online => EarlyPeer(counter, peer[p]))
    BY DEF NetTypes, EarlyNet
  <2>2. IsPeer(s) /\ peer' = [peer EXCEPT ![p] = s]
    BY <1>3, HeadFrame
  <2>3. online => EarlyPeer(counter, s)
    BY <1>3, <2>1, EarlyDequeue
  <2> HIDE DEF s
  <2> QED BY <1>1, <1>3, <2>2, <2>3, EarlyOne
<1> QED BY <1>2, <1>3 DEF Loss

\* What the owner itself does.
LEMMA EarlyOwnerWork ==
    ASSUME IndInv, IndInv', OwnerTypes, NetTypes, EarlyOwner, EarlyNet, counter <= counter' \/ ~online',
           Change \/ OwnerWork \/ AddPeer \/ RemovePeer
    PROVE  EarlyNet'
<1>1. CASE Change \/ Refresh
  <2>1. UNCHANGED <<peer, responses>>
    BY <1>1 DEF Change, Refresh
  <2>2. UNCHANGED online
    BY <1>1, ChangeStamps, RefreshStamps DEF Change, Refresh, FinishChange
  <2> QED BY <2>1, <2>2, EarlyLater
<1>2. CASE SendChanges
  <2>1. PICK due \in SUBSET Waiting : Transmit(table, due) /\ Broadcast(Announced \cup due) /\ UNCHANGED responses
    BY <1>2 DEF SendChanges
  <2>2. Announced \cup due \subseteq InUse
    BY DEF Waiting, Announced, InUse
  <2>3. online /\ UNCHANGED <<counter, online>>
    BY <2>1 DEF Transmit
  <2> QED BY <2>1, <2>2, <2>3, EarlyBroadcast
<1>3. CASE ReceiveResponse
  <2>1. UNCHANGED <<peer, online>> /\ responses' \subseteq responses
    BY <1>3 DEF ReceiveResponse, ProcessResponse
  <2> QED BY <2>1, EarlyLater
<1>4. CASE ProcessSyncRequest
  <2>1. UNCHANGED <<localVars, responses>> /\ ReplayRecords
    BY <1>4 DEF ProcessSyncRequest
  <2>2. UNCHANGED <<counter, online>>
    BY <2>1 DEF localVars
  <2>3. CASE online
    <3>1. Live \subseteq InUse /\ Broadcast(Live)
      BY <2>1, <2>3 DEF Live, InUse, ReplayRecords
    <3> QED BY <2>1, <2>2, <2>3, <3>1, EarlyBroadcast
  <2>4. CASE ~online
    BY <2>1, <2>2, <2>4 DEF EarlyNet
  <2> QED BY <2>3, <2>4
<1>5. CASE AddPeer
  <2>1. UNCHANGED <<localVars, peer, responses>>
    BY <1>5 DEF AddPeer
  <2> QED BY <2>1, EarlyLater DEF localVars
<1>6. CASE RemovePeer
  <2>1. UNCHANGED <<peer, online, responses>>
    BY <1>6 DEF RemovePeer, DropPeer
  <2> QED BY <2>1, EarlyLater
<1> QED BY <1>1, <1>2, <1>3, <1>4, <1>5, <1>6 DEF OwnerWork

Early == IndInv /\ OwnerTypes /\ NetTypes /\ EarlyOwner /\ EarlyNet

\* Every step before the counter wraps.
LEMMA EarlyStep == Early /\ NotWrapped /\ [Next]_vars => Early'
<1> SUFFICES ASSUME Early, NotWrapped, [Next]_vars PROVE Early'
  OBVIOUS
<1>1. IndInv /\ OwnerTypes /\ NetTypes /\ EarlyOwner /\ EarlyNet
  BY DEF Early
<1>2. IndInv' /\ OwnerTypes' /\ NetTypes' /\ [LocalNext]_localVars
  BY <1>1, TypesStep
<1>3. EarlyOwner' /\ (counter <= counter' \/ ~online')
  BY <1>1, <1>2, EarlyOwnerStep
<1>4. ASSUME Change \/ OwnerWork \/ SendHeartbeat PROVE EarlyNet'
  BY <1>1, <1>2, <1>3, <1>4, EarlyOwnerWork, EarlyBeat
<1>5. ASSUME NetworkNews PROVE EarlyNet'
  BY <1>1, <1>2, <1>3, <1>5, EarlyOwnerWork, EarlyReturn, EarlyNews DEF NetworkNews
<1>6. ASSUME NEW p \in Peer, ProcessStateChangeFrame(p) \/ ProcessHeartbeat(p) \/ RateLimitExpires(p) \/ PeerLeaves(p)
      PROVE  EarlyNet'
  BY <1>1, <1>6, EarlyFrame, EarlyCheck, EarlyNews
<1>7. ASSUME OwnerLeaves PROVE EarlyNet'
  <2>1. (LeaveOnline \/ Reboot) /\ responses' = {}
    BY <1>7 DEF OwnerLeaves
  <2>2. ~online'
    BY <2>1 DEF LeaveOnline, Reboot
  <2> QED BY <2>1, <2>2 DEF EarlyNet
<1>8. ASSUME Loss PROVE EarlyNet'
  BY <1>1, <1>2, <1>8, EarlyLoss
<1>9. ASSUME UNCHANGED vars PROVE EarlyNet'
  <2>1. UNCHANGED <<counter, online, peer, responses>>
    BY <1>9 DEF vars, netVars, localVars
  <2> QED BY <1>1, <2>1 DEF EarlyNet
<1>10. EarlyNet'
  BY <1>4, <1>5, <1>6, <1>7, <1>8, <1>9 DEF Next
<1> QED BY <1>2, <1>3, <1>10 DEF Early

\* As long as the owner's counter has not gone past the window - after 127 stamps since its power came
\* on - nothing that is compared can be too old, and AcknowledgedIsHeld needs no hypothesis about delays.
THEOREM AcknowledgedBeforeWrap == Spec /\ []NotWrapped => []AcknowledgedMeansHeld
<1>1. Init => Early
  <2> SUFFICES ASSUME Init PROVE Early
    OBVIOUS
  <2>1. digest = {} /\ InUse = {} /\ ~online /\ responses = {}
    BY DEF Init, LocalInit, InUse, Free
  <2> QED BY <2>1, TypesInit DEF Early, EarlyOwner, EarlyNet
<1>2. Early /\ NotWrapped => Young
  BY EarlyIsYoung DEF Early
<1> QED BY <1>1, <1>2, EarlyStep, AcknowledgedIsHeld, PTL DEF Spec
=============================================================================
