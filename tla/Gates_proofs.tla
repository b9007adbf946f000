---------------------------- MODULE Gates_proofs ----------------------------
(***************************************************************************)
(* Proofs about LoginThrottle and RequestChain, the two components that    *)
(* stand between a request and the database.                               *)
(*                                                                         *)
(* Of the throttle: the hits a key is left with account for every charge   *)
(* not forgiven that the window still reaches (HitsAccount). GuessesBounded*)
(* does not follow from itself, since a Reserve counts hits, not charges.  *)
(*                                                                         *)
(* Of the chain: what holds of a request by how far it is. Gated says what *)
(* the gates behind it have seen, Held the slots it has, Told the status,  *)
(* outcome and events so far, Settled what is left of it when it is gone;  *)
(* Shared says that semaphores and gauge are the sums of all of these.     *)
(***************************************************************************)
EXTENDS LoginThrottle, RequestChain, Lists_proofs, TLAPS

(***************************************************************************)
(* The login throttle                                                      *)
(***************************************************************************)
Stages == {"new", "parsed", "identified", "dialing", "opened", "failed", "turned away", "throttled", "locked out"}
Charges == [by : Logins, at : 0 .. MaxTime]

\* The keys that name an account, and are reset.
NameKeys == {k \in Keys : k.name # Blank}

ThrottleTypes ==
    /\ clock \in 0 .. MaxTime
    /\ hits \in [Keys -> Seq(0 .. MaxTime)]
    /\ stage \in [Logins -> Stages]
    /\ from \in [Logins -> Forms]
    /\ resets \in [Logins -> Seq(NameKeys)]
    /\ charges \in [Keys -> SUBSET Charges]

\* The charges to a key from tick t on.
Since(k, t) == {c \in charges[k] : t <= c.at}

\* What pruning and resets leave of the hits of a key still accounts for every
\* charge that is not forgiven, as far back as the window reaches.
HitsAccount == \A k \in Keys :
    /\ IsFiniteSet(charges[k])
    /\ \A t \in 0 .. MaxTime : t + Window > clock =>
          Cardinality(Since(k, t)) <= Count(hits[k], t .. MaxTime)

WindowsBounded == \A k \in Keys : \A t \in 0 .. MaxTime :
    Cardinality({c \in charges[k] : t <= c.at /\ c.at < t + Window}) <= Cap(k)

\* A request is charged to its address before anything else.
AddressCharged == \A r \in Logins :
    RateMax > 0 /\ stage[r] \in {"parsed", "identified", "dialing", "opened"} => ChargedBy(r, AddressKey(r))

\* And to what its form names only when all of it has room.
NoneUsedUp == \A r \in Logins :
    stage[r] \in {"new", "parsed", "throttled"} => \A k \in NameKeys : ~ChargedBy(r, k)

ThrottleInv == ThrottleTypes /\ HitsAccount /\ WindowsBounded /\ AddressCharged /\ NoneUsedUp

\* What a form names makes the keys it is charged to; those of one group belong to
\* one limiter, and none of them counts an address (loginRateKeys, loginAccountKey).
LEMMA KeysOfRequests ==
    ASSUME ThrottleTypes, NEW r \in Logins
    PROVE  /\ AddressKey(r) \in Keys /\ AddressKey(r).name = Blank /\ Cap(AddressKey(r)) = RateMax
           /\ ToSet(IdentityKeys(r)) \subseteq NameKeys /\ \A k \in ToSet(IdentityKeys(r)) : Cap(k) = RateMax
           /\ ToSet(AccountKey(r)) \subseteq NameKeys /\ \A k \in ToSet(AccountKey(r)) : Cap(k) = AccountMax
           /\ ToReset(r) \in Seq(NameKeys)
<1> DEFINE i == from[r].ip
           u == from[r].user
           p == from[r].server
           a == IF p # Blank THEN p ELSE u
<1>1. i \in Addresses /\ u \in Accounts \cup {Blank} /\ p \in Predefined \cup {Blank}
  BY DEF ThrottleTypes, Forms
<1>2. i # Anywhere /\ a \in AccountNames \cup {Blank}
  BY <1>1, ThrottleAssumption DEF AccountNames
<1>3. ASSUME NEW n \in AccountNames \cup {Blank}, NEW j \in {i, Anywhere}
      PROVE  /\ KeyNamed(j, n) \in Seq(NameKeys)
             /\ \A k \in ToSet(KeyNamed(j, n)) : k = Key(j, n) /\ k \in NameKeys
  <2>1. CASE n = Blank
    BY <2>1 DEF KeyNamed, ToSet
  <2>2. CASE n # Blank
    <3>1. n \in AccountNames  BY <2>2
    <3>2. Key(j, n) \in Keys  BY <1>1, <3>1 DEF Keys
    <3>3. Key(j, n) \in NameKeys  BY <2>2, <3>2 DEF NameKeys, Key
    <3>4. KeyNamed(j, n) = <<Key(j, n)>>  BY <2>2 DEF KeyNamed
    <3> QED  BY <3>3, <3>4 DEF ToSet
  <2> QED  BY <2>1, <2>2
<1>4. u \in AccountNames \cup {Blank} /\ p \in AccountNames \cup {Blank}  BY <1>1 DEF AccountNames
<1>5. AddressKey(r) \in Keys /\ AddressKey(r).name = Blank /\ AddressKey(r).ip = i
  BY <1>1 DEF AddressKey, Keys, Key
<1>6. \A n : Key(i, n).ip = i /\ Key(Anywhere, n).ip = Anywhere  BY DEF Key
<1>7. /\ IdentityKeys(r) \in Seq(NameKeys)
      /\ \A k \in ToSet(IdentityKeys(r)) : k \in NameKeys /\ k.ip = i
  <2> DEFINE U == KeyNamed(i, u)
             P == KeyNamed(i, p)
  <2>1. /\ U \in Seq(NameKeys) /\ \A k \in ToSet(U) : k \in NameKeys /\ k.ip = i
        /\ P \in Seq(NameKeys) /\ \A k \in ToSet(P) : k \in NameKeys /\ k.ip = i
    BY <1>3, <1>4, <1>6
  <2>2. IdentityKeys(r) = U \o P  BY DEF IdentityKeys
  <2> HIDE DEF U, P
  <2>3. U \o P \in Seq(NameKeys)  BY <2>1
  <2>4. ASSUME NEW k \in ToSet(U \o P) PROVE k \in ToSet(U) \/ k \in ToSet(P)
    <3>1. PICK n \in 1 .. Len(U \o P) : k = (U \o P)[n]  BY <2>1, <2>3 DEF ToSet
    <3>2. CASE n <= Len(U)  BY <2>1, <3>1, <3>2 DEF ToSet
    <3>3. CASE n > Len(U)
      <4>1. n - Len(U) \in 1 .. Len(P) /\ k = P[n - Len(U)]  BY <2>1, <3>1, <3>3
      <4> QED  BY <2>1, <4>1 DEF ToSet
    <3> QED  BY <2>1, <3>1, <3>2, <3>3
  <2> QED  BY <2>1, <2>2, <2>3, <2>4
<1>8. /\ AccountKey(r) \in Seq(NameKeys)
      /\ \A k \in ToSet(AccountKey(r)) : k \in NameKeys /\ k.ip = Anywhere
  <2>1. AccountKey(r) = KeyNamed(Anywhere, a)  BY DEF AccountKey
  <2> QED  BY <1>2, <1>3, <1>6, <2>1
<1>9. ToReset(r) \in Seq(NameKeys)  BY <1>7, <1>8 DEF ToReset
<1> QED  BY <1>2, <1>5, <1>7, <1>8, <1>9 DEF Cap

\* prune takes out of a key's hits only those the window has left behind: the
\* ones it still reaches are counted as before.
LEMMA LiveProperties ==
    ASSUME ThrottleTypes, NEW k \in Keys
    PROVE  /\ Live(k) \in Seq(0 .. MaxTime)
           /\ \A t \in 0 .. MaxTime : t + Window > clock =>
                 /\ Count(Live(k), t .. MaxTime) = Count(hits[k], t .. MaxTime)
                 /\ Count(Live(k), t .. MaxTime) <= Len(Live(k))
                 /\ Count(Live(k), t .. MaxTime) \in Nat
<1> DEFINE gone == {t \in 0 .. clock : t + Window <= clock}
<1>1. hits[k] \in Seq(0 .. MaxTime) /\ Live(k) = Omit(hits[k], gone)
  BY DEF ThrottleTypes, Live
<1>2. Live(k) \in Seq(0 .. MaxTime)  BY <1>1, OmitProperties
<1>3. ASSUME NEW t \in 0 .. MaxTime, t + Window > clock
      PROVE  gone \cap (t .. MaxTime) = {}
  BY <1>3, ThrottleAssumption DEF ThrottleTypes
<1> HIDE DEF gone
<1>4. ASSUME NEW t \in 0 .. MaxTime, t + Window > clock
      PROVE  Count(Live(k), t .. MaxTime) = Count(hits[k], t .. MaxTime)
  <2> DEFINE T == t .. MaxTime
             S == 0 .. MaxTime
  <2>1. gone \cap T = {}  BY <1>3, <1>4
  <2>2. hits[k] \in Seq(S)  BY <1>1
  <2> HIDE DEF T, S
  <2>3. Count(Omit(hits[k], gone), T) = Count(hits[k], T)  BY <2>1, <2>2, CountOmit
  <2> QED  BY <1>1, <2>3 DEF T
<1> QED  BY <1>2, <1>4, CountBound

\* Nobody has tried to log in yet (NewRateLimiter).
LEMMA ThrottleInit == TInit([Logins -> Forms]) => ThrottleInv
<1> SUFFICES ASSUME TInit([Logins -> Forms]) PROVE ThrottleInv  OBVIOUS
<1> USE ThrottleAssumption DEF TInit
<1>1. ThrottleTypes
  <2>1. <<>> \in Seq(0 .. MaxTime) /\ <<>> \in Seq(NameKeys)  OBVIOUS
  <2> QED  BY <2>1 DEF ThrottleTypes, Stages
<1>2. ASSUME NEW k \in Keys
      PROVE  /\ charges[k] = {} /\ hits[k] = <<>> /\ Cap(k) \in Nat
  BY DEF Cap
<1>3. HitsAccount
  BY <1>2, CountEmpty, FS_EmptySet DEF HitsAccount, Since
<1>4. WindowsBounded
  BY <1>2, FS_EmptySet DEF WindowsBounded
<1>5. AddressCharged /\ NoneUsedUp
  BY <1>2 DEF AddressCharged, NoneUsedUp, ChargedBy, NameKeys
<1> QED  BY <1>1, <1>3, <1>4, <1>5 DEF ThrottleInv

\* One more element makes a finite set larger by one at most.
LEMMA OneMore ==
    ASSUME NEW A, IsFiniteSet(A), NEW x
    PROVE  /\ IsFiniteSet(A \cup {x}) /\ Cardinality(A \cup {x}) \in Nat
           /\ Cardinality(A) \in Nat /\ Cardinality(A \cup {x}) <= Cardinality(A) + 1
<1> DEFINE B == A \cup {x}
<1>1. /\ IsFiniteSet(B) /\ Cardinality(B) \in Nat /\ Cardinality(A) \in Nat
      /\ Cardinality(B) = IF x \in A THEN Cardinality(A) ELSE Cardinality(A) + 1
  BY FS_AddElement, FS_CardinalityType
<1> HIDE DEF B
<1>2. Cardinality(B) <= Cardinality(A) + 1  BY <1>1
<1> QED  BY <1>1, <1>2 DEF B

\* Reserve either refuses and charges nothing, or charges every key of its group
\* once more, which the live hits left room for: no window of charges outgrows the
\* limit.
LEMMA ReserveKeeps ==
    ASSUME ThrottleInv, NEW r \in Logins, NEW group \in SUBSET Keys, NEW max \in Nat,
           \A k \in group : Cap(k) = max,
           NEW next \in Stages, NEW refused \in Stages, Reserve(r, group, max, next, refused)
    PROVE  /\ ThrottleTypes' /\ HitsAccount' /\ WindowsBounded'
           /\ UNCHANGED <<from, resets>> /\ \A q \in Logins \ {r} : stage'[q] = stage[q]
           /\ \A q \in Logins, l \in Keys : ChargedBy(q, l) => ChargedBy(q, l)'
           /\ \A q \in Logins, l \in Keys : ChargedBy(q, l)' => ChargedBy(q, l) \/ (q = r /\ l \in group)
           /\ \/ stage'[r] = next /\ (max > 0 => \A k \in group : ChargedBy(r, k)')
              \/ stage'[r] = refused /\ UNCHANGED charges
<1>a. ThrottleTypes /\ HitsAccount /\ WindowsBounded  BY DEF ThrottleInv
<1>b. \A l \in Keys : Cap(l) \in Nat  BY ThrottleAssumption DEF Cap
<1>c. clock \in 0 .. MaxTime /\ Window \in Nat /\ MaxTime \in Nat  BY <1>a, ThrottleAssumption DEF ThrottleTypes
<1>d. UNCHANGED <<clock, from, resets>> /\ \A q \in Logins \ {r} : stage'[q] = stage[q]
  BY <1>a DEF Reserve, Advance, ThrottleTypes
<1>1. CASE /\ max > 0 /\ \A k \in group : Len(Live(k)) < max
           /\ hits' = [k \in Keys |-> IF k \in group THEN Append(Live(k), clock) ELSE hits[k]]
           /\ charges' = [k \in Keys |-> charges[k] \cup
                             IF k \in group THEN {[by |-> r, at |-> clock]} ELSE {}]
           /\ Advance(r, next)
  <2> DEFINE new == [by |-> r, at |-> clock]
  <2>1. new \in Charges /\ new.at = clock /\ new.by = r  BY <1>c DEF Charges
  <2>2. stage'[r] = next  BY <1>1, <1>a DEF Advance, ThrottleTypes
  <2>3. /\ \A k \in group : charges'[k] = charges[k] \cup {new} /\ hits'[k] = Append(Live(k), clock)
        /\ \A l \in Keys \ group : charges'[l] = charges[l] /\ hits'[l] = hits[l]
    BY <1>1, <1>a DEF ThrottleTypes
  <2>4. \A k \in Keys : Live(k) \in Seq(0 .. MaxTime) /\ Len(Live(k)) \in Nat
    BY <1>a, LiveProperties, LenProperties
  <2>5. ThrottleTypes'
    <3>1. \A k \in Keys : Append(Live(k), clock) \in Seq(0 .. MaxTime)  BY <1>c, <2>4, AppendProperties
    <3>2. hits' \in [Keys -> Seq(0 .. MaxTime)]  BY <1>1, <1>a, <3>1 DEF ThrottleTypes
    <3>3. charges' \in [Keys -> SUBSET Charges]  BY <1>1, <1>a, <2>1 DEF ThrottleTypes
    <3>4. stage' \in [Logins -> Stages]  BY <1>1, <1>a DEF ThrottleTypes, Advance
    <3> QED  BY <1>a, <1>d, <3>2, <3>3, <3>4 DEF ThrottleTypes
  <2> HIDE DEF new
  <2>6. ASSUME NEW k \in group, NEW t \in 0 .. MaxTime, t + Window > clock
        PROVE  /\ IsFiniteSet(Since(k, t)) /\ Cardinality(Since(k, t)) \in Nat
               /\ Cardinality(Since(k, t)) <= Count(Live(k), t .. MaxTime)
               /\ Count(Live(k), t .. MaxTime) < Cap(k) /\ Count(Live(k), t .. MaxTime) \in Nat
    <3>1. IsFiniteSet(charges[k]) /\ Since(k, t) \subseteq charges[k]  BY <1>a DEF HitsAccount, Since
    <3>2. Cardinality(Since(k, t)) <= Count(hits[k], t .. MaxTime)  BY <1>a, <2>6 DEF HitsAccount
    <3>3. /\ Count(Live(k), t .. MaxTime) = Count(hits[k], t .. MaxTime)
          /\ Count(Live(k), t .. MaxTime) <= Len(Live(k))
          /\ Count(Live(k), t .. MaxTime) \in Nat
      BY <1>a, <2>6, LiveProperties
    <3> QED  BY <1>1, <1>b, <2>4, <3>1, <3>2, <3>3, FS_Subset, FS_CardinalityType
  <2>7. \A k \in Keys : IsFiniteSet(charges'[k])
    <3>1. \A k \in Keys : IsFiniteSet(charges[k])  BY <1>a DEF HitsAccount
    <3>2. \A k \in Keys : IsFiniteSet(charges[k] \cup {new})  BY <3>1, FS_AddElement
    <3> QED  BY <2>3, <3>1, <3>2
  <2>8. HitsAccount'
    <3>1. ASSUME NEW k \in group, NEW t \in 0 .. MaxTime, t + Window > clock
          PROVE  Cardinality({c \in charges'[k] : t <= c.at}) <= Count(hits'[k], t .. MaxTime)
      <4> DEFINE T == t .. MaxTime
                 then == {c \in charges'[k] : t <= c.at}
                 more == Since(k, t) \cup {new}
      <4>1. then = Since(k, t) \/ then = more
        BY <2>3 DEF Since
      <4>2. CASE t <= clock
        <5>1. clock \in T  BY <1>c, <4>2
        <5>2. Count(hits'[k], T) = Count(Live(k), T) + 1
          <6> HIDE DEF T
          <6>1. Live(k) \in Seq(0 .. MaxTime) /\ hits'[k] = Append(Live(k), clock)  BY <2>3, <2>4
          <6>2. Count(Append(Live(k), clock), T) = Count(Live(k), T) + 1
            BY <1>c, <5>1, <6>1, CountAppend
          <6> QED  BY <6>1, <6>2
        <5>3. Cardinality(Since(k, t)) \in Nat /\ IsFiniteSet(Since(k, t))
              /\ Cardinality(Since(k, t)) <= Count(Live(k), T) /\ Count(Live(k), T) \in Nat
          BY <2>6, <3>1
        <5>4. Cardinality(more) <= Cardinality(Since(k, t)) + 1 /\ Cardinality(more) \in Nat
          BY <5>3, OneMore
        <5> HIDE DEF T, then, more
        <5>5. Cardinality(then) <= Count(hits'[k], T)
          BY <4>1, <5>2, <5>3, <5>4
        <5> QED  BY <5>5 DEF T, then
      <4>3. CASE ~ (t <= clock)
        <5>1. {c \in charges'[k] : t <= c.at} = Since(k, t)  BY <2>1, <2>3, <4>3 DEF Since
        <5>2. clock \notin T  BY <1>c, <4>3
        <5>3. Count(hits'[k], T) = Count(Live(k), T)
          <6> HIDE DEF T
          <6>1. Live(k) \in Seq(0 .. MaxTime) /\ hits'[k] = Append(Live(k), clock)  BY <2>3, <2>4
          <6>2. Count(Live(k), T) \in Nat  BY <6>1, CountBound
          <6>3. Count(Append(Live(k), clock), T) = Count(Live(k), T) + 0
            BY <1>c, <5>2, <6>1, CountAppend
          <6> QED  BY <6>1, <6>2, <6>3
        <5> QED  BY <2>6, <3>1, <5>1, <5>3
      <4> QED  BY <4>2, <4>3
    <3> QED  BY <1>a, <1>d, <2>3, <2>7, <3>1 DEF HitsAccount, Since
  <2>9. WindowsBounded'
    <3>1. ASSUME NEW k \in group, NEW t \in 0 .. MaxTime
          PROVE  Cardinality({c \in charges'[k] : t <= c.at /\ c.at < t + Window}) <= Cap(k)
      <4> DEFINE W == {c \in charges[k] : t <= c.at /\ c.at < t + Window}
                 V == {c \in charges'[k] : t <= c.at /\ c.at < t + Window}
      <4>1. CASE t <= clock /\ clock < t + Window
        <5>1. V \subseteq Since(k, t) \cup {new}  BY <2>3 DEF Since
        <5>2. t + Window > clock  BY <1>c, <4>1
        <5>3. /\ IsFiniteSet(Since(k, t) \cup {new})
              /\ Cardinality(Since(k, t) \cup {new}) <= Cardinality(Since(k, t)) + 1
              /\ Cardinality(Since(k, t) \cup {new}) \in Nat
          BY <2>6, <5>2, OneMore
        <5>4. Cardinality(Since(k, t)) + 1 <= Cap(k)  BY <1>b, <2>6, <5>2
        <5> HIDE DEF V
        <5>5. Cardinality(V) <= Cardinality(Since(k, t) \cup {new}) /\ Cardinality(V) \in Nat
          BY <5>1, <5>3, FS_Subset, FS_CardinalityType
        <5>6. Cardinality(V) <= Cap(k)  BY <1>b, <2>6, <5>2, <5>3, <5>4, <5>5
        <5> QED  BY <5>6 DEF V
      <4>2. CASE ~ (t <= clock /\ clock < t + Window)
        <5>1. V = W  BY <2>1, <2>3, <4>2
        <5>2. Cardinality(W) <= Cap(k)  BY <1>a DEF WindowsBounded
        <5> QED  BY <5>1, <5>2
      <4> QED  BY <4>1, <4>2
    <3> QED  BY <1>a, <2>3, <3>1 DEF WindowsBounded, Cap
  <2>10. /\ \A q \in Logins, l \in Keys : ChargedBy(q, l) => ChargedBy(q, l)'
         /\ \A q \in Logins, l \in Keys : ChargedBy(q, l)' => ChargedBy(q, l) \/ (q = r /\ l \in group)
         /\ \A k \in group : ChargedBy(r, k)'
    BY <2>1, <2>3 DEF ChargedBy
  <2> QED  BY <1>d, <2>2, <2>5, <2>8, <2>9, <2>10
<1>2. CASE /\ UNCHANGED <<hits, charges>>
           /\ (max = 0 /\ Advance(r, next)) \/ Advance(r, refused)
  <2>1. (max = 0 /\ stage'[r] = next) \/ stage'[r] = refused
    BY <1>2, <1>a DEF Advance, ThrottleTypes
  <2>2. ThrottleTypes' BY <1>2, <1>a, <1>d DEF ThrottleTypes, Advance
  <2>3. HitsAccount' /\ WindowsBounded'  BY <1>2, <1>a, <1>d DEF HitsAccount, WindowsBounded, Since, Cap
  <2>4. \A q, l : ChargedBy(q, l)' = ChargedBy(q, l)  BY <1>2 DEF ChargedBy
  <2> QED  BY <1>2, <1>d, <2>1, <2>2, <2>3, <2>4
<1> QED  BY <1>1, <1>2 DEF Reserve

\* Every step of the logins, of the sweeper and of the clock keeps the invariant.
LEMMA ThrottleStep == ThrottleInv /\ [TNext]_tvars => ThrottleInv'
<1> SUFFICES ASSUME ThrottleInv, [TNext]_tvars PROVE ThrottleInv'  OBVIOUS
<1>a. ThrottleTypes /\ HitsAccount /\ WindowsBounded /\ AddressCharged /\ NoneUsedUp  BY DEF ThrottleInv
<1>c. clock \in 0 .. MaxTime /\ Window \in Nat /\ MaxTime \in Nat /\ RateMax \in Nat /\ AccountMax \in Nat
  BY <1>a, ThrottleAssumption DEF ThrottleTypes
<1>d. \A q \in Logins : AddressKey(q) \in Keys  BY <1>a, KeysOfRequests
<1>1. ASSUME NEW r \in Logins, ReserveAddress(r) PROVE ThrottleInv'
  <2> DEFINE group == {AddressKey(r)}
  <2>1. /\ group \in SUBSET Keys /\ \A k \in group : Cap(k) = RateMax /\ k \notin NameKeys
    BY <1>a, KeysOfRequests DEF NameKeys
  <2>2. /\ ThrottleTypes' /\ HitsAccount' /\ WindowsBounded'
        /\ UNCHANGED from /\ \A q \in Logins \ {r} : stage'[q] = stage[q]
        /\ \A q \in Logins, l \in Keys : ChargedBy(q, l) => ChargedBy(q, l)'
        /\ \A q \in Logins, l \in Keys : ChargedBy(q, l)' => ChargedBy(q, l) \/ (q = r /\ l \in group)
        /\ \/ stage'[r] = "parsed" /\ (RateMax > 0 => \A k \in group : ChargedBy(r, k)')
           \/ stage'[r] = "turned away"
    <3> HIDE DEF group
    <3>1. Reserve(r, group, RateMax, "parsed", "turned away")  BY <1>1 DEF ReserveAddress, group
    <3> QED  BY <1>c, <2>1, <3>1, ReserveKeeps DEF Stages
  <2>3. stage[r] = "new"  BY <1>1 DEF ReserveAddress
  <2>4. NoneUsedUp'
    <3> SUFFICES ASSUME NEW q \in Logins, stage'[q] \in {"new", "parsed", "throttled"}, NEW k \in NameKeys
                 PROVE  ~ChargedBy(q, k)'
      BY DEF NoneUsedUp, NameKeys
    <3>1. stage[q] \in {"new", "parsed", "throttled"} /\ k \in Keys  BY <2>2, <2>3 DEF NameKeys
    <3> QED  BY <1>a, <2>1, <2>2, <3>1 DEF NoneUsedUp
  <2>5. AddressCharged'
    <3> SUFFICES ASSUME NEW q \in Logins, RateMax > 0,
                        stage'[q] \in {"parsed", "identified", "dialing", "opened"}
                 PROVE  ChargedBy(q, AddressKey(q))'
      BY DEF AddressCharged
    <3>1. AddressKey(q)' = AddressKey(q)  BY <2>2 DEF AddressKey
    <3>2. \E c \in charges'[AddressKey(q)] : c.by = q
      BY <1>a, <1>d, <2>2, <2>3 DEF AddressCharged, ChargedBy
    <3> QED  BY <3>1, <3>2 DEF ChargedBy
  <2> QED  BY <2>2, <2>4, <2>5 DEF ThrottleInv
<1>A. ASSUME NEW r \in Logins, NEW group \in SUBSET NameKeys, NEW max \in {RateMax, AccountMax},
             \A k \in group : Cap(k) = max, NEW next, NEW refused,
             Reserve(r, group, max, next, refused),
             \/ stage[r] = "parsed" /\ next = "identified" /\ refused = "throttled"
             \/ stage[r] = "identified" /\ next = "dialing" /\ refused = "locked out"
      PROVE  ThrottleInv'
  <2>1. group \in SUBSET Keys /\ max \in Nat /\ next \in Stages /\ refused \in Stages
    BY <1>A, <1>c DEF NameKeys, Stages
  <2>2. /\ ThrottleTypes' /\ HitsAccount' /\ WindowsBounded'
        /\ UNCHANGED from /\ \A q \in Logins \ {r} : stage'[q] = stage[q]
        /\ \A q \in Logins, l \in Keys : ChargedBy(q, l) => ChargedBy(q, l)'
        /\ \A q \in Logins, l \in Keys : ChargedBy(q, l)' => ChargedBy(q, l) \/ (q = r /\ l \in group)
        /\ \/ stage'[r] = next /\ (max > 0 => \A k \in group : ChargedBy(r, k)')
           \/ stage'[r] = refused /\ UNCHANGED charges
    <3>1. Reserve(r, group, max, next, refused) /\ \A k \in group : Cap(k) = max  BY <1>A
    <3> QED  BY <2>1, <3>1, ReserveKeeps
  <2>3. NoneUsedUp'
    <3> SUFFICES ASSUME NEW q \in Logins, stage'[q] \in {"new", "parsed", "throttled"}, NEW k \in NameKeys
                 PROVE  ~ChargedBy(q, k)'
      BY DEF NoneUsedUp, NameKeys
    <3>1. CASE q # r
      <4>1. stage[q] \in {"new", "parsed", "throttled"} /\ k \in Keys  BY <2>2, <3>1 DEF NameKeys
      <4> QED  BY <1>a, <2>2, <3>1, <4>1 DEF NoneUsedUp
    <3>2. CASE q = r
      <4>1. stage[r] = "parsed" /\ UNCHANGED charges  BY <1>A, <2>2, <3>2
      <4> QED  BY <1>a, <3>2, <4>1 DEF NoneUsedUp, ChargedBy
    <3> QED  BY <3>1, <3>2
  <2>4. AddressCharged'
    <3> SUFFICES ASSUME NEW q \in Logins, RateMax > 0,
                        stage'[q] \in {"parsed", "identified", "dialing", "opened"}
                 PROVE  ChargedBy(q, AddressKey(q))'
      BY DEF AddressCharged
    <3>1. AddressKey(q)' = AddressKey(q)  BY <2>2 DEF AddressKey
    <3>2. ChargedBy(q, AddressKey(q))  BY <1>A, <1>a, <2>2 DEF AddressCharged
    <3>3. \E c \in charges'[AddressKey(q)] : c.by = q  BY <1>d, <2>2, <3>2 DEF ChargedBy
    <3> QED  BY <3>1, <3>3 DEF ChargedBy
  <2> QED  BY <2>2, <2>3, <2>4 DEF ThrottleInv
<1>2. ASSUME NEW r \in Logins, ReserveIdentity(r) PROVE ThrottleInv'
  BY <1>2, <1>a, <1>A, KeysOfRequests DEF ReserveIdentity
<1>3. ASSUME NEW r \in Logins, ReserveAccount(r) PROVE ThrottleInv'
  BY <1>3, <1>a, <1>A, KeysOfRequests DEF ReserveAccount
<1>B. ASSUME UNCHANGED <<clock, hits, charges>>
      PROVE  HitsAccount' /\ WindowsBounded'
  BY <1>a, <1>B DEF HitsAccount, WindowsBounded, Since, Cap
<1>4. ASSUME NEW r \in Logins, LoginFails(r) PROVE ThrottleInv'
  <2>1. /\ UNCHANGED <<clock, hits, from, resets, charges>>
        /\ stage'[r] = "failed" /\ \A q \in Logins \ {r} : stage'[q] = stage[q]
    BY <1>4, <1>a DEF LoginFails, Advance, ThrottleTypes
  <2>2. ThrottleTypes'  BY <1>4, <1>a DEF LoginFails, Advance, ThrottleTypes, Stages
  <2>3. AddressCharged' /\ NoneUsedUp'
    BY <1>a, <2>1 DEF AddressCharged, AddressKey, ChargedBy, NoneUsedUp
  <2> QED  BY <1>B, <2>1, <2>2, <2>3 DEF ThrottleInv
<1>5. ASSUME NEW r \in Logins, LoginSucceeds(r) PROVE ThrottleInv'
  <2>1. /\ UNCHANGED <<clock, hits, from, charges>> /\ stage[r] = "dialing"
        /\ stage'[r] = "opened" /\ \A q \in Logins \ {r} : stage'[q] = stage[q]
    BY <1>5, <1>a DEF LoginSucceeds, Advance, ThrottleTypes
  <2>2. ThrottleTypes'
    <3>1. resets' \in [Logins -> Seq(NameKeys)]
      BY <1>5, <1>a, KeysOfRequests DEF LoginSucceeds, ThrottleTypes
    <3>2. stage' \in [Logins -> Stages]  BY <1>5, <1>a DEF LoginSucceeds, Advance, ThrottleTypes, Stages
    <3> QED  BY <1>a, <2>1, <3>1, <3>2 DEF ThrottleTypes
  <2>3. AddressCharged' /\ NoneUsedUp'
    BY <1>a, <2>1 DEF AddressCharged, AddressKey, ChargedBy, NoneUsedUp
  <2> QED  BY <1>B, <2>1, <2>2, <2>3 DEF ThrottleInv
<1>R. ASSUME NEW r \in Logins, Reset(r) PROVE ThrottleInv'
  <2> DEFINE j == Head(resets[r])
  <2>1. UNCHANGED <<clock, stage, from>> /\ resets[r] # <<>> /\ resets[r] \in Seq(NameKeys)
    BY <1>R, <1>a DEF Reset, ThrottleTypes
  <2>2. j \in NameKeys /\ j \in Keys /\ Tail(resets[r]) \in Seq(NameKeys)
    BY <2>1, HeadTailProperties DEF NameKeys
  <2>3. /\ hits' = [hits EXCEPT ![j] = <<>>] /\ charges' = [charges EXCEPT ![j] = {}]
        /\ resets' = [resets EXCEPT ![r] = Tail(resets[r])]
    BY <1>R, <1>a DEF Reset, ThrottleTypes
  <2> HIDE DEF j
  <2>4. /\ hits'[j] = <<>> /\ charges'[j] = {}
        /\ \A k \in Keys \ {j} : hits'[k] = hits[k] /\ charges'[k] = charges[k]
    BY <1>a, <2>2, <2>3 DEF ThrottleTypes
  <2>5. ThrottleTypes'
    <3>1. <<>> \in Seq(0 .. MaxTime)  OBVIOUS
    <3>2. hits' \in [Keys -> Seq(0 .. MaxTime)]  BY <1>a, <2>3, <3>1 DEF ThrottleTypes
    <3>3. charges' \in [Keys -> SUBSET Charges]  BY <1>a, <2>3 DEF ThrottleTypes
    <3>4. resets' \in [Logins -> Seq(NameKeys)]  BY <1>a, <2>2, <2>3 DEF ThrottleTypes
    <3> QED  BY <1>a, <2>1, <3>2, <3>3, <3>4 DEF ThrottleTypes
  <2>6. \A k \in Keys : Cap(k) \in Nat  BY ThrottleAssumption DEF Cap
  <2>7. HitsAccount'
    <3> SUFFICES ASSUME NEW k \in Keys
                 PROVE  /\ IsFiniteSet(charges'[k])
                        /\ \A t \in 0 .. MaxTime : t + Window > clock =>
                              Cardinality({c \in charges'[k] : t <= c.at}) <= Count(hits'[k], t .. MaxTime)
      BY <2>1 DEF HitsAccount, Since
    <3>1. CASE k = j
      <4>1. charges'[k] = {} /\ hits'[k] = <<>>  BY <2>4, <3>1
      <4>2. \A t : {c \in charges'[k] : t <= c.at} = {}  BY <4>1
      <4> QED  BY <4>1, <4>2, CountEmpty, FS_EmptySet
    <3>2. CASE k # j
      BY <1>a, <2>4, <3>2 DEF HitsAccount, Since
    <3> QED  BY <3>1, <3>2
  <2>8. WindowsBounded'
    <3> SUFFICES ASSUME NEW k \in Keys, NEW t \in 0 .. MaxTime
                 PROVE  Cardinality({c \in charges'[k] : t <= c.at /\ c.at < t + Window}) <= Cap(k)
      BY DEF WindowsBounded, Cap
    <3>1. CASE k = j
      <4> DEFINE W == {c \in charges'[k] : t <= c.at /\ c.at < t + Window}
      <4>1. W = {}  BY <2>4, <3>1
      <4> HIDE DEF W
      <4>2. Cardinality(W) <= Cap(k)  BY <2>6, <4>1, FS_EmptySet
      <4> QED  BY <4>2 DEF W
    <3>2. CASE k # j
      BY <1>a, <2>4, <3>2 DEF WindowsBounded
    <3> QED  BY <3>1, <3>2
  <2>9. AddressCharged'
    <3>1. \A q \in Logins : AddressKey(q) \in Keys /\ AddressKey(q) # j
      BY <1>a, <2>2, KeysOfRequests DEF NameKeys
    <3>2. \A q \in Logins : charges'[AddressKey(q)] = charges[AddressKey(q)]  BY <2>4, <3>1
    <3> QED  BY <1>a, <2>1, <3>2 DEF AddressCharged, AddressKey, ChargedBy
  <2>10. NoneUsedUp'
    <3>1. \A k \in NameKeys : charges'[k] \subseteq charges[k]  BY <2>4 DEF NameKeys
    <3> QED  BY <1>a, <2>1, <3>1 DEF NoneUsedUp, ChargedBy, NameKeys
  <2> QED  BY <2>5, <2>7, <2>8, <2>9, <2>10 DEF ThrottleInv
<1>6. ASSUME Sweep PROVE ThrottleInv'
  <2>1. UNCHANGED <<clock, stage, from, resets, charges>> /\ hits' = [k \in Keys |-> Live(k)]
    BY <1>6 DEF Sweep
  <2>2. ThrottleTypes'  BY <1>a, <2>1, LiveProperties DEF ThrottleTypes
  <2>3. HitsAccount'
    <3> SUFFICES ASSUME NEW k \in Keys
                 PROVE  /\ IsFiniteSet(charges[k])
                        /\ \A t \in 0 .. MaxTime : t + Window > clock =>
                              Cardinality(Since(k, t)) <= Count(Live(k), t .. MaxTime)
      BY <2>1 DEF HitsAccount, Since
    <3> QED  BY <1>a, LiveProperties DEF HitsAccount
  <2>4. WindowsBounded' /\ AddressCharged' /\ NoneUsedUp'
    BY <1>a, <2>1 DEF WindowsBounded, AddressCharged, Cap, AddressKey, ChargedBy, NoneUsedUp
  <2> QED  BY <2>2, <2>3, <2>4 DEF ThrottleInv
<1>7. ASSUME Tick PROVE ThrottleInv'
  <2>1. UNCHANGED <<hits, stage, from, resets, charges>> /\ clock' = clock + 1 /\ clock' \in 0 .. MaxTime
    BY <1>7, <1>c DEF Tick
  <2>2. ThrottleTypes' /\ WindowsBounded' /\ AddressCharged' /\ NoneUsedUp'
    BY <1>a, <2>1 DEF ThrottleTypes, WindowsBounded, AddressCharged, Cap, AddressKey, ChargedBy, NoneUsedUp
  <2>3. \A t \in 0 .. MaxTime : t + Window > clock' => t + Window > clock  BY <1>c, <2>1
  <2>4. HitsAccount'  BY <1>a, <2>1, <2>3 DEF HitsAccount, Since
  <2> QED  BY <2>2, <2>4 DEF ThrottleInv
<1>8. CASE UNCHANGED tvars
  <2>1. UNCHANGED <<clock, hits, stage, from, resets, charges>>  BY <1>8 DEF tvars
  <2>2. ThrottleTypes' /\ AddressCharged' /\ NoneUsedUp'
    BY <1>a, <2>1 DEF ThrottleTypes, AddressCharged, AddressKey, ChargedBy, NoneUsedUp
  <2> QED  BY <1>B, <2>1, <2>2 DEF ThrottleInv
<1> QED  BY <1>1, <1>2, <1>3, <1>4, <1>5, <1>R, <1>6, <1>7, <1>8 DEF TNext

\* GuessesBounded, for every number of logins, addresses, accounts, limits and
\* window: a key is never charged more often within one window than its limit
\* allows, no login dials without a charge to its address where there is a limit,
\* and one turned away for a name has not used up another, whatever the sweeper,
\* the resets of successes and the interleaving of logins do (RateLimiter.Reserve,
\* Reset, sweep; handlers.Login).
THEOREM ThrottleHolds == TSpec => []GuessesBounded
<1>1. ThrottleInv => GuessesBounded
  <2> SUFFICES ASSUME ThrottleInv PROVE GuessesBounded  OBVIOUS
  <2>1. \A r \in Logins : ToSet(IdentityKeys(r)) \subseteq NameKeys  BY KeysOfRequests DEF ThrottleInv
  <2> QED  BY <2>1 DEF ThrottleInv, WindowsBounded, AddressCharged, NoneUsedUp, GuessesBounded
<1> QED  BY <1>1, ThrottleInit, ThrottleStep, PTL DEF TSpec

(***************************************************************************)
(* The middleware                                                          *)
(***************************************************************************)
Layers == {"new", "session", "admission", "csrf", "sso", "auth", "restrict", "handler",
           "work", "stream", "loggedin", "recorded", "out", "done"}
Outcomes == {"denied", "invalid", "error"}
Kinds == {"auth", "action"}

RequestTypes ==
    /\ req \in [Requests -> AnyDemand] /\ site \in AnySite
    /\ layer \in [Requests -> Layers]
    /\ obj \in [Requests -> {"none", "pre", "live", "fresh"}] /\ live \in BOOLEAN
    /\ wire \in [Requests -> Nat] /\ counted \in [Requests -> Nat]
    /\ answeredBy \in [Requests -> Layers \cup {"none"}]
    /\ verdict \in [Requests -> Outcomes \cup {"none"}] /\ who \in [Requests -> {"none", "user"}]
    /\ owed \in [Requests -> SUBSET {"import", "dbop"}]
    /\ stream \in [Requests -> {"none", "open", "ended", "torn"}]
    /\ crashed \subseteq Requests /\ parsed \subseteq Requests /\ did \subseteq Requests
    /\ trail \in [Requests -> Seq(TrailEvents(Kinds))]
ChainTypes == RequestTypes /\ inUse \in [{"import", "dbop"} -> Nat] /\ gauge \in Nat

\* The layers behind each gate, and the requests that have done what they ask
\* for: what the gate lets through stays so.
PastToken == {"sso", "auth", "restrict", "handler", "work", "stream", "loggedin"}
PastProvider == PastToken \ {"sso"}
PastAuth == PastProvider \ {"auth"}
Handling == {"handler", "work", "stream", "loggedin"}
Behind(r, layers) == layer[r] \in layers \/ r \in did

Gated(r) ==
    /\ Behind(r, PastToken) /\ Route(r) \in Unsafe => TokenMatches(r)
    /\ Behind(r, PastProvider) /\ site.sso = "unverified" => Route(r) \in {"sso", "metrics", "logout"}
    /\ Behind(r, PastAuth) => Route(r) \in Public \/ obj[r] = "live"
    /\ Behind(r, Handling) => Route(r) \in Public \/ ~Forbidden(r)
    /\ Behind(r, {"work", "stream"}) /\ Route(r) = "program" => "console" \notin site.refused
    /\ layer[r] \in {"work", "stream"} => Route(r) \notin Public
    /\ layer[r] = "loggedin" => Route(r) = "login"
    /\ r \in did => Route(r) \notin {"sso", "metrics"}
    /\ obj[r] = "live" => who[r] = "user"
    /\ r \in did /\ Route(r) = "login" => who[r] = "user"

\* What a request has taken of what all share, by how far it is.
InFlight(r) == layer[r] \notin {"new", "done"} /\ Route(r) # "metrics"
Holders(s) == {r \in Requests : s \in owed[r]}
Held(r) ==
    /\ layer[r] \in {"new", "session", "admission", "done"} => owed[r] = {}
    /\ "dbop" \in owed[r] => layer[r] \in {"work", "stream", "out"}
    /\ layer[r] = "csrf" /\ Route(r) = "import" /\ Authed(r) => "import" \in owed[r] \/ Unlimited("import")
    /\ r \in parsed /\ Route(r) = "import" /\ layer[r] # "done" => "import" \in owed[r] \/ Unlimited("import")

Slots(s) == inUse[s] = Cardinality(Holders(s)) /\ (inUse[s] <= SlotCap[s] \/ Unlimited(s))
Gauged == gauge = Cardinality({r \in Requests : InFlight(r)})
Shared == (\A s \in {"import", "dbop"} : Slots(s)) /\ Gauged

\* What has been said of a request, by how far it is.
Told(r) ==
    /\ layer[r] # "done" => EventsOf(r, "action") = <<>>
    /\ layer[r] \notin {"recorded", "out", "done"} => EventsOf(r, "auth") = <<>>
    /\ layer[r] \notin {"stream", "recorded", "out", "done"} => wire[r] = 0
    /\ layer[r] \notin {"recorded", "out", "done"} => verdict[r] = "none"
    /\ layer[r] = "stream" => r \in did /\ wire[r] # 0
    /\ layer[r] = "recorded" => Route(r) = "login" /\ Len(EventsOf(r, "auth")) = 1
    /\ r \in crashed => layer[r] \in {"out", "done"}
    /\ r \in did => layer[r] \in {"stream", "loggedin", "recorded", "out", "done"}
    /\ layer[r] = "out" =>
          /\ wire[r] = 0 => r \in crashed
          /\ Route(r) = "login" => \/ Len(EventsOf(r, "auth")) = 1
                                   \/ Len(EventsOf(r, "auth")) = 0 /\ (r \in crashed \/ Unrecorded(r))
          /\ /\ Route(r) \in Unsafe \ {"login"} /\ r \notin did
             /\ verdict[r] = "none" /\ wire[r] \in 1 .. 399
             => SentAway(r)

\* What GatesHold and TrailIsComplete say of a request that has left.
Settled(r) == r \in Done =>
    /\ stream[r] = "ended" => r \notin crashed
    /\ stream[r] # "open"
    /\ counted[r] = 0 => Route(r) = "metrics"
    /\ Len(EventsOf(r, "action")) = IF Route(r) \in Unsafe \ {"login"} THEN 1 ELSE 0
    /\ Route(r) = "login" => \/ Len(EventsOf(r, "auth")) = 1
                             \/ Len(EventsOf(r, "auth")) = 0 /\ Unrecorded(r)
                             \/ Len(EventsOf(r, "auth")) = 2 /\ r \in crashed
    /\ \A n \in 1 .. Len(EventsOf(r, "action")) :
          /\ r \in did => EventsOf(r, "action")[n].who = "user" \/ Route(r) = "logout"
          /\ verdict[r] = "denied" => EventsOf(r, "action")[n].outcome = "denied"
          /\ EventsOf(r, "action")[n].outcome = "ok" /\ r \notin did => SentAway(r)

Own(r) == Gated(r) /\ Held(r) /\ Told(r) /\ Settled(r)
ChainInv == /\ ChainTypes /\ Shared
            /\ \A r \in Requests : Own(r)

Kept(f, g, r) == \A q \in Requests \ {r} : g[q] = f[q]

\* What a step of r leaves alone.
Framed(r) ==
    /\ RequestTypes' /\ UNCHANGED <<req, site>> /\ (live' => live)
    /\ Kept(layer, layer', r) /\ Kept(obj, obj', r) /\ Kept(wire, wire', r) /\ Kept(counted, counted', r)
    /\ Kept(answeredBy, answeredBy', r)
    /\ Kept(verdict, verdict', r) /\ Kept(who, who', r) /\ Kept(owed, owed', r)
    /\ Kept(stream, stream', r) /\ Kept(trail, trail', r)
    /\ \A q \in Requests \ {r} : /\ q \in crashed' <=> q \in crashed
                                 /\ q \in parsed' <=> q \in parsed
                                 /\ q \in did' <=> q \in did

\* Where a step of r has left it, the status and the outcome it has said.
Said(r, at, code, o) ==
    /\ layer' \in [Requests -> Layers] /\ layer'[r] = at /\ Kept(layer, layer', r)
    /\ wire' \in [Requests -> Nat] /\ wire'[r] = code /\ Kept(wire, wire', r)
    /\ answeredBy' \in [Requests -> Layers \cup {"none"}] /\ (code # wire[r] => answeredBy'[r] = layer[r])
    /\ Kept(answeredBy, answeredBy', r)
    /\ verdict' \in [Requests -> Outcomes \cup {"none"}] /\ verdict'[r] = o /\ Kept(verdict, verdict', r)

Steps(r) ==
    \/ Enter(r) \/ Session(r) \/ Admission(r) \/ CSRF(r) \/ SSOGate(r) \/ AuthGate(r)
    \/ RestrictGate(r) \/ Prepare(r) \/ Work(r) \/ StreamEnd(r) \/ Login(r) \/ LoginRecorded(r)
    \/ LoginAnswered(r) \/ Logout(r) \/ Serve(r) \/ Panic(r) \/ Leave(r)

\* An event appended to the trail of a request is one more of its kind and
\* nothing of the others (audit.Emit).
LEMMA RecordKeeps ==
    ASSUME RequestTypes, NEW r \in Requests, NEW kind \in Kinds, NEW o \in Outcomes \cup {"ok"},
           NEW w \in {"none", "user"}, Record(r, kind, o, w)
    PROVE  /\ trail' \in [Requests -> Seq(TrailEvents(Kinds))]
           /\ \A q \in Requests \ {r} : trail'[q] = trail[q]
           /\ EventsOf(r, kind)' = Append(EventsOf(r, kind), [kind |-> kind, outcome |-> o, who |-> w])
           /\ \A k \in Kinds \ {kind} : EventsOf(r, k)' = EventsOf(r, k)
<1> DEFINE event == [kind |-> kind, outcome |-> o, who |-> w]
           Events == TrailEvents(Kinds)
<1>1. event \in Events /\ \A ks : event \in TrailEvents(ks) <=> kind \in ks
  BY DEF TrailEvents, Outcomes
<1>2. trail[r] \in Seq(Events) /\ trail' = [trail EXCEPT ![r] = Append(@, event)]
  BY DEF RequestTypes, Record
<1> HIDE DEF event, Events
<1>3. Append(trail[r], event) \in Seq(Events)  BY <1>1, <1>2, AppendProperties
<1>4. /\ trail' \in [Requests -> Seq(Events)] /\ trail'[r] = Append(trail[r], event)
      /\ \A q \in Requests \ {r} : trail'[q] = trail[q]
  BY <1>2, <1>3 DEF RequestTypes, Events
<1>5. ASSUME NEW gone
      PROVE  Omit(Append(trail[r], event), gone)
                 = IF event \in gone THEN Omit(trail[r], gone) ELSE Append(Omit(trail[r], gone), event)
  <2> DEFINE line == trail[r]
  <2>1. event \in Events /\ line \in Seq(Events)  BY <1>1, <1>2
  <2> HIDE DEF line
  <2>2. Omit(Append(line, event), gone) = IF event \in gone THEN Omit(line, gone) ELSE Append(Omit(line, gone), event)
    BY <2>1, OmitAppend
  <2> QED  BY <2>2 DEF line
<1>6. EventsOf(r, kind)' = Append(EventsOf(r, kind), event)
  BY <1>1, <1>4, <1>5 DEF EventsOf
<1>7. \A k \in Kinds \ {kind} : EventsOf(r, k)' = EventsOf(r, k)
  BY <1>1, <1>4, <1>5 DEF EventsOf, Kinds
<1> QED  BY <1>4, <1>6, <1>7 DEF event, Events

\* A layer that calls the next one says nothing.
LEMMA PassSays ==
    ASSUME RequestTypes, NEW r \in Requests, NEW to \in Layers, Pass(r, to), UNCHANGED <<wire, answeredBy, verdict>>
    PROVE  Said(r, to, wire[r], verdict[r])
  BY DEF RequestTypes, Pass, Said, Kept

\* A layer that answers leaves the outcome to the status.
LEMMA ReplySays ==
    ASSUME RequestTypes, NEW r \in Requests, NEW code \in Nat, Reply(r, code), UNCHANGED verdict
    PROVE  Said(r, "out", code, verdict[r])
  BY DEF RequestTypes, Reply, Write_, Pass, Said, Kept, Layers

\* A layer that answers may set the outcome before (audit.SetOutcome).
LEMMA SetReplySays ==
    ASSUME RequestTypes, NEW r \in Requests, NEW code \in Nat, NEW o \in Outcomes, Set(r, o), Reply(r, code)
    PROVE  Said(r, "out", code, o)
  BY DEF RequestTypes, Reply, Write_, Pass, Said, Kept, Layers, Set

\* What a refusal is filed as, when no layer has said (outcomeForStatus).
LEMMA Refusals ==
    ASSUME NEW code \in Nat
    PROVE  /\ code >= 400 => OutcomeForStatus(code) \in Outcomes
           /\ OutcomeForStatus(code) \in Outcomes \cup {"ok"}
  BY DEF OutcomeForStatus, Outcomes

\* renderError of a refusal or of a bad form: the outcome is never ok.
LEMMA RenderSays ==
    ASSUME RequestTypes, NEW r \in Requests, NEW code \in Nat, code >= 400, NEW o \in Outcomes \cup {"none"},
           RenderError(r, code, o), verdict[r] = "none"
    PROVE  \E said \in {code, 200} : \E of \in Outcomes : Said(r, "out", said, of) /\ (o # "none" => of = o)
<1>1. PICK of \in Outcomes : Set(r, of) /\ (o # "none" => of = o)
  BY Refusals DEF RenderError, Outcomes
<1>2. PICK said \in {code, 200} : Reply(r, said)  BY DEF RenderError
<1>3. said \in Nat  BY <1>2
<1>4. Said(r, "out", said, of)  BY <1>1, <1>2, <1>3, SetReplySays
<1> QED  BY <1>1, <1>4

\* A refusal for capacity is filed as denied, whatever the browser gets to see
\* (RenderCapacityRefusal).
LEMMA RefuseSays ==
    ASSUME RequestTypes, NEW r \in Requests, NEW code \in Nat, code >= 400, RefuseCapacity(r, code), verdict[r] = "none"
    PROVE  \E said \in {code, 200} : Said(r, "out", said, "denied")
<1>1. CASE req[r].htmx /\ ~Authed(r)
  <2>1. Set(r, "denied") /\ Reply(r, code) /\ "denied" \in Outcomes  BY <1>1 DEF RefuseCapacity, Outcomes
  <2> QED  BY <2>1, SetReplySays
<1>2. CASE ~ (req[r].htmx /\ ~Authed(r))
  <2>1. RenderError(r, code, "denied") /\ "denied" \in Outcomes \cup {"none"} /\ "denied" # "none"
    BY <1>2 DEF RefuseCapacity, Outcomes
  <2>2. PICK said \in {code, 200}, of \in Outcomes : Said(r, "out", said, of) /\ of = "denied"
    BY <2>1, RenderSays
  <2> QED  BY <2>2
<1> QED  BY <1>1, <1>2

\* A browser is sent away with 303, which an htmx request follows by itself
\* (redirectToLogin).
LEMMA SendAwaySays ==
    ASSUME RequestTypes, NEW r \in Requests, NEW code \in Nat, SendAway(r, code)
    PROVE  \E said \in {code, 303} : Said(r, "out", said, verdict[r]) /\ (said # 303 => req[r].htmx)
<1>1. PICK said \in {code, 303} : Reply(r, said) /\ UNCHANGED verdict /\ (said # 303 => req[r].htmx)
  BY DEF SendAway
<1>2. said \in Nat  BY <1>1
<1> QED  BY <1>1, <1>2, ReplySays

\* loginErrorStatus records the login it rejects.
LEMMA RejectSays ==
    ASSUME RequestTypes, NEW r \in Requests, NEW code \in Nat, RejectLogin(r, code)
    PROVE  \E said \in {code, 200} : Said(r, "recorded", said, verdict[r])
<1>1. PICK said \in {code, 200} : Write_(r, said)
  BY DEF RejectLogin
<1>2. said \in Nat  BY <1>1
<1>3. Pass(r, "recorded") /\ UNCHANGED verdict  BY DEF RejectLogin
<1>4. Said(r, "recorded", said, verdict[r])
  BY <1>1, <1>2, <1>3 DEF RequestTypes, Write_, Pass, Said, Kept, Layers
<1> QED  BY <1>4


\* A step that does not move q, as q sees it: at most its session is gone.
Still(q) ==
    /\ UNCHANGED <<req, site>> /\ (live' => live)
    /\ layer'[q] = layer[q] /\ obj'[q] = obj[q] /\ wire'[q] = wire[q] /\ counted'[q] = counted[q]
    /\ answeredBy'[q] = answeredBy[q]
    /\ verdict'[q] = verdict[q] /\ who'[q] = who[q] /\ owed'[q] = owed[q]
    /\ stream'[q] = stream[q] /\ trail'[q] = trail[q]
    /\ (q \in crashed' <=> q \in crashed) /\ (q \in parsed' <=> q \in parsed)
    /\ (q \in did' <=> q \in did)

\* A step of one request does not move another.
LEMMA OthersStill ==
    ASSUME NEW r \in Requests, Framed(r), NEW q \in Requests \ {r}
    PROVE  Still(q)
  BY DEF Framed, Kept, Still

\* What holds of a request stays when another one moves: a logout can only take
\* what requestAuthed says away.
LEMMA StillOwn ==
    ASSUME NEW q \in Requests, Still(q), Own(q)
    PROVE  Own(q)'
<1>1. Still(q)  OBVIOUS
<1> USE DEF Still
<1>2. \A k : EventsOf(q, k)' = EventsOf(q, k)  BY <1>1 DEF EventsOf
<1>3. Route(q)' = Route(q) /\ (Forbidden(q)' <=> Forbidden(q)) /\ (TokenMatches(q)' <=> TokenMatches(q))
      /\ (Authed(q)' => Authed(q))
  BY <1>1 DEF Route, Forbidden, TokenMatches, Authed
<1>4. Gated(q)'  BY <1>1, <1>3 DEF Own, Gated, Behind
<1>5. Held(q)'  BY <1>1, <1>3 DEF Own, Held
<1>6. (Unrecorded(q)' <=> Unrecorded(q)) /\ (SentAway(q)' <=> SentAway(q)) /\ (q \in Done' <=> q \in Done)
  BY <1>1, <1>3 DEF Unrecorded, SentAway, Done
<1>7. Told(q)'  BY <1>1, <1>2, <1>3, <1>6 DEF Own, Told
<1>8. Settled(q)'  BY <1>1, <1>2, <1>3, <1>6 DEF Own, Settled
<1> QED  BY <1>4, <1>5, <1>7, <1>8 DEF Own


\* TryAcquire, and the slot the request then owes.
LEMMA AcquireSays ==
    ASSUME RequestTypes, NEW r \in Requests, NEW s \in {"import", "dbop"}, Acquire(r, s)
    PROVE  /\ owed' \in [Requests -> SUBSET {"import", "dbop"}]
           /\ Kept(owed, owed', r)
           /\ owed'[r] = owed[r] \cup {s} \/ (Unlimited(s) /\ owed'[r] = owed[r])
<1>1. CASE Unlimited(s) /\ UNCHANGED owed
  BY <1>1 DEF RequestTypes, Kept
<1>2. CASE owed' = [owed EXCEPT ![r] = @ \cup {s}]
  BY <1>2 DEF RequestTypes, Kept
<1> QED  BY <1>1, <1>2 DEF Acquire

\* A step that tells the trail nothing.
Untold(r) ==
    /\ trail' \in [Requests -> Seq(TrailEvents(Kinds))] /\ Kept(trail, trail', r)
    /\ \A k \in Kinds : EventsOf(r, k)' = EventsOf(r, k)

\* A step that records one event.
Tells(r, kind, o, w) ==
    /\ trail' \in [Requests -> Seq(TrailEvents(Kinds))] /\ Kept(trail, trail', r)
    /\ EventsOf(r, kind)' = Append(EventsOf(r, kind), [kind |-> kind, outcome |-> o, who |-> w])
    /\ \A k \in Kinds \ {kind} : EventsOf(r, k)' = EventsOf(r, k)

\* A step that emits no event.
LEMMA UntoldWhen == ASSUME RequestTypes, NEW r \in Requests, UNCHANGED trail PROVE Untold(r)
  BY DEF RequestTypes, Untold, EventsOf, Kept

\* A step that emits one.
LEMMA TellsWhen ==
    ASSUME RequestTypes, NEW r \in Requests, NEW kind \in Kinds, NEW o \in Outcomes \cup {"ok"},
           NEW w \in {"none", "user"}, Record(r, kind, o, w)
    PROVE  Tells(r, kind, o, w)
<1>1. /\ trail' \in [Requests -> Seq(TrailEvents(Kinds))]
      /\ \A q \in Requests \ {r} : trail'[q] = trail[q]
      /\ EventsOf(r, kind)' = Append(EventsOf(r, kind), [kind |-> kind, outcome |-> o, who |-> w])
      /\ \A k \in Kinds \ {kind} : EventsOf(r, k)' = EventsOf(r, k)
  BY RecordKeeps
<1> QED  BY <1>1 DEF Tells, Kept

\* The first event of its kind is the only one.
LEMMA FirstTold ==
    ASSUME NEW r \in Requests, NEW kind, NEW o, NEW w, Tells(r, kind, o, w), EventsOf(r, kind) = <<>>
    PROVE  Len(EventsOf(r, kind)') = 1
  BY DEF Tells

\* What is known of a request no layer has answered.
LEMMA Unanswered ==
    ASSUME NEW r \in Requests, Own(r),
           layer[r] \in {"new", "session", "admission", "csrf", "sso", "auth", "restrict", "handler"}
    PROVE  /\ verdict[r] = "none" /\ wire[r] = 0 /\ r \notin did /\ r \notin crashed
           /\ EventsOf(r, "auth") = <<>> /\ EventsOf(r, "action") = <<>>
  BY DEF Own, Told

\* What the layers between the session and the way out leave alone.
Inside == UNCHANGED <<req, site, obj, live, who, counted, stream, crashed>>

\* What the gates ask of a request stays as it is within one of its steps.
LEMMA InsideSame ==
    ASSUME NEW r, Inside
    PROVE  /\ Route(r)' = Route(r) /\ (Authed(r)' <=> Authed(r))
           /\ (TokenMatches(r)' <=> TokenMatches(r)) /\ (Forbidden(r)' <=> Forbidden(r))
  BY DEF Inside, Route, Authed, TokenMatches, Forbidden

\* A step of a gate or of a handler keeps the types and the other requests.
LEMMA InsideFramed ==
    ASSUME RequestTypes, NEW r \in Requests, Inside, NEW at, NEW code, NEW o, Said(r, at, code, o),
           Untold(r) \/ \E kind, what, w : Tells(r, kind, what, w),
           owed' \in [Requests -> SUBSET {"import", "dbop"}], Kept(owed, owed', r),
           parsed' \in {parsed, parsed \cup {r}}, did' \in {did, did \cup {r}}
    PROVE  Framed(r)
<1>1. trail' \in [Requests -> Seq(TrailEvents(Kinds))] /\ Kept(trail, trail', r)
  BY DEF Untold, Tells
<1>2. /\ layer' \in [Requests -> Layers] /\ Kept(layer, layer', r)
      /\ wire' \in [Requests -> Nat] /\ Kept(wire, wire', r)
      /\ answeredBy' \in [Requests -> Layers \cup {"none"}] /\ Kept(answeredBy, answeredBy', r)
      /\ verdict' \in [Requests -> Outcomes \cup {"none"}] /\ Kept(verdict, verdict', r)
  BY DEF Said
<1>3. /\ UNCHANGED <<req, site, obj, live, who, counted, stream, crashed>>
      /\ Kept(obj, obj', r) /\ Kept(counted, counted', r) /\ Kept(who, who', r) /\ Kept(stream, stream', r)
  BY DEF Inside, Kept
<1>4. RequestTypes'
  BY <1>1, <1>2, <1>3 DEF RequestTypes
<1> QED  BY <1>1, <1>2, <1>3, <1>4 DEF Framed

\* sessionMW keeps what holds of its request.
LEMMA SessionStep ==
    ASSUME RequestTypes, NEW r \in Requests, Own(r), Session(r)
    PROVE  Framed(r) /\ Own(r)'
<1>1. /\ layer[r] = "session"
      /\ UNCHANGED <<req, site, live, owed, counted, stream, crashed, parsed, did>>
      /\ Held(r) /\ Told(r) /\ verdict[r] = "none" /\ wire[r] = 0 /\ r \notin did /\ r \notin crashed
      /\ EventsOf(r, "auth") = <<>> /\ EventsOf(r, "action") = <<>> /\ owed[r] = {}
  BY DEF Session, Own, Told, Held
<1>2. /\ obj' \in [Requests -> {"none", "pre", "live", "fresh"}] /\ Kept(obj, obj', r)
      /\ who' \in [Requests -> {"none", "user"}] /\ Kept(who, who', r)
      /\ obj'[r] = "live" => who'[r] = "user"
  <2>1. CASE UNCHANGED <<obj, who>>
    BY <2>1 DEF RequestTypes, Kept, Own, Gated
  <2> DEFINE known == req[r].cookie = "pre" \/ (req[r].cookie = "live" /\ live)
  <2>2. CASE /\ obj' = [obj EXCEPT ![r] = IF known THEN req[r].cookie ELSE "fresh"]
             /\ who' = [who EXCEPT ![r] = IF known /\ req[r].cookie = "live" THEN "user" ELSE @]
    <3>1. obj'[r] \in {"pre", "live", "fresh"} /\ (obj'[r] = "live" => who'[r] = "user")
      BY <2>2 DEF RequestTypes
    <3> QED  BY <2>2, <3>1 DEF RequestTypes, Kept
  <2> QED  BY <2>1, <2>2 DEF Session
<1>3. \/ Said(r, "admission", 0, "none") /\ Untold(r)
      \/ /\ \E code \in {429, 200} : Said(r, "out", code, "denied")
         /\ IF Route(r) \in {"login", "sso"} THEN Tells(r, "auth", "denied", "none") ELSE Untold(r)
  <2>1. CASE Pass(r, "admission") /\ UNCHANGED <<wire, answeredBy, verdict, trail>>
    BY <1>1, <2>1, PassSays, UntoldWhen DEF Layers
  <2>2. CASE RefuseCapacity(r, 429) /\ IF Route(r) \in {"login", "sso"} THEN Record(r, "auth", "denied", "none")
                                       ELSE UNCHANGED trail
    <3>1. \E code \in {429, 200} : Said(r, "out", code, "denied")  BY <1>1, <2>2, RefuseSays
    <3>2. IF Route(r) \in {"login", "sso"} THEN Tells(r, "auth", "denied", "none") ELSE Untold(r)
      BY <2>2, TellsWhen, UntoldWhen DEF Kinds, Outcomes
    <3> QED  BY <3>1, <3>2
  <2> QED  BY <2>1, <2>2 DEF Session
<1>4. Framed(r)
  BY <1>1, <1>2, <1>3 DEF Framed, Said, Untold, Tells, Kept, RequestTypes
<1>5. Gated(r)'
  BY <1>1, <1>2, <1>3 DEF Gated, Said, Behind, PastToken, PastProvider, PastAuth, Handling
<1>6. Held(r)'
  BY <1>1, <1>3 DEF Held, Said, Route
<1>7. Told(r)'
  <2>1. EventsOf(r, "action")' = <<>>  BY <1>1, <1>3 DEF Untold, Tells, Kinds
  <2>2. CASE Said(r, "admission", 0, "none") /\ Untold(r)
    <3>1. EventsOf(r, "auth")' = <<>>  BY <1>1, <2>2 DEF Untold, Kinds
    <3> QED  BY <1>1, <2>1, <2>2, <3>1 DEF Told, Said
  <2>3. CASE /\ \E code \in {429, 200} : Said(r, "out", code, "denied")
             /\ IF Route(r) \in {"login", "sso"} THEN Tells(r, "auth", "denied", "none") ELSE Untold(r)
    <3>1. Route(r) = "login" => Len(EventsOf(r, "auth")') = 1
      BY <1>1, <2>3, FirstTold
    <3>2. layer'[r] = "out" /\ wire'[r] # 0 /\ verdict'[r] = "denied"  BY <2>3 DEF Said
    <3> QED  BY <1>1, <2>1, <3>1, <3>2 DEF Told, Route
  <2> QED  BY <1>3, <2>2, <2>3
<1>8. Settled(r)'
  BY <1>3 DEF Settled, Said, Done
<1> QED  BY <1>4, <1>5, <1>6, <1>7, <1>8 DEF Own


\* So do recover, logging and gzip,
LEMMA EnterStep ==
    ASSUME RequestTypes, NEW r \in Requests, Own(r), Enter(r)
    PROVE  Framed(r) /\ Own(r)'
<1>1. /\ layer[r] = "new" /\ Inside /\ Said(r, "session", wire[r], verdict[r]) /\ Untold(r)
      /\ UNCHANGED <<owed, parsed, did>> /\ owed' \in [Requests -> SUBSET {"import", "dbop"}]
      /\ Kept(owed, owed', r)
  BY PassSays, UntoldWhen DEF Enter, Inside, Layers, RequestTypes, Kept
<1>2. Framed(r)  BY <1>1, InsideFramed
<1>3. Gated(r)'
  BY <1>1, InsideSame DEF Own, Gated, Said, Behind, Inside, PastToken, PastProvider, PastAuth, Handling
<1>4. Held(r)'  BY <1>1, InsideSame DEF Own, Held, Said
<1>5. Told(r)'  BY <1>1, InsideSame DEF Own, Told, Said, Untold, Kinds, Inside
<1>6. Settled(r)'  BY <1>1 DEF Settled, Said, Done
<1> QED  BY <1>2, <1>3, <1>4, <1>5, <1>6 DEF Own

\* importAdmission: past it a request with a session holds its slot, or its
\* route is another,
LEMMA AdmissionStep ==
    ASSUME RequestTypes, NEW r \in Requests, Own(r), Admission(r)
    PROVE  Framed(r) /\ Own(r)'
<1>1. /\ layer[r] = "admission" /\ Inside /\ Untold(r) /\ UNCHANGED <<parsed, did>> /\ owed[r] = {}
      /\ wire[r] = 0 /\ verdict[r] = "none" /\ r \notin did /\ r \notin crashed
      /\ EventsOf(r, "auth") = <<>> /\ EventsOf(r, "action") = <<>>
  BY Unanswered, UntoldWhen DEF Admission, Inside, outer, Own, Held
<1>2. /\ owed' \in [Requests -> SUBSET {"import", "dbop"}] /\ Kept(owed, owed', r)
      /\ \/ Said(r, "csrf", 0, "none") /\ owed'[r] = {} /\ ~(Authed(r) /\ Route(r) = "import")
         \/ Said(r, "csrf", 0, "none") /\ owed'[r] = {"import"}
         \/ Said(r, "csrf", 0, "none") /\ owed'[r] = {} /\ Unlimited("import")
         \/ /\ Route(r) = "import" /\ owed'[r] = {}
            /\ \E code \in {503, 200} : Said(r, "out", code, "denied")
  <2>1. CASE ~(Authed(r) /\ Route(r) = "import") /\ Pass(r, "csrf") /\ UNCHANGED <<wire, answeredBy, verdict, owed>>
    BY <1>1, <2>1, PassSays DEF Layers, RequestTypes, Kept
  <2>2. CASE Acquire(r, "import") /\ Pass(r, "csrf") /\ UNCHANGED <<wire, answeredBy, verdict>>
    BY <1>1, <2>2, PassSays, AcquireSays DEF Layers
  <2>3. CASE Route(r) = "import" /\ RefuseCapacity(r, 503) /\ UNCHANGED owed
    BY <1>1, <2>3, RefuseSays DEF RequestTypes, Kept
  <2> QED  BY <2>1, <2>2, <2>3 DEF Admission
<1>3. Framed(r)  BY <1>1, <1>2, InsideFramed
<1>4. Gated(r)'
  BY <1>1, <1>2, InsideSame DEF Own, Gated, Said, Behind, Inside, PastToken, PastProvider, PastAuth, Handling
<1>5. Held(r)'  BY <1>1, <1>2, InsideSame DEF Own, Held, Said
<1>6. Told(r)'
  BY <1>1, <1>2, InsideSame DEF Told, Said, Untold, Kinds, Inside
<1>7. Settled(r)'  BY <1>2 DEF Settled, Said, Done
<1> QED  BY <1>3, <1>4, <1>5, <1>6, <1>7 DEF Own

\* A step that takes no slot.
LEMMA OwedSame == ASSUME RequestTypes, NEW r, UNCHANGED owed
                  PROVE  owed' \in [Requests -> SUBSET {"import", "dbop"}] /\ Kept(owed, owed', r)
  BY DEF RequestTypes, Kept

\* csrf: past it an unsafe request has shown its token; what it rejects of a
\* login is recorded,
LEMMA CSRFStep ==
    ASSUME RequestTypes, NEW r \in Requests, Own(r), CSRF(r)
    PROVE  Framed(r) /\ Own(r)'
<1>1. /\ layer[r] = "csrf" /\ Inside /\ UNCHANGED <<owed, did>>
      /\ wire[r] = 0 /\ verdict[r] = "none" /\ r \notin did /\ r \notin crashed
      /\ EventsOf(r, "auth") = <<>> /\ EventsOf(r, "action") = <<>>
  BY Unanswered DEF CSRF, Inside, outer
<1> DEFINE Passed == /\ Said(r, "sso", 0, "none") /\ Untold(r) /\ (Route(r) \in Unsafe => TokenMatches(r))
                     /\ \/ UNCHANGED parsed
                        \/ parsed' = parsed \cup {r} /\ (Authed(r) \/ Route(r) \in Public)
           Rejected == /\ Route(r) = "login" /\ UNCHANGED parsed /\ Tells(r, "auth", "denied", "none")
                       /\ \E code \in {429, 200} : Said(r, "recorded", code, "none")
           Sent == /\ Route(r) # "login" /\ UNCHANGED parsed /\ Untold(r)
                   /\ \E code \in {401, 303} : Said(r, "out", code, "none") /\ (code # 303 => req[r].htmx)
           Refused == /\ Said(r, "out", 403, "none") /\ parsed' = parsed \cup {r}
                      /\ Authed(r) \/ Route(r) \in Public
                      /\ IF Route(r) = "login" THEN Tells(r, "auth", "denied", "none") ELSE Untold(r)
<1>2. Passed \/ Rejected \/ Sent \/ Refused
  <2>1. CASE Route(r) \notin Unsafe /\ Pass(r, "sso") /\ UNCHANGED <<wire, answeredBy, verdict, parsed, trail>>
    BY <1>1, <2>1, PassSays, UntoldWhen DEF Layers
  <2>2. CASE Route(r) = "login" /\ RejectLogin(r, 429) /\ UNCHANGED parsed
    <3>1. Record(r, "auth", "denied", "none")  BY <2>2 DEF RejectLogin
    <3>2. Tells(r, "auth", "denied", "none")  BY <3>1, TellsWhen DEF Kinds, Outcomes
    <3> QED  BY <1>1, <2>2, <3>2, RejectSays
  <2>3. CASE /\ Route(r) \in Unsafe \ Public /\ ~Authed(r)
             /\ SendAway(r, 401) /\ UNCHANGED <<parsed, trail>>
    BY <1>1, <2>3, SendAwaySays, UntoldWhen DEF Public
  <2>4. CASE /\ Authed(r) \/ Route(r) \in Public
             /\ parsed' = parsed \cup {r} /\ UNCHANGED <<verdict, wire, answeredBy, trail>>
             /\ TokenMatches(r) /\ Pass(r, "sso")
    BY <1>1, <2>4, PassSays, UntoldWhen DEF Layers
  <2>5. CASE /\ Authed(r) \/ Route(r) \in Public
             /\ parsed' = parsed \cup {r} /\ UNCHANGED verdict
             /\ Reply(r, 403)
             /\ IF Route(r) = "login" THEN Record(r, "auth", "denied", "none") ELSE UNCHANGED trail
    BY <1>1, <2>5, ReplySays, TellsWhen, UntoldWhen DEF Kinds, Outcomes
  <2> QED  BY <2>1, <2>2, <2>3, <2>4, <2>5 DEF CSRF
<1>3. /\ \E at, code : Said(r, at, code, "none") /\ at \in {"sso", "recorded", "out"}
      /\ Untold(r) \/ Tells(r, "auth", "denied", "none")
      /\ parsed' \in {parsed, parsed \cup {r}}
  BY <1>2
<1>4. Framed(r)  BY <1>1, <1>3, InsideFramed, OwedSame
<1>5. Gated(r)'
  BY <1>1, <1>2, InsideSame DEF Own, Gated, Said, Behind, Inside, PastToken, PastProvider, PastAuth, Handling
<1>6. Held(r)'
  <2>1. "dbop" \notin owed[r]  BY <1>1 DEF Own, Held
  <2>3. /\ r \in parsed' => r \in parsed \/ Authed(r) \/ Route(r) \in Public
        /\ Route(r) = "import" => Route(r) \notin Public
    BY <1>2 DEF Public
  <2>4. r \in parsed' /\ Route(r) = "import" => "import" \in owed[r] \/ Unlimited("import")
    BY <1>1, <2>3 DEF Own, Held
  <2>2. layer'[r] \in {"sso", "recorded", "out"}  BY <1>3 DEF Said
  <2> QED  BY <1>1, <2>1, <2>2, <2>4, InsideSame DEF Held
<1>7. Told(r)'
  <2>1. EventsOf(r, "action")' = <<>>  BY <1>1, <1>3 DEF Untold, Tells, Kinds
  <2>2. CASE Passed
    BY <1>1, <2>1, <2>2, InsideSame DEF Told, Said, Untold, Kinds, Inside
  <2>3. CASE Rejected
    <3>1. Len(EventsOf(r, "auth")') = 1  BY <1>1, <2>3, FirstTold
    <3> QED  BY <1>1, <2>1, <2>3, <3>1, InsideSame DEF Told, Said, Inside
  <2>4. CASE Sent
    BY <1>1, <2>1, <2>4, InsideSame DEF Told, Said, Inside, SentAway
  <2>5. CASE Refused
    <3>1. Route(r) = "login" => Len(EventsOf(r, "auth")') = 1  BY <1>1, <2>5, FirstTold
    <3> QED  BY <1>1, <2>1, <2>5, <3>1, InsideSame DEF Told, Said, Inside
  <2> QED  BY <1>2, <2>2, <2>3, <2>4, <2>5
<1>8. Settled(r)'  BY <1>3 DEF Settled, Said, Done
<1> QED  BY <1>4, <1>5, <1>6, <1>7, <1>8 DEF Own

\* ssoGate,
LEMMA SSOGateStep ==
    ASSUME RequestTypes, NEW r \in Requests, Own(r), SSOGate(r)
    PROVE  Framed(r) /\ Own(r)'
<1>1. /\ layer[r] = "sso" /\ Inside /\ UNCHANGED <<owed, parsed, did>> /\ Untold(r)
      /\ wire[r] = 0 /\ verdict[r] = "none" /\ r \notin did /\ r \notin crashed
      /\ EventsOf(r, "auth") = <<>> /\ EventsOf(r, "action") = <<>>
  BY Unanswered, UntoldWhen DEF SSOGate, Inside, outer
<1>2. \/ /\ Said(r, "auth", 0, "none")
         /\ site.sso = "unverified" => Route(r) \in {"sso", "metrics", "logout"}
      \/ \E code \in {200, 303} : Said(r, "out", code, "none") /\ (code # 303 => req[r].htmx)
  <2>1. CASE /\ site.sso = "unverified" => Route(r) \in {"sso", "metrics", "logout"}
             /\ Pass(r, "auth") /\ UNCHANGED <<wire, answeredBy, verdict>>
    BY <1>1, <2>1, PassSays DEF Layers
  <2>2. CASE SendAway(r, 200)
    BY <1>1, <2>2, SendAwaySays
  <2> QED  BY <2>1, <2>2 DEF SSOGate
<1>3. Framed(r)  BY <1>1, <1>2, InsideFramed, OwedSame
<1>4. Gated(r)'
  BY <1>1, <1>2, InsideSame DEF Own, Gated, Said, Behind, Inside, PastToken, PastProvider, PastAuth, Handling
<1>5. Held(r)'  BY <1>1, <1>2, InsideSame DEF Own, Held, Said
<1>6. Told(r)'
  <2>1. EventsOf(r, "action")' = <<>> /\ EventsOf(r, "auth")' = <<>>  BY <1>1 DEF Untold, Kinds
  <2>2. CASE Said(r, "auth", 0, "none")
    BY <1>1, <2>1, <2>2 DEF Told, Said, Inside
  <2>3. CASE \E code \in {200, 303} : Said(r, "out", code, "none") /\ (code # 303 => req[r].htmx)
    BY <1>1, <2>1, <2>3 DEF Told, Said, Inside, Unrecorded, SentAway
  <2> QED  BY <1>2, <2>2, <2>3
<1>7. Settled(r)'  BY <1>2 DEF Settled, Said, Done
<1> QED  BY <1>3, <1>4, <1>5, <1>6, <1>7 DEF Own

\* authGate,
LEMMA AuthGateStep ==
    ASSUME RequestTypes, NEW r \in Requests, Own(r), AuthGate(r)
    PROVE  Framed(r) /\ Own(r)'
<1>1. /\ layer[r] = "auth" /\ Inside /\ UNCHANGED <<owed, parsed, did>> /\ Untold(r)
      /\ wire[r] = 0 /\ verdict[r] = "none" /\ r \notin did /\ r \notin crashed
      /\ EventsOf(r, "auth") = <<>> /\ EventsOf(r, "action") = <<>>
  BY Unanswered, UntoldWhen DEF AuthGate, Inside, outer
<1>2. \/ Said(r, "restrict", 0, "none") /\ (Route(r) \in Public \/ obj[r] = "live")
      \/ /\ Route(r) # "login"
         /\ \E code \in {401, 303} : Said(r, "out", code, "none") /\ (code # 303 => req[r].htmx)
  <2>1. CASE (Route(r) \in Public \/ Authed(r)) /\ Pass(r, "restrict") /\ UNCHANGED <<wire, answeredBy, verdict>>
    BY <1>1, <2>1, PassSays DEF Layers, Authed
  <2>2. CASE Route(r) \notin Public /\ SendAway(r, 401)
    BY <1>1, <2>2, SendAwaySays DEF Public
  <2> QED  BY <2>1, <2>2 DEF AuthGate
<1>3. Framed(r)  BY <1>1, <1>2, InsideFramed, OwedSame
<1>4. Gated(r)'
  BY <1>1, <1>2, InsideSame DEF Own, Gated, Said, Behind, Inside, PastToken, PastProvider, PastAuth, Handling
<1>5. Held(r)'  BY <1>1, <1>2, InsideSame DEF Own, Held, Said
<1>6. Told(r)'
  <2>1. EventsOf(r, "action")' = <<>> /\ EventsOf(r, "auth")' = <<>>  BY <1>1 DEF Untold, Kinds
  <2>2. CASE Said(r, "restrict", 0, "none")
    BY <1>1, <2>1, <2>2 DEF Told, Said, Inside
  <2>3. CASE Route(r) # "login" /\ \E code \in {401, 303} : Said(r, "out", code, "none")
    BY <1>1, <2>1, <2>3, InsideSame DEF Told, Said, Inside, SentAway
  <2> QED  BY <1>2, <2>2, <2>3
<1>7. Settled(r)'  BY <1>2 DEF Settled, Said, Done
<1> QED  BY <1>3, <1>4, <1>5, <1>6, <1>7 DEF Own

\* restrict,
LEMMA RestrictStep ==
    ASSUME RequestTypes, NEW r \in Requests, Own(r), RestrictGate(r)
    PROVE  Framed(r) /\ Own(r)'
<1>1. /\ layer[r] = "restrict" /\ Inside /\ UNCHANGED <<owed, parsed, did>> /\ Untold(r)
      /\ wire[r] = 0 /\ verdict[r] = "none" /\ r \notin did /\ r \notin crashed
      /\ EventsOf(r, "auth") = <<>> /\ EventsOf(r, "action") = <<>>
  BY Unanswered, UntoldWhen DEF RestrictGate, Inside, outer
<1>2. \/ Said(r, "handler", 0, "none") /\ (Route(r) \in Public \/ ~Forbidden(r))
      \/ /\ Route(r) # "login"
         /\ \E code \in {403, 200} : Said(r, "out", code, "denied")
  <2>1. CASE Route(r) \notin Public /\ RenderError(r, 403, "denied")
    <3>1. PICK code \in {403, 200}, of \in Outcomes : Said(r, "out", code, of) /\ of = "denied"
      BY <1>1, <2>1, RenderSays DEF Outcomes
    <3> QED  BY <2>1, <3>1 DEF Public
  <2>2. CASE (Route(r) \in Public \/ ~Forbidden(r)) /\ Pass(r, "handler") /\ UNCHANGED <<wire, answeredBy, verdict>>
    BY <1>1, <2>2, PassSays DEF Layers
  <2> QED  BY <2>1, <2>2 DEF RestrictGate
<1>3. Framed(r)  BY <1>1, <1>2, InsideFramed, OwedSame
<1>4. Gated(r)'
  BY <1>1, <1>2, InsideSame DEF Own, Gated, Said, Behind, Inside, PastToken, PastProvider, PastAuth, Handling
<1>5. Held(r)'  BY <1>1, <1>2, InsideSame DEF Own, Held, Said
<1>6. Told(r)'
  <2>1. EventsOf(r, "action")' = <<>> /\ EventsOf(r, "auth")' = <<>>  BY <1>1 DEF Untold, Kinds
  <2> QED  BY <1>1, <1>2, <2>1, InsideSame DEF Told, Said, Inside
<1>7. Settled(r)'  BY <1>2 DEF Settled, Said, Done
<1> QED  BY <1>3, <1>4, <1>5, <1>6, <1>7 DEF Own

\* requireUser, acquireDBOp and the refusal of saveProgram,
LEMMA PrepareStep ==
    ASSUME RequestTypes, NEW r \in Requests, Own(r), Prepare(r)
    PROVE  Framed(r) /\ Own(r)'
<1>1. /\ layer[r] = "handler" /\ Route(r) \notin Public /\ Inside /\ UNCHANGED <<parsed, did>> /\ Untold(r)
      /\ wire[r] = 0 /\ verdict[r] = "none" /\ r \notin did /\ r \notin crashed
      /\ EventsOf(r, "auth") = <<>> /\ EventsOf(r, "action") = <<>> /\ "dbop" \notin owed[r]
  BY Unanswered, UntoldWhen DEF Prepare, Inside, outer, Own, Held
<1>2. /\ owed' \in [Requests -> SUBSET {"import", "dbop"}] /\ Kept(owed, owed', r)
      /\ owed[r] \subseteq owed'[r]
      /\ \/ Said(r, "work", 0, "none") /\ ~(Route(r) = "program" /\ "console" \in site.refused)
         \/ Said(r, "out", 303, "none")
         \/ \E code \in {403, 503, 200} : Said(r, "out", code, "denied")
  <2>1. CASE Reply(r, 303) /\ UNCHANGED <<verdict, owed>>
    BY <1>1, <2>1, ReplySays, OwedSame
  <2>2. CASE /\ Acquire(r, "dbop") /\ Pass(r, "work") /\ UNCHANGED <<wire, answeredBy, verdict>>
             /\ Route(r) # "program"
    BY <1>1, <2>2, PassSays, AcquireSays DEF Layers
  <2>3. CASE RefuseCapacity(r, 503) /\ UNCHANGED owed
    <3>1. \E code \in {503, 200} : Said(r, "out", code, "denied")  BY <1>1, <2>3, RefuseSays
    <3> QED  BY <2>3, <3>1, OwedSame
  <2>4. CASE RenderError(r, 403, "denied") /\ UNCHANGED owed
    <3>1. PICK code \in {403, 200}, of \in Outcomes : Said(r, "out", code, of) /\ of = "denied"
      BY <1>1, <2>4, RenderSays DEF Outcomes
    <3> QED  BY <2>4, <3>1, OwedSame
  <2>5. CASE /\ ~(Route(r) = "program" /\ "console" \in site.refused)
             /\ Pass(r, "work") /\ UNCHANGED <<wire, answeredBy, verdict, owed>>
    BY <1>1, <2>5, PassSays, OwedSame DEF Layers
  <2> QED  BY <2>1, <2>2, <2>3, <2>4, <2>5 DEF Prepare
<1>3. Framed(r)  BY <1>1, <1>2, InsideFramed
<1>4. Gated(r)'
  BY <1>1, <1>2, InsideSame DEF Own, Gated, Said, Behind, Inside, PastToken, PastProvider, PastAuth, Handling
<1>5. Held(r)'  BY <1>1, <1>2, InsideSame DEF Own, Held, Said
<1>6. Told(r)'
  <2>1. EventsOf(r, "action")' = <<>> /\ EventsOf(r, "auth")' = <<>>  BY <1>1 DEF Untold, Kinds
  <2>2. Route(r) # "login"  BY <1>1 DEF Public
  <2> QED  BY <1>1, <1>2, <2>1, <2>2, InsideSame DEF Told, Said, Inside, SentAway
<1>7. Settled(r)'  BY <1>2 DEF Settled, Said, Done
<1> QED  BY <1>3, <1>4, <1>5, <1>6, <1>7 DEF Own

\* a handler that does its work, or refuses the form,
LEMMA WorkStep ==
    ASSUME RequestTypes, NEW r \in Requests, Own(r), Work(r)
    PROVE  Framed(r) /\ Own(r)'
<1>1. /\ layer[r] = "work" /\ Route(r) \notin Public /\ Untold(r)
      /\ UNCHANGED <<req, site, obj, live, who, counted, crashed, owed, parsed>>
      /\ wire[r] = 0 /\ verdict[r] = "none" /\ r \notin did /\ r \notin crashed
      /\ EventsOf(r, "auth") = <<>> /\ EventsOf(r, "action") = <<>>
  BY UntoldWhen DEF Work, outer, Own, Told, Gated
<1>2. /\ stream' \in [Requests -> {"none", "open", "ended", "torn"}] /\ Kept(stream, stream', r)
      /\ \/ did' = did \cup {r} /\ Said(r, "out", 303, "none")
         \/ did' = did \cup {r} /\ Said(r, "stream", 200, "none")
         \/ did' = did /\ \E code \in {400, 303, 204, 200}, o \in Outcomes : Said(r, "out", code, o)
  <2>1. CASE did' = did \cup {r} /\ Reply(r, 303) /\ UNCHANGED <<verdict, stream>>
    BY <1>1, <2>1, ReplySays DEF RequestTypes, Kept
  <2>2. CASE /\ did' = did \cup {r} /\ Write_(r, 200)
             /\ Pass(r, "stream") /\ stream' = [stream EXCEPT ![r] = "open"] /\ UNCHANGED verdict
    BY <1>1, <2>2 DEF RequestTypes, Kept, Said, Pass, Write_, Layers
  <2>3. CASE RenderError(r, 400, "none") /\ UNCHANGED <<did, stream>>
    <3>1. PICK code \in {400, 200}, of \in Outcomes : Said(r, "out", code, of)
      BY <1>1, <2>3, RenderSays DEF Outcomes
    <3> QED  BY <2>3, <3>1 DEF RequestTypes, Kept
  <2>4. CASE /\ \E o \in {"invalid", "error"} : Set(r, o) /\ Reply(r, IF req[r].htmx THEN 204 ELSE 303)
             /\ UNCHANGED <<did, stream>>
    <3>1. PICK o \in {"invalid", "error"}, code \in {204, 303} : Set(r, o) /\ Reply(r, code)
      BY <2>4
    <3>2. o \in Outcomes /\ code \in Nat  BY DEF Outcomes
    <3>3. Said(r, "out", code, o)  BY <3>1, <3>2, SetReplySays
    <3> QED  BY <2>4, <3>2, <3>3 DEF RequestTypes, Kept
  <2> QED  BY <2>1, <2>2, <2>3, <2>4 DEF Work
<1>3. Framed(r)
  <2>1. \E at, code, o : Said(r, at, code, o)  BY <1>2
  <2>2. did' \in {did, did \cup {r}}  BY <1>2
  <2> QED  BY <1>1, <1>2, <2>1, <2>2 DEF Framed, Said, Untold, Kept, RequestTypes
<1>4. Gated(r)'
  BY <1>1, <1>2 DEF Own, Gated, Said, Behind, PastToken, PastProvider, PastAuth, Handling, Route,
                    TokenMatches, Forbidden, Public
<1>5. Held(r)'  BY <1>1, <1>2 DEF Own, Held, Said, Route
<1>6. Told(r)'
  <2>1. EventsOf(r, "action")' = <<>> /\ EventsOf(r, "auth")' = <<>>  BY <1>1 DEF Untold, Kinds
  <2>2. Route(r) # "login" /\ Route(r)' = Route(r)  BY <1>1 DEF Public, Route
  <2> QED  BY <1>1, <1>2, <2>1, <2>2 DEF Told, Said, Outcomes
<1>7. Settled(r)'  BY <1>2 DEF Settled, Said, Done
<1> QED  BY <1>3, <1>4, <1>5, <1>6, <1>7 DEF Own

\* a handler whose stream ends,
LEMMA StreamStep ==
    ASSUME RequestTypes, NEW r \in Requests, Own(r), StreamEnd(r)
    PROVE  Framed(r) /\ Own(r)'
<1>1. /\ layer[r] = "stream" /\ Inside /\ UNCHANGED <<owed, parsed, did>> /\ Untold(r)
      /\ Said(r, "out", wire[r], verdict[r]) /\ Route(r) # "login"
  BY PassSays, UntoldWhen DEF StreamEnd, Inside, outer, Layers, Own, Gated, Public
<1>2. Framed(r)  BY <1>1, InsideFramed, OwedSame
<1>3. Gated(r)'
  BY <1>1, InsideSame DEF Own, Gated, Said, Behind, Inside, PastToken, PastProvider, PastAuth, Handling
<1>4. Held(r)'  BY <1>1, InsideSame DEF Own, Held, Said
<1>5. Told(r)'  BY <1>1, InsideSame DEF Own, Told, Said, Untold, Kinds, Inside
<1>6. Settled(r)'  BY <1>1 DEF Settled, Said, Done
<1> QED  BY <1>2, <1>3, <1>4, <1>5, <1>6 DEF Own

\* the login handler,
LEMMA LoginStep ==
    ASSUME RequestTypes, NEW r \in Requests, Own(r), Login(r)
    PROVE  Framed(r) /\ Own(r)'
<1>1. /\ layer[r] = "handler" /\ Route(r) = "login"
      /\ UNCHANGED <<req, site, obj, live, counted, crashed, owed, parsed, stream>>
      /\ wire[r] = 0 /\ verdict[r] = "none" /\ r \notin did /\ r \notin crashed
      /\ EventsOf(r, "auth") = <<>> /\ EventsOf(r, "action") = <<>> /\ "dbop" \notin owed[r]
  BY Unanswered DEF Login, Own, Held
<1> DEFINE Home == /\ Said(r, "out", 303, "none") /\ Untold(r) /\ UNCHANGED <<who, did>>
           BadForm == /\ \E code \in {400, 200} : Said(r, "out", code, "invalid")
                      /\ Untold(r) /\ UNCHANGED <<who, did>>
           Rejected == /\ \E code \in {401, 429, 200} : Said(r, "recorded", code, "none")
                       /\ Tells(r, "auth", "denied", "none") /\ UNCHANGED <<who, did>>
           LoggedIn == /\ Said(r, "loggedin", 0, "none") /\ Untold(r)
                       /\ who' = [who EXCEPT ![r] = "user"] /\ did' = did \cup {r}
<1>2. Home \/ BadForm \/ Rejected \/ LoggedIn
  <2>1. CASE Reply(r, 303) /\ UNCHANGED <<verdict, who, did, trail>>
    BY <1>1, <2>1, ReplySays, UntoldWhen
  <2>2. CASE RenderError(r, 400, "none") /\ UNCHANGED <<who, did, trail>>
    <3>1. OutcomeForStatus(400) = "invalid" /\ "invalid" \in Outcomes  BY DEF OutcomeForStatus, Outcomes
    <3>2. Set(r, "invalid")  BY <1>1, <2>2, <3>1 DEF RenderError
    <3>3. PICK code \in {400, 200} : Reply(r, code)  BY <2>2 DEF RenderError
    <3>4. Said(r, "out", code, "invalid")  BY <3>1, <3>2, <3>3, SetReplySays
    <3> QED  BY <2>2, <3>4, UntoldWhen
  <2>3. CASE (\E code \in {401, 429} : RejectLogin(r, code)) /\ UNCHANGED <<who, did>>
    <3>1. PICK code \in {401, 429} : RejectLogin(r, code)  BY <2>3
    <3>2. Record(r, "auth", "denied", "none") /\ code \in Nat  BY <3>1 DEF RejectLogin
    <3>3. Tells(r, "auth", "denied", "none")  BY <3>2, TellsWhen DEF Kinds, Outcomes
    <3>4. \E said \in {code, 200} : Said(r, "recorded", said, "none")  BY <1>1, <3>1, <3>2, RejectSays
    <3> QED  BY <2>3, <3>3, <3>4
  <2>4. CASE /\ who' = [who EXCEPT ![r] = "user"] /\ did' = did \cup {r}
             /\ Pass(r, "loggedin") /\ UNCHANGED <<wire, answeredBy, verdict, trail>>
    BY <1>1, <2>4, PassSays, UntoldWhen DEF Layers
  <2> QED  BY <2>1, <2>2, <2>3, <2>4 DEF Login
<1>3. /\ who' \in [Requests -> {"none", "user"}] /\ Kept(who, who', r) /\ who'[r] \in {who[r], "user"}
      /\ did' \in {did, did \cup {r}} /\ (r \in did' => who'[r] = "user")
      /\ \E at, code, o : Said(r, at, code, o) /\ at \in {"out", "recorded", "loggedin"}
      /\ Untold(r) \/ Tells(r, "auth", "denied", "none")
  <2>1. CASE Home      BY <1>1, <2>1 DEF RequestTypes, Kept
  <2>2. CASE BadForm   BY <1>1, <2>2 DEF RequestTypes, Kept
  <2>3. CASE Rejected  BY <1>1, <2>3 DEF RequestTypes, Kept
  <2>4. CASE LoggedIn  BY <1>1, <2>4 DEF RequestTypes, Kept
  <2> QED  BY <1>2, <2>1, <2>2, <2>3, <2>4
<1>4. trail' \in [Requests -> Seq(TrailEvents(Kinds))] /\ Kept(trail, trail', r)
      /\ EventsOf(r, "action")' = <<>>
  BY <1>1, <1>3 DEF Untold, Tells, Kinds
<1>5. Framed(r)
  BY <1>1, <1>3, <1>4 DEF Framed, Said, Kept, RequestTypes
<1>6. Gated(r)'
  BY <1>1, <1>3 DEF Own, Gated, Said, Behind, PastToken, PastProvider, PastAuth, Handling, Route,
                    TokenMatches, Forbidden, Public
<1>7. Held(r)'
  <2>1. layer'[r] \in {"out", "recorded", "loggedin"}  BY <1>3 DEF Said
  <2> QED  BY <1>1, <2>1 DEF Own, Held, Route
<1>8. Told(r)'
  <2>1. CASE Home
    <3>1. EventsOf(r, "auth")' = <<>>  BY <1>1, <2>1 DEF Untold, Kinds
    <3> QED  BY <1>1, <1>4, <2>1, <3>1 DEF Told, Said, Unrecorded, Route
  <2>2. CASE BadForm
    <3>1. EventsOf(r, "auth")' = <<>>  BY <1>1, <2>2 DEF Untold, Kinds
    <3> QED  BY <1>1, <1>4, <2>2, <3>1 DEF Told, Said, Unrecorded, Route
  <2>3. CASE Rejected
    <3>1. Len(EventsOf(r, "auth")') = 1  BY <1>1, <2>3, FirstTold
    <3> QED  BY <1>1, <1>4, <2>3, <3>1 DEF Told, Said, Route
  <2>4. CASE LoggedIn
    <3>1. EventsOf(r, "auth")' = <<>>  BY <1>1, <2>4 DEF Untold, Kinds
    <3> QED  BY <1>1, <1>4, <2>4, <3>1 DEF Told, Said, Route
  <2> QED  BY <1>2, <2>1, <2>2, <2>3, <2>4
<1>9. Settled(r)'  BY <1>3 DEF Settled, Said, Done
<1> QED  BY <1>5, <1>6, <1>7, <1>8, <1>9 DEF Own

\* its record of a success,
LEMMA LoginRecordedStep ==
    ASSUME RequestTypes, NEW r \in Requests, Own(r), LoginRecorded(r)
    PROVE  Framed(r) /\ Own(r)'
<1>1. /\ layer[r] = "loggedin" /\ Inside /\ UNCHANGED <<owed, parsed, did>> /\ Route(r) = "login"
      /\ Said(r, "recorded", wire[r], verdict[r]) /\ Tells(r, "auth", "ok", "user")
      /\ r \notin crashed /\ EventsOf(r, "auth") = <<>> /\ EventsOf(r, "action") = <<>>
  BY PassSays, TellsWhen DEF LoginRecorded, Inside, outer, Layers, Own, Gated, Told, Kinds
<1>2. Framed(r)  BY <1>1, InsideFramed, OwedSame
<1>3. Gated(r)'
  BY <1>1, InsideSame DEF Own, Gated, Said, Behind, Inside, PastToken, PastProvider, PastAuth, Handling
<1>4. Held(r)'  BY <1>1, InsideSame DEF Own, Held, Said
<1>5. Told(r)'
  <2>1. Len(EventsOf(r, "auth")') = 1 /\ EventsOf(r, "action")' = <<>>
    BY <1>1, FirstTold DEF Tells, Kinds
  <2> QED  BY <1>1, <2>1, InsideSame DEF Own, Told, Said, Inside
<1>6. Settled(r)'  BY <1>1 DEF Settled, Said, Done
<1> QED  BY <1>2, <1>3, <1>4, <1>5, <1>6 DEF Own

\* its answer,
LEMMA LoginAnsweredStep ==
    ASSUME RequestTypes, NEW r \in Requests, Own(r), LoginAnswered(r)
    PROVE  Framed(r) /\ Own(r)'
<1>1. /\ layer[r] = "recorded" /\ Inside /\ UNCHANGED <<owed, parsed, did>> /\ Untold(r)
      /\ Route(r) = "login"
  BY UntoldWhen DEF LoginAnswered, Inside, outer, Own, Told
<1>2. PICK code \in Nat \ {0} : Said(r, "out", code, verdict[r])
  <2>1. PICK code \in Nat \ {0} : Reply(r, code) /\ UNCHANGED verdict
    BY DEF LoginAnswered, RequestTypes
  <2> QED  BY <2>1, ReplySays
<1>3. Framed(r)  BY <1>1, <1>2, InsideFramed, OwedSame
<1>4. Gated(r)'
  BY <1>1, <1>2, InsideSame DEF Own, Gated, Said, Behind, Inside, PastToken, PastProvider, PastAuth, Handling
<1>5. Held(r)'  BY <1>1, <1>2, InsideSame DEF Own, Held, Said
<1>6. Told(r)'
  <2>1. Len(EventsOf(r, "auth")') = 1 /\ EventsOf(r, "action")' = <<>>
    BY <1>1 DEF Own, Told, Untold, Kinds
  <2> QED  BY <1>1, <1>2, <2>1, InsideSame DEF Own, Told, Said, Inside
<1>7. Settled(r)'  BY <1>2 DEF Settled, Said, Done
<1> QED  BY <1>3, <1>4, <1>5, <1>6, <1>7 DEF Own

\* the logout handler, which may take the session of other requests too,
LEMMA LogoutStep ==
    ASSUME RequestTypes, NEW r \in Requests, Own(r), Logout(r)
    PROVE  Framed(r) /\ Own(r)'
<1>1. /\ layer[r] = "handler" /\ Route(r) = "logout" /\ did' = did \cup {r}
      /\ UNCHANGED <<req, site, obj, who, counted, crashed, stream, owed, parsed>> /\ (live' => live)
      /\ live' \in BOOLEAN /\ r \notin crashed /\ EventsOf(r, "action") = <<>> /\ "dbop" \notin owed[r]
  BY Unanswered DEF Logout, outer, Own, Held, RequestTypes
<1>2. Said(r, "out", 303, "none")  BY <1>1, Unanswered, ReplySays DEF Logout
<1>3. trail' \in [Requests -> Seq(TrailEvents(Kinds))] /\ Kept(trail, trail', r)
      /\ EventsOf(r, "action")' = <<>>
  <2>1. PICK w \in {"none", "user"} : Record(r, "auth", "ok", w)  BY DEF Logout
  <2>2. Tells(r, "auth", "ok", w)  BY <2>1, TellsWhen DEF Kinds
  <2> QED  BY <1>1, <2>2 DEF Tells, Kinds
<1>4. Framed(r)
  BY <1>1, <1>2, <1>3 DEF Framed, Said, Kept, RequestTypes
<1>5. Gated(r)'
  BY <1>1, <1>2 DEF Own, Gated, Said, Behind, PastToken, PastProvider, PastAuth, Handling, Route,
                    TokenMatches, Forbidden, Public
<1>6. Held(r)'  BY <1>1, <1>2 DEF Own, Held, Said, Route
<1>7. Told(r)'  BY <1>1, <1>2, <1>3 DEF Told, Said, Route
<1>8. Settled(r)'  BY <1>2 DEF Settled, Said, Done
<1> QED  BY <1>4, <1>5, <1>6, <1>7, <1>8 DEF Own

\* the other public handlers,
LEMMA ServeStep ==
    ASSUME RequestTypes, NEW r \in Requests, Own(r), Serve(r)
    PROVE  Framed(r) /\ Own(r)'
<1>1. /\ layer[r] = "handler" /\ Inside /\ UNCHANGED <<owed, parsed, did, verdict>> /\ Untold(r)
      /\ Route(r) \in {"loginform", "sso", "metrics", "unknown"} /\ verdict[r] = "none"
      /\ EventsOf(r, "action") = <<>> /\ r \notin did /\ r \notin crashed
  BY UntoldWhen, Unanswered DEF Serve, Inside, outer
<1>2. PICK code \in {200, 303, 401, 403, 404, 405} :
            Said(r, "out", code, "none") /\ (Route(r) = "unknown" => code \in {404, 405})
  <2>1. PICK code \in {200, 303, 401, 403, 404, 405} :
            Reply(r, code) /\ (Route(r) = "unknown" => code \in {404, 405})
    BY DEF Serve
  <2> QED  BY <1>1, <2>1, ReplySays
<1>3. Framed(r)  BY <1>1, <1>2, InsideFramed, OwedSame
<1>4. Gated(r)'
  BY <1>1, <1>2, InsideSame DEF Own, Gated, Said, Behind, Inside, PastToken, PastProvider, PastAuth, Handling
<1>5. Held(r)'  BY <1>1, <1>2, InsideSame DEF Own, Held, Said
<1>6. Told(r)'
  <2>1. EventsOf(r, "action")' = <<>>  BY <1>1 DEF Untold, Kinds
  <2>2. wire'[r] = code /\ layer'[r] = "out" /\ verdict'[r] = "none"  BY <1>2 DEF Said
  <2>a. Route(r)' = Route(r) /\ Route(r) # "login" /\ (Route(r) \in Unsafe => Route(r) = "unknown")
    BY <1>1, InsideSame DEF Unsafe
  <2>b. code # 0 /\ (Route(r) = "unknown" => code \notin 1 .. 399)  BY <1>2
  <2>3. /\ code # 0 /\ Route(r)' = Route(r) /\ Route(r) # "login"
        /\ Route(r) \in Unsafe => code \notin 1 .. 399
    BY <2>a, <2>b
  <2>4. r \notin did' /\ r \notin crashed'  BY <1>1 DEF Inside
  <2> QED  BY <2>1, <2>2, <2>3, <2>4 DEF Told
<1>7. Settled(r)'  BY <1>2 DEF Settled, Said, Done
<1> QED  BY <1>3, <1>4, <1>5, <1>6, <1>7 DEF Own

\* a panic, at whatever point of a handler,
LEMMA PanicStep ==
    ASSUME RequestTypes, NEW r \in Requests, Own(r), Panic(r)
    PROVE  Framed(r) /\ Own(r)'
<1>1. /\ layer[r] \in {"handler", "work", "stream", "loggedin", "recorded"}
      /\ UNCHANGED <<req, site, obj, live, who, counted, stream, owed, parsed, did>> /\ Untold(r)
      /\ crashed' = crashed \cup {r} /\ Said(r, "out", wire[r], verdict[r])
  BY PassSays, UntoldWhen DEF Panic, Layers
<1>2. Framed(r)  BY <1>1 DEF Framed, Said, Untold, Kept, RequestTypes
<1>3. Gated(r)'
  BY <1>1 DEF Own, Gated, Said, Behind, PastToken, PastProvider, PastAuth, Handling, Route,
              TokenMatches, Forbidden
<1>4. Held(r)'  BY <1>1 DEF Own, Held, Said, Route
<1>5. Told(r)'
  <2>1. EventsOf(r, "action")' = <<>> /\ EventsOf(r, "auth")' = EventsOf(r, "auth")
    BY <1>1 DEF Own, Told, Untold, Kinds
  <2>2. Len(EventsOf(r, "auth")) = 0 \/ Len(EventsOf(r, "auth")) = 1  BY <1>1 DEF Own, Told
  <2>3. layer'[r] = "out" /\ wire'[r] = wire[r] /\ verdict'[r] = verdict[r] /\ r \in crashed'
        /\ Route(r)' = Route(r) /\ UNCHANGED did /\ 0 \notin 1 .. 399
    BY <1>1 DEF Said, Route
  <2>4. Route(r) \in Unsafe \ {"login"} /\ r \notin did => wire[r] = 0
    BY <1>1 DEF Own, Told
  <2>5. /\ Route(r)' \in Unsafe \ {"login"} /\ r \notin did' => wire'[r] \notin 1 .. 399
        /\ Len(EventsOf(r, "auth")') = 0 \/ Len(EventsOf(r, "auth")') = 1
    BY <2>1, <2>2, <2>3, <2>4
  <2> QED  BY <2>1, <2>3, <2>5 DEF Told
<1>6. Settled(r)'  BY <1>1 DEF Settled, Said, Done
<1> QED  BY <1>2, <1>3, <1>4, <1>5, <1>6 DEF Own

\* and the deferred calls: what a request that leaves was told and observed is
\* what TrailIsComplete and GatesHold ask for.
LEMMA LeaveStep ==
    ASSUME RequestTypes, NEW r \in Requests, Own(r), Leave(r)
    PROVE  Framed(r) /\ Own(r)'
<1> DEFINE seen == Observed(r)
           filed == IF verdict[r] # "none" THEN verdict[r] ELSE OutcomeForStatus(seen)
<1>1. /\ layer[r] = "out" /\ layer'[r] = "done"
      /\ UNCHANGED <<req, site, obj, live, who, crashed, parsed, did, verdict, answeredBy>>
      /\ owed'[r] = {} /\ wire'[r] = seen /\ seen \in Nat
      /\ stream'[r] # "open" /\ (r \in crashed => stream'[r] # "ended")
      /\ counted'[r] = IF Route(r) = "metrics" THEN 0 ELSE seen
  BY DEF Leave, Pass, Observed, RequestTypes
<1>2. seen # 0 /\ (r \notin crashed => seen = wire[r]) /\ (seen < 400 => wire[r] = seen)
  BY <1>1 DEF Observed, RequestTypes, Own, Told
<1>3. verdict[r] \in Outcomes \cup {"none"}  BY DEF RequestTypes
<1> HIDE DEF seen
<1>4. filed \in Outcomes \cup {"ok"} /\ (filed = "ok" => verdict[r] = "none" /\ seen < 400)
      /\ (verdict[r] = "denied" => filed = "denied")
  BY <1>1, <1>3, Refusals DEF Outcomes
<1>5. IF Audits(r) THEN Tells(r, IF Route(r) = "login" THEN "auth" ELSE "action", filed, who[r])
      ELSE Untold(r)
  <2>1. CASE Audits(r)
    <3>1. Record(r, IF Route(r) = "login" THEN "auth" ELSE "action", filed, who[r])
      BY <2>1 DEF Leave, seen
    <3>2. who[r] \in {"none", "user"}  BY DEF RequestTypes
    <3> HIDE DEF filed
    <3>3. Tells(r, IF Route(r) = "login" THEN "auth" ELSE "action", filed, who[r])
      BY <1>4, <3>1, <3>2, TellsWhen DEF Kinds
    <3> QED  BY <2>1, <3>3
  <2>2. CASE ~Audits(r)
    <3>1. UNCHANGED trail  BY <2>2 DEF Leave
    <3> QED  BY <2>2, <3>1, UntoldWhen
  <2> QED  BY <2>1, <2>2
<1> HIDE DEF filed
<1>6. /\ Len(EventsOf(r, "action")') = IF Route(r) \in Unsafe \ {"login"} THEN 1 ELSE 0
      /\ Route(r) \in Unsafe \ {"login"} =>
             EventsOf(r, "action")'[1] = [kind |-> "action", outcome |-> filed, who |-> who[r]]
      /\ Route(r) = "login" => Len(EventsOf(r, "auth")')
                                = Len(EventsOf(r, "auth")) + (IF r \in crashed THEN 1 ELSE 0)
  <2>1. /\ EventsOf(r, "action") = <<>> /\ Len(<<>>) = 0
        /\ EventsOf(r, "auth") \in Seq(TrailEvents(Kinds))
    BY <1>1, OmitProperties DEF Own, Told, RequestTypes, EventsOf
  <2>2. CASE Route(r) \in Unsafe \ {"login"}
    <3>1. Tells(r, "action", filed, who[r])  BY <1>5, <2>2 DEF Audits
    <3> DEFINE event == [kind |-> "action", outcome |-> filed, who |-> who[r]]
    <3>2. /\ EventsOf(r, "action")' = Append(<<>>, event)
          /\ EventsOf(r, "auth")' = EventsOf(r, "auth")
      BY <2>1, <3>1 DEF Tells, Kinds
    <3> HIDE DEF event
    <3>3. Len(EventsOf(r, "action")') = 1 /\ EventsOf(r, "action")'[1] = event  BY <3>2
    <3> QED  BY <2>2, <3>3 DEF event
  <2>3. CASE Route(r) = "login" /\ r \in crashed
    <3>1. Tells(r, "auth", filed, who[r])  BY <1>5, <2>3 DEF Audits, Unsafe
    <3>2. /\ EventsOf(r, "action")' = <<>>
          /\ \E event : EventsOf(r, "auth")' = Append(EventsOf(r, "auth"), event) /\ event \in TrailEvents(Kinds)
      <4>1. who[r] \in {"none", "user"}  BY DEF RequestTypes
      <4>2. [kind |-> "auth", outcome |-> filed, who |-> who[r]] \in TrailEvents(Kinds)
        BY <1>4, <4>1 DEF TrailEvents, Kinds, Outcomes
      <4> QED  BY <2>1, <3>1, <4>2 DEF Tells, Kinds
    <3> QED  BY <2>1, <2>3, <3>2, AppendProperties
  <2>4. CASE Route(r) \notin Unsafe \/ (Route(r) = "login" /\ r \notin crashed)
    <3>1. Untold(r)  BY <1>5, <2>4 DEF Audits
    <3> QED  BY <2>1, <2>4, <3>1 DEF Untold, Kinds, Unsafe
  <2> QED  BY <2>2, <2>3, <2>4
<1>7. Framed(r)
  <2>1. trail' \in [Requests -> Seq(TrailEvents(Kinds))] /\ Kept(trail, trail', r)
    BY <1>5 DEF Untold, Tells
  <2>2. /\ layer' = [layer EXCEPT ![r] = "done"] /\ wire' = [wire EXCEPT ![r] = seen]
        /\ owed' = [owed EXCEPT ![r] = {}]
        /\ counted' = [counted EXCEPT ![r] = IF Route(r) = "metrics" THEN 0 ELSE seen]
        /\ stream' = [stream EXCEPT ![r] =
               IF @ = "none" THEN @ ELSE IF r \in crashed THEN "torn" ELSE "ended"]
    BY DEF Leave, Pass, seen
  <2>3. /\ layer' \in [Requests -> Layers] /\ wire' \in [Requests -> Nat]
        /\ owed' \in [Requests -> SUBSET {"import", "dbop"}] /\ counted' \in [Requests -> Nat]
    BY <1>1, <2>2 DEF RequestTypes, Layers
  <2>4. stream' \in [Requests -> {"none", "open", "ended", "torn"}]
    BY <2>2 DEF RequestTypes
  <2>5. /\ Kept(layer, layer', r) /\ Kept(wire, wire', r) /\ Kept(owed, owed', r)
        /\ Kept(counted, counted', r) /\ Kept(stream, stream', r)
    BY <2>2 DEF RequestTypes, Kept
  <2> QED  BY <1>1, <2>1, <2>3, <2>4, <2>5 DEF Framed, RequestTypes, Kept
<1>8. Gated(r)'
  BY <1>1 DEF Own, Gated, Behind, PastToken, PastProvider, PastAuth, Handling, Route,
              TokenMatches, Forbidden
<1>9. Held(r)'  BY <1>1 DEF Held
<1>10. Told(r)'  BY <1>1 DEF Own, Told
<1>11. Settled(r)'
  <2>1. /\ counted'[r] = 0 => Route(r) = "metrics"
        /\ stream'[r] = "ended" => r \notin crashed'
        /\ Route(r)' = Route(r)
    BY <1>1, <1>2 DEF Route
  <2>2. r \notin crashed /\ Unrecorded(r) => Unrecorded(r)'
    BY <1>1, <1>2 DEF Unrecorded
  <2>3. Route(r) = "login" =>
            \/ Len(EventsOf(r, "auth")') = 1
            \/ Len(EventsOf(r, "auth")') = 0 /\ Unrecorded(r)'
            \/ Len(EventsOf(r, "auth")') = 2 /\ r \in crashed'
    <3>1. Route(r) = "login" =>
              \/ Len(EventsOf(r, "auth")) = 1
              \/ Len(EventsOf(r, "auth")) = 0 /\ (r \in crashed \/ Unrecorded(r))
      <4>1. Told(r) /\ layer[r] = "out"  BY <1>1 DEF Own
      <4> QED  BY <4>1 DEF Told
    <3>2. r \in crashed' <=> r \in crashed  BY <1>1
    <3>3. Route(r) = "login" => Len(EventsOf(r, "auth")')
                                = Len(EventsOf(r, "auth")) + (IF r \in crashed THEN 1 ELSE 0)
      BY <1>6
    <3> DEFINE before == Len(EventsOf(r, "auth"))
               after == Len(EventsOf(r, "auth")')
    <3> HIDE DEF before, after
    <3>4. Route(r) = "login" => before = 1 \/ (before = 0 /\ (r \in crashed \/ Unrecorded(r)))
      BY <3>1 DEF before
    <3>5. Route(r) = "login" => after = before + (IF r \in crashed THEN 1 ELSE 0)
      BY <3>3 DEF before, after
    <3>6. Route(r) = "login" => after = 1 \/ (after = 0 /\ Unrecorded(r)') \/ (after = 2 /\ r \in crashed')
      BY <2>2, <3>2, <3>4, <3>5
    <3> QED  BY <3>6 DEF after
  <2>4. ASSUME NEW n \in 1 .. Len(EventsOf(r, "action")')
        PROVE  /\ r \in did' => EventsOf(r, "action")'[n].who = "user" \/ Route(r) = "logout"
               /\ verdict'[r] = "denied" => EventsOf(r, "action")'[n].outcome = "denied"
               /\ EventsOf(r, "action")'[n].outcome = "ok" /\ r \notin did' => SentAway(r)'
    <3>a. Len(EventsOf(r, "action")') = IF Route(r) \in Unsafe \ {"login"} THEN 1 ELSE 0  BY <1>6
    <3> DEFINE many == Len(EventsOf(r, "action")')
    <3>b. n \in 1 .. many  BY <2>4
    <3> HIDE DEF many
    <3>c. many = IF Route(r) \in Unsafe \ {"login"} THEN 1 ELSE 0  BY <3>a DEF many
    <3>1. Route(r) \in Unsafe \ {"login"} /\ n = 1  BY <3>b, <3>c
    <3>2. EventsOf(r, "action")'[n] = [kind |-> "action", outcome |-> filed, who |-> who[r]]
      BY <1>6, <3>1
    <3>3. r \in did => who[r] = "user" \/ Route(r) = "logout"
      BY <3>1 DEF Own, Gated, Behind, Public, Unsafe
    <3>4. filed = "ok" /\ r \notin did => SentAway(r)'
      <4>1. filed = "ok" => verdict[r] = "none" /\ wire[r] = seen /\ seen \in 1 .. 399
        <5>1. seen \in Nat /\ seen # 0 /\ (seen < 400 => wire[r] = seen)  BY <1>1, <1>2
        <5>2. filed = "ok" => verdict[r] = "none" /\ seen < 400  BY <1>4
        <5> DEFINE status == seen
        <5>3. status \in Nat /\ status # 0 /\ (status < 400 => wire[r] = status)  BY <5>1
        <5>4. filed = "ok" => verdict[r] = "none" /\ status < 400  BY <5>2
        <5> HIDE DEF status
        <5>5. status < 400 => status \in 1 .. 399  BY <5>3
        <5>6. filed = "ok" => verdict[r] = "none" /\ wire[r] = status /\ status \in 1 .. 399
          BY <5>3, <5>4, <5>5
        <5> QED  BY <5>6 DEF status
      <4>2. /\ Route(r) \in Unsafe \ {"login"} /\ r \notin did
               /\ verdict[r] = "none" /\ wire[r] \in 1 .. 399
            => SentAway(r)
        <5> HIDE DEF Route, Unsafe, EventsOf
        <5>1. layer[r] = "out" /\ Told(r)  BY <1>1 DEF Own
        <5> QED  BY <5>1 DEF Told
      <4>3. wire[r] = seen /\ SentAway(r) => SentAway(r)'  BY <1>1 DEF SentAway
      <4> HIDE DEF Route, Unsafe
      <4> QED  BY <3>1, <4>1, <4>2, <4>3
    <3> QED  BY <1>1, <1>4, <3>2, <3>3, <3>4
  <2> QED  BY <1>1, <1>6, <2>1, <2>3, <2>4 DEF Settled
<1> QED  BY <1>7, <1>8, <1>9, <1>10, <1>11 DEF Own

\* Any step of a request keeps what holds of it.
LEMMA OneStep ==
    ASSUME RequestTypes, NEW r \in Requests, Own(r), Steps(r)
    PROVE  Framed(r) /\ Own(r)'
  BY EnterStep, SessionStep, AdmissionStep, CSRFStep, SSOGateStep, AuthGateStep, RestrictStep, PrepareStep, WorkStep,
     StreamStep, LoginStep, LoginRecordedStep, LoginAnsweredStep, LogoutStep, ServeStep, PanicStep, LeaveStep
     DEF Steps

\* What is counted of the requests is finite.
LEMMA Countable ==
    /\ \A s : IsFiniteSet(Holders(s)) /\ Cardinality(Holders(s)) \in Nat
    /\ LET flying == {r \in Requests : InFlight(r)} IN IsFiniteSet(flying) /\ Cardinality(flying) \in Nat
<1>1. \A T : T \subseteq Requests => IsFiniteSet(T) /\ Cardinality(T) \in Nat
  BY ChainAssumption, FS_Subset, FS_CardinalityType
<1> QED  BY <1>1 DEF Holders

\* A semaphore no slot of which changes hands.
LEMMA SlotsKept ==
    ASSUME NEW r \in Requests, NEW s \in {"import", "dbop"}, Slots(s), Kept(owed, owed', r),
           s \in owed'[r] <=> s \in owed[r], inUse'[s] = inUse[s]
    PROVE  Slots(s)'
<1>1. Holders(s)' = Holders(s)  BY DEF Holders, Kept
<1> QED  BY <1>1 DEF Slots

\* TryAcquire takes one slot, for a request that had none of that semaphore.
LEMMA SlotTaken ==
    ASSUME ChainTypes, NEW r \in Requests, NEW s \in {"import", "dbop"}, Acquire(r, s), s \notin owed[r],
           \A t \in {"import", "dbop"} : Slots(t)
    PROVE  inUse' \in [{"import", "dbop"} -> Nat] /\ \A t \in {"import", "dbop"} : Slots(t)'
<1>1. CASE UNCHANGED <<inUse, owed>>
  <2>1. Kept(owed, owed', r)  BY <1>1 DEF Kept
  <2>2. \A t \in {"import", "dbop"} : Slots(t)'  BY <1>1, <2>1, SlotsKept
  <2> QED  BY <1>1, <2>2 DEF ChainTypes
<1>2. CASE /\ inUse[s] < SlotCap[s] /\ inUse' = [inUse EXCEPT ![s] = @ + 1]
           /\ owed' = [owed EXCEPT ![r] = @ \cup {s}]
  <2>1. /\ inUse' \in [{"import", "dbop"} -> Nat] /\ inUse'[s] = inUse[s] + 1 /\ inUse[s] < SlotCap[s]
        /\ inUse[s] \in Nat /\ SlotCap[s] \in Nat
        /\ \A t \in {"import", "dbop"} \ {s} : inUse'[t] = inUse[t]
    BY <1>2, ChainAssumption DEF ChainTypes
  <2>2. owed'[r] = owed[r] \cup {s} /\ Kept(owed, owed', r)
    BY <1>2 DEF ChainTypes, RequestTypes, Kept
  <2>3. ASSUME NEW t \in {"import", "dbop"}, t # s PROVE Slots(t)'
    BY <2>1, <2>2, <2>3, SlotsKept
  <2>4. Slots(s)'
    <3>1. Holders(s)' = Holders(s) \cup {r} /\ r \notin Holders(s)  BY <2>2 DEF Holders, Kept
    <3>2. Cardinality(Holders(s) \cup {r}) = Cardinality(Holders(s)) + 1
      BY <3>1, Countable, FS_AddElement
    <3> QED  BY <2>1, <3>1, <3>2 DEF Slots
  <2> QED  BY <2>1, <2>3, <2>4
<1> QED  BY <1>1, <1>2 DEF Acquire

\* Between the first layer and the last the gauge stands still (metrics.enter).
LEMMA GaugeKept ==
    ASSUME NEW r \in Requests, Gauged, Kept(layer, layer', r), UNCHANGED <<req, gauge>>,
           layer[r] \notin {"new", "done"}, layer'[r] \notin {"new", "done"}
    PROVE  Gauged'
<1>1. {q \in Requests : InFlight(q)}' = {q \in Requests : InFlight(q)}
  BY DEF InFlight, Kept, Route
<1> QED  BY <1>1 DEF Gauged

\* A scrape is not counted; any other request is, from the first layer to the
\* last (metrics.enter, leave).
LEMMA GaugeMoves ==
    ASSUME ChainTypes, NEW r \in Requests, Gauged, Kept(layer, layer', r), UNCHANGED req,
           \/ /\ layer[r] = "new" /\ layer'[r] = "session"
              /\ gauge' = gauge + (IF Route(r) = "metrics" THEN 0 ELSE 1)
           \/ /\ layer[r] = "out" /\ layer'[r] = "done"
              /\ gauge' = gauge - (IF Route(r) = "metrics" THEN 0 ELSE 1)
    PROVE  Gauged' /\ gauge' \in Nat
<1> DEFINE flying == {q \in Requests : InFlight(q)}
           then == {q \in Requests : InFlight(q)}'
<1>1. IsFiniteSet(flying) /\ Cardinality(flying) \in Nat  BY Countable
<1>2. \A q \in Requests \ {r} : q \in then <=> q \in flying  BY DEF InFlight, Kept, Route
<1>3. CASE Route(r) = "metrics"
  <2>1. then = flying  BY <1>2, <1>3 DEF InFlight, Route
  <2>2. gauge' = gauge  BY <1>3 DEF ChainTypes
  <2> QED  BY <1>1, <2>1, <2>2 DEF Gauged
<1>4. CASE /\ Route(r) # "metrics" /\ layer[r] = "new" /\ layer'[r] = "session" /\ gauge' = gauge + 1
  <2>1. r \notin flying /\ r \in then  BY <1>4 DEF InFlight, Route
  <2>2. then = flying \cup {r}  BY <1>2, <2>1
  <2> HIDE DEF flying, then
  <2>3. Cardinality(then) = Cardinality(flying) + 1  BY <1>1, <2>1, <2>2, FS_AddElement
  <2>4. gauge = Cardinality(flying)  BY DEF Gauged, flying
  <2>5. gauge' = Cardinality(then) /\ gauge' \in Nat  BY <1>1, <1>4, <2>3, <2>4
  <2> QED  BY <2>5 DEF Gauged, then
<1>5. CASE /\ Route(r) # "metrics" /\ layer[r] = "out" /\ layer'[r] = "done" /\ gauge' = gauge - 1
  <2>1. r \in flying /\ r \notin then  BY <1>5 DEF InFlight, Route
  <2>2. then = flying \ {r}  BY <1>2, <2>1
  <2> HIDE DEF flying, then
  <2>3. Cardinality(then) = Cardinality(flying) - 1 /\ Cardinality(then) \in Nat
    BY <1>1, <2>1, <2>2, FS_RemoveElement, FS_CardinalityType
  <2>4. gauge = Cardinality(flying)  BY DEF Gauged, flying
  <2>5. gauge' = Cardinality(then) /\ gauge' \in Nat  BY <1>1, <1>5, <2>3, <2>4
  <2> QED  BY <2>5 DEF Gauged, then
<1> QED  BY <1>3, <1>4, <1>5

\* The deferred releases give back what the request owes, and nothing else.
LEMMA SlotsBack ==
    ASSUME ChainTypes, NEW r \in Requests, Leave(r), \A t \in {"import", "dbop"} : Slots(t)
    PROVE  inUse' \in [{"import", "dbop"} -> Nat] /\ \A t \in {"import", "dbop"} : Slots(t)'
<1>1. owed' = [owed EXCEPT ![r] = {}]  BY DEF Leave
<1>2. owed'[r] = {} /\ Kept(owed, owed', r) /\ owed \in [Requests -> SUBSET {"import", "dbop"}]
  BY <1>1 DEF ChainTypes, RequestTypes, Kept
<1>3. inUse' = [s \in {"import", "dbop"} |-> inUse[s] - (IF s \in owed[r] THEN 1 ELSE 0)]
  BY DEF Leave, GivenBack, ChainTypes
<1>4. ASSUME NEW s \in {"import", "dbop"} PROVE inUse'[s] \in Nat /\ Slots(s)'
  <2>1. inUse[s] \in Nat /\ SlotCap[s] \in Nat  BY ChainAssumption DEF ChainTypes
  <2>2. CASE s \notin owed[r]
    <3>1. inUse'[s] = inUse[s]  BY <1>3, <2>1, <2>2
    <3> QED  BY <1>2, <2>1, <2>2, <3>1, SlotsKept
  <2>3. CASE s \in owed[r]
    <3>1. Holders(s)' = Holders(s) \ {r} /\ r \in Holders(s)  BY <1>2, <2>3 DEF Holders, Kept
    <3>2. Cardinality(Holders(s) \ {r}) = Cardinality(Holders(s)) - 1 /\ Cardinality(Holders(s) \ {r}) \in Nat
      BY <3>1, Countable, FS_RemoveElement, FS_CardinalityType
    <3>3. inUse'[s] = inUse[s] - 1  BY <1>3, <2>3
    <3> QED  BY <2>1, <3>1, <3>2, <3>3 DEF Slots
  <2> QED  BY <2>2, <2>3
<1> QED  BY <1>3, <1>4

\* Slots and gauge stay the number of requests that hold and count for them.
LEMMA SharedStep ==
    ASSUME ChainInv, NEW r \in Requests, Steps(r)
    PROVE  inUse' \in [{"import", "dbop"} -> Nat] /\ gauge' \in Nat /\ Shared'
<1>1. ChainTypes /\ RequestTypes /\ Own(r) /\ Gauged /\ \A s \in {"import", "dbop"} : Slots(s)
  BY DEF ChainInv, ChainTypes, Shared
<1>2. Framed(r) /\ Own(r)' /\ Kept(layer, layer', r) /\ UNCHANGED req /\ Kept(owed, owed', r)
  BY <1>1, OneStep DEF Framed
<1>3. CASE Enter(r)
  <2>1. UNCHANGED <<owed, inUse>> /\ layer[r] = "new" /\ layer'[r] = "session"
        /\ gauge' = gauge + (IF Route(r) = "metrics" THEN 0 ELSE 1)
    BY <1>1, <1>3 DEF Enter, Pass, RequestTypes
  <2>2. \A s \in {"import", "dbop"} : Slots(s)'  BY <1>1, <1>2, <2>1, SlotsKept
  <2> QED  BY <1>1, <1>2, <2>1, <2>2, GaugeMoves DEF Shared, ChainTypes
<1>4. CASE Leave(r)
  <2>1. layer[r] = "out" /\ layer'[r] = "done" /\ gauge' = gauge - (IF Route(r) = "metrics" THEN 0 ELSE 1)
    BY <1>1, <1>4 DEF Leave, Pass, RequestTypes
  <2> QED  BY <1>1, <1>2, <1>4, <2>1, GaugeMoves, SlotsBack DEF Shared
<1>5. CASE Admission(r) \/ Prepare(r)
  <2>1. /\ UNCHANGED gauge /\ layer[r] \in {"admission", "handler"}
        /\ layer'[r] \in {"csrf", "work", "out"}
    BY <1>1, <1>5 DEF Admission, Prepare, outer, Pass, Reply, RefuseCapacity, RenderError, RequestTypes
  <2>2. Gauged'  BY <1>1, <1>2, <2>1, GaugeKept
  <2>3. \/ UNCHANGED <<owed, inUse>>
        \/ Admission(r) /\ Acquire(r, "import")
        \/ Prepare(r) /\ Acquire(r, "dbop")
    BY <1>5 DEF Admission, Prepare
  <2>4. CASE UNCHANGED <<owed, inUse>>
    <3>1. \A s \in {"import", "dbop"} : Slots(s)'  BY <1>1, <1>2, <2>4, SlotsKept
    <3> QED  BY <1>1, <2>1, <2>2, <2>4, <3>1 DEF Shared, ChainTypes
  <2>5. CASE Admission(r) /\ Acquire(r, "import")
    <3>1. "import" \notin owed[r]  BY <1>1, <2>5 DEF Admission, Own, Held
    <3> QED  BY <1>1, <2>1, <2>2, <2>5, <3>1, SlotTaken DEF Shared, ChainTypes
  <2>6. CASE Prepare(r) /\ Acquire(r, "dbop")
    <3>1. "dbop" \notin owed[r]  BY <1>1, <2>6 DEF Prepare, Own, Held
    <3> QED  BY <1>1, <2>1, <2>2, <2>6, <3>1, SlotTaken DEF Shared, ChainTypes
  <2> QED  BY <2>3, <2>4, <2>5, <2>6
<1>6. CASE ~(Enter(r) \/ Leave(r) \/ Admission(r) \/ Prepare(r))
  <2>1. UNCHANGED <<owed, inUse, gauge>> /\ layer[r] \notin {"new", "done"}
    BY <1>6 DEF Steps, outer, Session, CSRF, SSOGate, AuthGate, RestrictGate, Work, StreamEnd, Login, LoginRecorded, LoginAnswered, Logout, Serve, Panic
  <2>2. layer'[r] \notin {"new", "done"}
    BY <1>1, <1>6 DEF Steps, RequestTypes, Pass, Reply, RefuseCapacity, RenderError, SendAway, RejectLogin,
                      Session, CSRF, SSOGate, AuthGate, RestrictGate, Work, StreamEnd, Login, LoginRecorded, LoginAnswered, Logout, Serve, Panic
  <2>3. \A s \in {"import", "dbop"} : Slots(s)'  BY <1>1, <1>2, <2>1, SlotsKept
  <2>4. Gauged'  BY <1>1, <1>2, <2>1, <2>2, GaugeKept
  <2> QED  BY <1>1, <2>1, <2>3, <2>4 DEF Shared, ChainTypes
<1> QED  BY <1>3, <1>4, <1>5, <1>6

\* Every step keeps the invariant.
LEMMA ChainStep == ChainInv /\ [QNext]_qvars => ChainInv'
<1> SUFFICES ASSUME ChainInv, [QNext]_qvars PROVE ChainInv'  OBVIOUS
<1>1. ASSUME NEW r \in Requests, Steps(r) PROVE ChainInv'
  <2>1. Framed(r) /\ Own(r)'  BY <1>1, OneStep DEF ChainInv, ChainTypes
  <2>2. \A q \in Requests : Own(q)'  BY <2>1, OthersStill, StillOwn DEF ChainInv
  <2> QED  BY <1>1, <2>1, <2>2, SharedStep DEF ChainInv, ChainTypes, Framed
<1>2. CASE UNCHANGED qvars
  <2>1. UNCHANGED <<req, site, layer, obj, live, wire, verdict, who, owed, inUse, gauge,
                    counted, stream, crashed, parsed, did, answeredBy, trail>>
    BY <1>2 DEF qvars
  <2>2. \A q \in Requests : Still(q)  BY <2>1 DEF Still
  <2>3. \A q \in Requests : Own(q)'  BY <2>2, StillOwn DEF ChainInv
  <2>4. ChainTypes'  BY <2>1 DEF ChainInv, ChainTypes, RequestTypes
  <2>5. Shared'
    <3>1. (\A s : Holders(s)' = Holders(s)) /\ {r \in Requests : InFlight(r)}' = {r \in Requests : InFlight(r)}
      BY <2>1 DEF Holders, InFlight, Route
    <3> QED  BY <2>1, <3>1 DEF ChainInv, Shared, Slots, Gauged
  <2> QED  BY <2>3, <2>4, <2>5 DEF ChainInv
<1> QED  BY <1>1, <1>2 DEF QNext, Steps

\* No request has entered yet.
LEMMA ChainInit == QInit(AnySite, [Requests -> AnyDemand]) => ChainInv
<1> SUFFICES ASSUME QInit(AnySite, [Requests -> AnyDemand]) PROVE ChainInv  OBVIOUS
<1> USE DEF QInit
<1>1. <<>> \in Seq(TrailEvents(Kinds)) /\ Len(<<>>) = 0  OBVIOUS
<1>2. /\ layer \in [Requests -> Layers] /\ req \in [Requests -> AnyDemand]
      /\ \A r \in Requests : layer[r] \in {"new", "done"} /\ (layer[r] = "done" => Route(r) = "none")
  BY DEF Layers, Route
<1>3. ChainTypes
  BY <1>1, <1>2, ChainAssumption DEF ChainTypes, RequestTypes
<1>4. ASSUME NEW r \in Requests PROVE Own(r)
  <2>1. EventsOf(r, "action") = <<>> /\ EventsOf(r, "auth") = <<>>  BY OmitEmpty DEF EventsOf
  <2>2. Gated(r)  BY <1>2 DEF Gated, Behind, PastToken, PastProvider, PastAuth, Handling
  <2>3. Held(r)  BY <1>2 DEF Held
  <2>4. Told(r)  BY <1>2, <2>1 DEF Told
  <2>5. Settled(r)  BY <1>2 DEF Settled, Done
  <2> QED  BY <2>2, <2>3, <2>4, <2>5 DEF Own
<1>5. Shared
  <2>1. \A s \in {"import", "dbop"} : Holders(s) = {} /\ inUse[s] = 0 /\ SlotCap[s] \in Nat
    BY ChainAssumption DEF Holders
  <2>2. {r \in Requests : InFlight(r)} = {}  BY <1>2 DEF InFlight
  <2>3. ASSUME NEW s \in {"import", "dbop"} PROVE Slots(s)
    <3>1. Holders(s) = {} /\ inUse[s] = 0 /\ SlotCap[s] \in Nat  BY <2>1
    <3> QED  BY <3>1, FS_EmptySet DEF Slots
  <2>4. Gauged
    <3>1. gauge = 0  OBVIOUS
    <3> QED  BY <2>2, <3>1, FS_EmptySet DEF Gauged
  <2> QED  BY <2>3, <2>4 DEF Shared
<1> QED  BY <1>3, <1>4, <1>5 DEF ChainInv

\* The invariant says all of GatesHold and TrailIsComplete.
LEMMA ChainAccounts == ChainInv => RequestsAccounted
<1> SUFFICES ASSUME ChainInv PROVE GatesHold /\ TrailIsComplete  BY DEF RequestsAccounted
<1>1. ChainTypes /\ RequestTypes /\ Shared /\ \A r \in Requests : Own(r)  BY DEF ChainInv, ChainTypes
<1>2. ASSUME NEW r \in did
      PROVE  /\ Route(r) \in Unsafe => TokenMatches(r)
             /\ Route(r) \in Public \/ ~Forbidden(r)
             /\ Route(r) = "program" => "console" \notin site.refused
             /\ site.sso = "unverified" => Route(r) = "logout"
             /\ Route(r) \in Public \/ obj[r] = "live"
  <2>1. Gated(r)  BY <1>1 DEF RequestTypes, Own
  <2> QED  BY <2>1 DEF Gated, Behind
<1>4. ASSUME \A r \in Requests : layer[r] = "done" PROVE gauge = 0 /\ \A s \in DOMAIN inUse : inUse[s] = 0
  <2>1. {r \in Requests : InFlight(r)} = {}  BY <1>4 DEF InFlight
  <2>2. \A s \in {"import", "dbop"} : Holders(s) = {}  BY <1>1, <1>4 DEF Own, Held, Holders
  <2> QED  BY <1>1, <2>1, <2>2, FS_EmptySet DEF Shared, Slots, Gauged, ChainTypes
<1>5. \A r \in Done : Settled(r) /\ r \in Requests  BY <1>1 DEF Own, Done
<1>3. \/ Cardinality({r \in parsed : Route(r) = "import" /\ layer[r] # "done"}) <= SlotCap["import"]
      \/ Unlimited("import")
  <2> SUFFICES ASSUME ~Unlimited("import")
               PROVE  Cardinality({r \in parsed : Route(r) = "import" /\ layer[r] # "done"}) <= SlotCap["import"]
    OBVIOUS
  <2> DEFINE uploads == {r \in parsed : Route(r) = "import" /\ layer[r] # "done"}
  <2>1. uploads \subseteq Holders("import")  BY <1>1 DEF RequestTypes, Own, Held, Holders
  <2> HIDE DEF uploads
  <2>2. Cardinality(uploads) <= Cardinality(Holders("import")) /\ Cardinality(uploads) \in Nat
    BY <2>1, Countable, FS_Subset, FS_CardinalityType
  <2>3. Cardinality(Holders("import")) <= SlotCap["import"]  BY <1>1 DEF Shared, Slots
  <2>4. Cardinality(uploads) <= SlotCap["import"]  BY <2>2, <2>3, Countable, ChainAssumption
  <2> QED  BY <2>4 DEF uploads
<1>6. GatesHold
  BY <1>2, <1>3, <1>4, <1>5 DEF GatesHold, Settled
<1>7. TrailIsComplete
  BY <1>5 DEF TrailIsComplete, Settled
<1> QED  BY <1>6, <1>7

\* RequestsAccounted, for every number of requests, any requests they are and
\* any configuration: nothing gets past csrf, ssoGate, authGate, restrict and the
\* admission of imports, whatever other requests do to the session meanwhile;
\* slots, gauge and gzip stream are settled on every way out; and every unsafe
\* request leaves its record in the audit trail (chain, auditAction).
THEOREM ChainHolds == QSpec => []RequestsAccounted
  BY ChainInit, ChainStep, ChainAccounts, PTL DEF QSpec
=============================================================================
