-------------------------- MODULE RunLocks_proofs --------------------------
(***************************************************************************)
(* Proofs about RunLocks: types, that a body runs under its run's lock,    *)
(* that no lock is forgotten and that run-held locks serve the whole run.  *)
(*                                                                         *)
(* The argument goes in four layers.  What each step comes to: `Effect` is *)
(* the disjunction of what the steps do to the locks, the records and what *)
(* the processes have in hand, in terms of single locks (a lock stays,     *)
(* vanishes, is orphaned, revived or granted), so that the rest never      *)
(* looks at the steps themselves (StepsHaveEffects).  Who is where:        *)
(* TargetsInStep, ClaimsInStep and RunsInStep relate a target's place to   *)
(* its process, a claim in flight to its target, and a run's process and   *)
(* canceller to its status.  Whose token is whose: a lock whose token a    *)
(* run knows is that run's (Owned), nobody knows one token twice           *)
(* (Distinct), and what a resume took afresh has replaced what the record  *)
(* lists (Reclaimed, Superseded).  And what the properties say: whoever    *)
(* works by a token holds the lock or lost it to the TTL (Backed), the     *)
(* record and the holder agree (ListedAreHeld), somebody knows every lock  *)
(* (Known) and an ended run's locks have a keeper (Settled).               *)
(*                                                                         *)
(* None of the last two layers is inductive alone: a release would free a  *)
(* sibling's lock if two of them knew one token, and a resume would revive *)
(* somebody else's if a new token could be one that is still remembered.   *)
(* That there always is a token nobody remembers is a count (FreshIsNew).  *)
(***************************************************************************)
EXTENDS RunLocks, FiniteSetTheorems, TLAPS

(* The declarations are those the constants allow. *)
Keyed == decl \in [Target -> [key : Key, holdForRun : BOOLEAN, polls : Nat]]

(* A claim is in flight from the check to the answer. *)
Claiming == {"asking", "refused", "granted"}

(* A target in flight has a working process; it has a token from the grant *)
(* until its body is over; a covered body runs by what the run holds; a    *)
(* claim in flight is registered.                                          *)
TargetsInStep ==
  \A t \in Target :
    /\ (pc[t] \in InFlight => proc[RunOf[t]] = "working")
    /\ (token[t] # 0 => pc[t] \in {"granted", "body"})
    /\ (pc[t] = "granted" => token[t] # 0 /\ decl[t].holdForRun)
    /\ (pc[t] = "body" /\ token[t] # 0 => ~decl[t].holdForRun)
    /\ (pc[t] = "body" /\ token[t] = 0 => held[RunOf[t]][key(t)] # 0)
    /\ (pc[t] \in Claiming /\ decl[t].holdForRun => pending[RunOf[t]][key(t)] = t)

(* What is registered is a claim in flight, on a key the run does not hold. *)
ClaimsInStep ==
  \A r \in Run, k \in Key : pending[r][k] # None =>
    /\ pending[r][k] \in TargetsOf(r) /\ key(pending[r][k]) = k
    /\ pc[pending[r][k]] \in Claiming /\ decl[pending[r][k]].holdForRun
    /\ held[r][k] = 0

(* Only a process that works, parks or settles holds run-held locks, and    *)
(* only one that resumes re-claims them; which of them a status allows, and *)
(* where a canceller is.                                                    *)
RunsInStep ==
  \A r \in Run :
    /\ (proc[r] \notin {"working", "parking", "settling"} => \A k \in Key : held[r][k] = 0)
    /\ (proc[r] # "resuming" => \A k \in Key : claim[r].got[k] = 0)
    /\ (canc[r] # "no" => status[r] = "cancelling")
    /\ (canc[r] = "gone" => proc[r] \notin {"working", "settling"})
    /\ (canc[r] \in {"walking", "there"} => proc[r] \notin {"parking", "resuming"})
    /\ (status[r] = "running" => proc[r] \notin {"parking", "settling", "resuming"})
    /\ (status[r] = "suspended" => proc[r] \notin {"working", "settling"})
    /\ (status[r] = "ended" => \A k \in Key : listed[r][k] = 0)

(* The tokens a run knows for a key, wherever it keeps them. *)
Has(r, k, n) ==
  \/ n = listed[r][k] \/ n = held[r][k] \/ n = claim[r].got[k]
  \/ \E t \in TargetsOf(r) : key(t) = k /\ n = token[t]

(* A lock without a token is nobody's, and not alive. *)
FreeLocks ==
  \A k \in Key :
    /\ (locks[k].token = 0 <=> locks[k].run = None)
    /\ (locks[k].run = None => ~locks[k].live /\ locks[k].left = "no")

(* A lock whose token a run knows is that run's. *)
Owned ==
  \A r \in Run, k \in Key :
    locks[k].token # 0 /\ Has(r, k, locks[k].token) => locks[k].run = r

(* A token granted to a target is known by that target alone. *)
Distinct ==
  \A t \in Target : token[t] # 0 =>
    /\ token[t] # held[RunOf[t]][key(t)] /\ token[t] # listed[RunOf[t]][key(t)]
    /\ \A u \in TargetsOf(RunOf[t]) : key(u) = key(t) /\ token[u] = token[t] => u = t

(* A resume has for each key what the record lists or, where that was lost, *)
(* what it took afresh.                                                     *)
Reclaimed ==
  \A r \in Run, k \in Key : proc[r] = "resuming" =>
    /\ (k \in claim[r].retaken =>
          k \notin claim[r].todo /\ claim[r].got[k] # 0)
    /\ (k \notin claim[r].retaken /\ status[r] # "ended" => claim[r].got[k] = listed[r][k])
    /\ (claim[r].got[k] = 0 => listed[r][k] = 0)

(* What a resume took afresh has replaced what the record lists. *)
Superseded ==
  \A r \in Run, k \in Key :
    proc[r] = "resuming" /\ k \in claim[r].retaken /\ listed[r][k] # 0
      => locks[k].token # listed[r][k]

(* A run's token is good: the store has its lock, or that lock lapsed under *)
(* a live process.                                                          *)
Backs(k, n, r) ==
  (locks[k].token = n /\ locks[k].live /\ locks[k].run = r) \/ <<k, n>> \in lapsed

(* A token that work rests on: a target's, a working run's, a resume's. *)
Needs(r, k, n) ==
  \/ \E t \in TargetsOf(r) : key(t) = k /\ n = token[t]
  \/ proc[r] = "working" /\ n = held[r][k]
  \/ proc[r] = "resuming" /\ status[r] = "suspended" /\ k \notin claim[r].todo
       /\ n = claim[r].got[k]

(* Whatever work rests on is good. *)
Backed ==
  \A r \in Run, k \in Key, n \in Tokens : Needs(r, k, n) => Backs(k, n, r)

(* While a process works on a run, the record and the holder of its locks *)
(* agree.                                                                 *)
ListedAreHeld ==
  \A r \in Run, k \in Key :
    /\ (proc[r] \in {"working", "parking", "settling"}
          /\ listed[r][k] # 0 /\ locks[k].token = listed[r][k] => held[r][k] = listed[r][k])
    /\ (proc[r] \in {"working", "parking"} /\ status[r] # "ended" /\ held[r][k] # 0
          => listed[r][k] = held[r][k])

(* The process of a run has a token in hand. *)
Hand(r, k, n) ==
  /\ proc[r] \in Alive
  /\ \/ n = held[r][k] \/ n = claim[r].got[k]
     \/ \E t \in TargetsOf(r) : key(t) = k /\ n = token[t]

(* The record or the process knows a token. *)
Knows(r, k, n) == n = listed[r][k] \/ Hand(r, k, n)

(* Every lock that was not entrusted or orphaned is known to its run. *)
Known ==
  \A r \in Run, k \in Key :
    locks[k].run = r /\ locks[k].left = "no" => Knows(r, k, locks[k].token)

(* Somebody who will still give a lock of an ended run back. *)
Keeper(r, k, n) ==
  \/ proc[r] \in {"working", "settling"} /\ n = held[r][k]
  \/ \E t \in TargetsOf(r) : key(t) = k /\ n = token[t]
  \/ proc[r] = "resuming" /\ k \in claim[r].retaken /\ n = claim[r].got[k]

(* Only ended runs have entrusted locks, and every lock of theirs has a *)
(* keeper.                                                              *)
Settled ==
  \A r \in Run, k \in Key :
    /\ (locks[k].run = r /\ locks[k].left = "entrusted" => status[r] = "ended")
    /\ (status[r] = "ended" /\ locks[k].run = r /\ locks[k].left # "orphan" =>
          Keeper(r, k, locks[k].token))

(* The bound on troubles also bounds how many tokens can have lapsed. *)
Counted ==
  /\ troubles \in 0..MaxTroubles
  /\ IsFiniteSet(lapsed) /\ Cardinality(lapsed) <= troubles

-----------------------------------------------------------------------------
(* A token for a new grant is one that nobody remembers: there are more     *)
(* tokens than anybody can remember at a time.                              *)

(* A token that is new for a key. *)
New(k, n) ==
  /\ n \in Tokens /\ n # locks[k].token /\ <<k, n>> \notin lapsed
  /\ \A r \in Run : ~Has(r, k, n)

(* A target asks for a key, for its run. *)
LEMMA KeyOf == ASSUME Keyed, NEW t \in Target PROVE key(t) \in Key /\ RunOf[t] \in Run
  BY RunOfAssumption DEF Keyed, key

(* Zero is no token. *)
LEMMA TokensAre == Tokens \subseteq Nat \ {0}
  BY DEF Tokens

(* What a function takes the elements of a finite set to is no more than    *)
(* the set.                                                                 *)
LEMMA ImageIsSmall ==
  ASSUME NEW S, IsFiniteSet(S), NEW f, NEW T, T = {f[x] : x \in S}
  PROVE  IsFiniteSet(T) /\ Cardinality(T) <= Cardinality(S) /\ Cardinality(T) \in Nat
<1> DEFINE g == [x \in S |-> f[x]]
<1>1. g \in Surjection(S, T)
  BY DEF Surjection
<1>2. IsFiniteSet(T) /\ Cardinality(T) <= Cardinality(S)
  BY <1>1, FS_Surjection
<1> QED
  BY <1>2, FS_CardinalityType

(* A union is no larger than its parts together. *)
LEMMA UnionIsSmall ==
  ASSUME NEW S, NEW T, IsFiniteSet(S), IsFiniteSet(T),
         NEW m \in Nat, NEW n \in Nat, Cardinality(S) <= m, Cardinality(T) <= n
  PROVE  IsFiniteSet(S \cup T) /\ Cardinality(S \cup T) <= m + n
<1>1. /\ IsFiniteSet(S \cup T)
      /\ Cardinality(S \cup T) = Cardinality(S) + Cardinality(T) - Cardinality(S \cap T)
  BY FS_Union
<1>2. IsFiniteSet(S \cap T)
  BY FS_Intersection
<1>3. Cardinality(S) \in Nat /\ Cardinality(T) \in Nat /\ Cardinality(S \cap T) \in Nat
  BY <1>2, FS_CardinalityType
<1> QED
  BY <1>1, <1>3

(* Fewer tokens are remembered at a time than there are: the store, each run *)
(* in three places, each target and the lapsed ones have one each.           *)
LEMMA KnownIsSmall ==
  ASSUME Typed, Keyed, Counted, NEW k \in Key
  PROVE  /\ IsFiniteSet(known(k))
         /\ Cardinality(known(k)) <= Cardinality(Target) + 3 * Cardinality(Run) + MaxTroubles + 1
<1> DEFINE R == Cardinality(Run)
           T == Cardinality(Target)
           A == {locks[k].token}
           L == {listed[r][k] : r \in Run}
           H == {held[r][k] : r \in Run}
           C == {claim[r].got[k] : r \in Run}
           U == {u \in Target : key(u) = k}
           W == {token[t] : t \in U}
           Z == {n \in Tokens : <<k, n>> \in lapsed}
<1>1. R \in Nat /\ T \in Nat /\ MaxTroubles \in Nat
  BY FinitenessAssumption, BoundsAssumption, FS_CardinalityType
<1>2. IsFiniteSet(A) /\ Cardinality(A) <= 1
  <2>1. IsFiniteSet(A) /\ Cardinality(A) = 1
    BY FS_Singleton
  <2> QED
    BY <2>1
<1>3. IsFiniteSet(L) /\ Cardinality(L) <= R
  <2> DEFINE f == [r \in Run |-> listed[r][k]]
  <2>1. L = {f[r] : r \in Run}
    OBVIOUS
  <2> HIDE DEF f, L, H, C
  <2> QED
    BY <2>1, ImageIsSmall, FinitenessAssumption DEF R
<1>4. IsFiniteSet(H) /\ Cardinality(H) <= R
  <2> DEFINE f == [r \in Run |-> held[r][k]]
  <2>1. H = {f[r] : r \in Run}
    OBVIOUS
  <2> HIDE DEF f, L, H, C
  <2> QED
    BY <2>1, ImageIsSmall, FinitenessAssumption DEF R
<1>5. IsFiniteSet(C) /\ Cardinality(C) <= R
  <2> DEFINE f == [r \in Run |-> claim[r].got[k]]
  <2>1. C = {f[r] : r \in Run}
    OBVIOUS
  <2> HIDE DEF f, L, H, C
  <2> QED
    BY <2>1, ImageIsSmall, FinitenessAssumption DEF R
<1>6. IsFiniteSet(W) /\ Cardinality(W) <= T
  <2>1. IsFiniteSet(U) /\ Cardinality(U) <= T
    BY FinitenessAssumption, FS_Subset
  <2>2. IsFiniteSet(W) /\ Cardinality(W) <= Cardinality(U) /\ Cardinality(W) \in Nat
    BY <2>1, ImageIsSmall
  <2> QED
    BY <1>1, <2>1, <2>2, FS_CardinalityType
<1>7. IsFiniteSet(Z) /\ Cardinality(Z) <= MaxTroubles
  <2> DEFINE f == [n \in Z |-> <<k, n>>]
  <2>1. f \in Injection(Z, lapsed)
    BY DEF Injection, IsInjective
  <2>2. IsFiniteSet(lapsed) /\ Cardinality(lapsed) <= MaxTroubles
    BY <1>1, FS_CardinalityType DEF Counted
  <2>3. IsFiniteSet(Z) /\ Cardinality(Z) <= Cardinality(lapsed)
    BY <2>1, <2>2, FS_Injection
  <2> QED
    BY <1>1, <2>2, <2>3, FS_CardinalityType
<1>8. known(k) = ((((A \cup L) \cup H) \cup C) \cup W) \cup Z
  BY DEF known
<1> HIDE DEF R, T, A, L, H, C, U, W, Z
<1> DEFINE M == 1 + R
           N == M + R
           O == N + R
           P == O + T
<1>0. M \in Nat /\ N \in Nat /\ O \in Nat /\ P \in Nat
  BY <1>1
<1>9. IsFiniteSet(A \cup L) /\ Cardinality(A \cup L) <= M
  BY <1>1, <1>2, <1>3, UnionIsSmall
<1> HIDE DEF M, N, O, P
<1>10. IsFiniteSet((A \cup L) \cup H) /\ Cardinality((A \cup L) \cup H) <= N
  BY <1>0, <1>1, <1>4, <1>9, UnionIsSmall DEF N
<1>11. /\ IsFiniteSet(((A \cup L) \cup H) \cup C)
       /\ Cardinality(((A \cup L) \cup H) \cup C) <= O
  BY <1>0, <1>1, <1>5, <1>10, UnionIsSmall DEF O
<1>12. /\ IsFiniteSet((((A \cup L) \cup H) \cup C) \cup W)
       /\ Cardinality((((A \cup L) \cup H) \cup C) \cup W) <= P
  BY <1>0, <1>1, <1>6, <1>11, UnionIsSmall DEF P
<1>13. /\ IsFiniteSet(known(k))
       /\ Cardinality(known(k)) <= P + MaxTroubles
  BY <1>0, <1>1, <1>7, <1>8, <1>12, UnionIsSmall
<1>14. Cardinality(known(k)) \in Nat
  BY <1>13, FS_CardinalityType
<1> QED
  BY <1>1, <1>13, <1>14 DEF M, N, O, P, R, T

(* A token for a new grant is one that nobody knows. *)
LEMMA FreshIsNew == ASSUME Typed, Keyed, Counted, NEW k \in Key PROVE New(k, Fresh(k))
<1> DEFINE B == Cardinality(Target) + 3 * Cardinality(Run) + MaxTroubles
<1>1. B \in Nat
  BY FinitenessAssumption, BoundsAssumption, FS_CardinalityType
<1>2. IsFiniteSet(Tokens) /\ Cardinality(Tokens) = B + 2
  BY <1>1, FS_Interval DEF Tokens
<1>3. IsFiniteSet(known(k)) /\ Cardinality(known(k)) <= B + 1 /\ Cardinality(known(k)) \in Nat
  BY KnownIsSmall, FS_CardinalityType
<1> HIDE DEF B
<1>4. \E n \in Tokens : n \notin known(k)
  <2>1. CASE Tokens \subseteq known(k)
    <3>1. Cardinality(Tokens) <= Cardinality(known(k))
      BY <1>3, <2>1, FS_Subset
    <3> QED
      BY <1>1, <1>2, <1>3, <3>1
  <2> QED
    BY <2>1
<1>5. Fresh(k) \in Tokens /\ Fresh(k) \notin known(k)
  BY <1>4 DEF Fresh
<1> QED
  BY <1>5 DEF known, New, Has, TargetsOf

-----------------------------------------------------------------------------
(* What a step does to one lock. *)
Stays(k) == locks'[k] = locks[k]

Vanishes(k) ==
  locks'[k].token = 0 /\ locks'[k].run = None /\ ~locks'[k].live /\ locks'[k].left = "no"

Keeps(k) == locks'[k].token = locks[k].token /\ locks'[k].run = locks[k].run

Orphans(k) == Keeps(k) /\ (locks'[k].live <=> locks[k].live) /\ locks'[k].left = "orphan"

Revives(k) == Keeps(k) /\ locks'[k].live /\ locks'[k].left = locks[k].left

Fades(k) == Keeps(k) /\ ~locks'[k].live /\ locks'[k].left = locks[k].left

GoesTo(k, n, r) ==
  locks'[k].token = n /\ locks'[k].run = r /\ locks'[k].live /\ locks'[k].left = "no"

Gone(k, n) == n # 0 /\ locks[k].token = n

(* A released lock is gone, if it was there under that token. *)
LEMMA ReleasedIs == ASSUME NEW k, NEW n, locks'[k] = Released(locks[k], n)
                    PROVE IF Gone(k, n) THEN Vanishes(k) ELSE Stays(k)
  BY DEF Released, Gone, Vanishes, Stays, Free

(* A release that fails leaves the lock to its TTL. *)
LEMMA AbandonedIs == ASSUME Typed, NEW k \in Key, NEW n, locks'[k] = Abandoned(locks[k], n)
                    PROVE IF Gone(k, n) THEN Orphans(k) ELSE Stays(k)
  BY DEF Abandoned, Gone, Orphans, Stays, Keeps, Typed, Lock

(* Giving tokens back removes their locks, but for one that a fault leaves *)
(* behind; no other lock is touched.                                       *)
LEMMA GiveBackGives ==
  ASSUME Typed, NEW gone, GiveBack(gone), NEW k \in Key
  PROVE  IF Gone(k, gone[k]) THEN Vanishes(k) \/ Orphans(k) ELSE Stays(k)
<1>1. CASE locks' = [kk \in Key |-> Released(locks[kk], gone[kk])]
  <2>1. locks'[k] = Released(locks[k], gone[k])
    BY <1>1
  <2> QED
    BY <2>1, ReleasedIs
<1>2. ASSUME NEW bad, locks' = [kk \in Key |-> IF kk = bad THEN Abandoned(locks[kk], gone[kk])
                                               ELSE Released(locks[kk], gone[kk])]
      PROVE  IF Gone(k, gone[k]) THEN Vanishes(k) \/ Orphans(k) ELSE Stays(k)
  <2>1. CASE k = bad
    <3>1. locks'[k] = Abandoned(locks[k], gone[k])
      BY <1>2, <2>1
    <3> QED
      BY <3>1, AbandonedIs
  <2>2. CASE k # bad
    <3>1. locks'[k] = Released(locks[k], gone[k])
      BY <1>2, <2>2
    <3> QED
      BY <3>1, ReleasedIs
  <2> QED
    BY <2>1, <2>2
<1> QED
  BY <1>1, <1>2 DEF GiveBack

(* A granted lock is live, under the new token. *)
LEMMA GrantedIs == ASSUME NEW k, NEW n, NEW r, locks'[k] = Granted(r, k, n) PROVE GoesTo(k, n, r)
  BY DEF Granted, GoesTo

(* A renewal revives a lock and changes nothing else. *)
LEMMA RenewedIs == ASSUME Typed, NEW k \in Key, locks'[k] = Renewed(locks[k]) PROVE Revives(k)
  BY DEF Renewed, Revives, Keeps, Typed, Lock

(* The table with one token. *)
LEMMA OnlyIs == ASSUME NEW k \in Key, NEW n, NEW kk \in Key
                PROVE  Only(k, n)[kk] = IF kk = k THEN n ELSE 0
  BY DEF Only, NoTokens

(* The table of what a resume took afresh. *)
LEMMA RetakenIs == ASSUME NEW r, NEW kk \in Key
                   PROVE  Retaken(r)[kk] = IF kk \in claim[r].retaken THEN claim[r].got[kk] ELSE 0
  BY DEF Retaken

(* The store's locks after each step that touches them. *)
LEMMA TryLocks ==
  ASSUME Typed, Keyed, NEW t \in Target, Try(t)
  PROVE  /\ \A k \in Key \ {key(t)} : Stays(k)
         /\ (Takeable(key(t)) => GoesTo(key(t), Fresh(key(t)), RunOf[t]))
         /\ (~Takeable(key(t)) => Stays(key(t)))
<1>1. key(t) \in Key
  BY DEF Keyed, key
<1>2. CASE Takeable(key(t))
  <2>1. locks' = [locks EXCEPT ![key(t)] = Granted(RunOf[t], key(t), Fresh(key(t)))]
    BY <1>2 DEF Try
  <2>2. locks'[key(t)] = Granted(RunOf[t], key(t), Fresh(key(t)))
    BY <1>1, <2>1 DEF Typed
  <2>3. GoesTo(key(t), Fresh(key(t)), RunOf[t])
    BY <2>2, GrantedIs
  <2>4. \A k \in Key \ {key(t)} : Stays(k)
    BY <2>1 DEF Typed, Stays
  <2> QED
    BY <1>2, <2>3, <2>4
<1>3. CASE ~Takeable(key(t))
  BY <1>1, <1>3 DEF Try, Stays
<1> QED
  BY <1>2, <1>3

(* A claim that could not be recorded gives its own lock back. *)
LEMMA UnrecordedLocks ==
  ASSUME Typed, Keyed, NEW t \in Target, Unrecorded(t), NEW k \in Key
  PROVE  IF k = key(t) /\ Gone(k, token[t]) THEN Vanishes(k) \/ Orphans(k) ELSE Stays(k)
<1>1. key(t) \in Key
  BY DEF Keyed, key
<1>2. CASE GiveBack(Only(key(t), token[t]))
  BY <1>1, <1>2, GiveBackGives, OnlyIs DEF Gone
<1>3. CASE locks' = [locks EXCEPT ![key(t)] = Released(@, token[t])]
  <2>1. CASE k = key(t)
    <3>1. locks'[k] = Released(locks[k], token[t])
      BY <1>3, <2>1 DEF Typed
    <3> QED
      BY <2>1, <3>1, ReleasedIs
  <2>2. CASE k # key(t)
    BY <1>3, <2>2 DEF Typed, Stays
  <2> QED
    BY <2>1, <2>2
<1> QED
  BY <1>2, <1>3 DEF Unrecorded

(* Where the write threw on a running run, the lock is gone for sure. *)
LEMMA UnrecordedVanishes ==
  ASSUME Typed, Keyed, NEW t \in Target, Unrecorded(t), status[RunOf[t]] = "running",
         Gone(key(t), token[t])
  PROVE  Vanishes(key(t))
<1>1. locks' = [locks EXCEPT ![key(t)] = Released(@, token[t])]
  BY DEF Unrecorded
<1>2. locks'[key(t)] = Released(locks[key(t)], token[t])
  BY <1>1, KeyOf DEF Typed
<1> QED
  BY <1>2, ReleasedIs

(* The end of a body gives back the lock of that target alone. *)
LEMMA BodyEndsLocks ==
  ASSUME Typed, Keyed, NEW t \in Target, BodyEnds(t), NEW k \in Key
  PROVE  IF k = key(t) /\ Gone(k, token[t]) THEN Vanishes(k) \/ Orphans(k) ELSE Stays(k)
<1>1. key(t) \in Key
  BY DEF Keyed, key
<1>2. GiveBack(Only(key(t), token[t]))
  BY DEF BodyEnds
<1> QED
  BY <1>1, <1>2, GiveBackGives, OnlyIs DEF Gone

(* Parking revives what the run holds. *)
LEMMA ParksLocks ==
  ASSUME Typed, NEW r \in Run, Parks(r), NEW k \in Key
  PROVE  IF Gone(k, held[r][k]) THEN Revives(k) ELSE Stays(k)
<1>1. locks'[k] = IF Renews(k, held[r][k]) THEN Renewed(locks[k]) ELSE locks[k]
  BY DEF Parks
<1> QED
  BY <1>1, RenewedIs DEF Renews, Gone, Stays

(* An ending gives back what the run holds. *)
LEMMA ReleasesLocks ==
  ASSUME Typed, NEW r \in Run, Releases(r), NEW k \in Key
  PROVE  IF Gone(k, held[r][k]) THEN Vanishes(k) \/ Orphans(k) ELSE Stays(k)
  BY GiveBackGives DEF Releases

(* A death orphans what only the process could have given back. *)
LEMMA DiesLocks ==
  ASSUME Typed, NEW r \in Run, Dies(r), NEW k \in Key
  PROVE  IF locks[k].run = r /\ (locks[k].token # listed[r][k] \/ locks[k].left = "entrusted")
         THEN Orphans(k) ELSE Stays(k)
<1>1. locks'[k] =
        IF locks[k].run = r /\ (locks[k].token # listed[r][k] \/ locks[k].left = "entrusted")
        THEN [locks[k] EXCEPT !.left = "orphan"] ELSE locks[k]
  BY DEF Dies
<1> QED
  BY <1>1 DEF Typed, Lock, Orphans, Keeps, Stays

(* A re-claim renews the recorded lock or grants a new one. *)
LEMMA ReclaimsLocks ==
  ASSUME Typed, NEW r \in Run, NEW k \in Key, Reclaims(r, k)
  PROVE  /\ \A kk \in Key \ {k} : Stays(kk)
         /\ (Renews(k, claim[r].got[k]) => Revives(k))
         /\ (~Renews(k, claim[r].got[k]) => Takeable(k) /\ GoesTo(k, Fresh(k), r))
<1>1. CASE Renews(k, claim[r].got[k])
  <2>1. locks' = [locks EXCEPT ![k] = Renewed(locks[k])]
    BY <1>1 DEF Reclaims
  <2>2. locks'[k] = Renewed(locks[k])
    BY <2>1 DEF Typed
  <2>3. \A kk \in Key \ {k} : Stays(kk)
    BY <2>1 DEF Typed, Stays
  <2> QED
    BY <1>1, <2>2, <2>3, RenewedIs
<1>2. CASE ~Renews(k, claim[r].got[k])
  <2>1. Takeable(k) /\ locks' = [locks EXCEPT ![k] = Granted(r, k, Fresh(k))]
    BY <1>2 DEF Reclaims
  <2>2. locks'[k] = Granted(r, k, Fresh(k))
    BY <2>1 DEF Typed
  <2>3. \A kk \in Key \ {k} : Stays(kk)
    BY <2>1 DEF Typed, Stays
  <2> QED
    BY <1>2, <2>1, <2>2, <2>3, GrantedIs
<1> QED
  BY <1>1, <1>2

(* A resume that ends gives back, or leaves to the TTL, what it took afresh *)
(* and nothing else.                                                        *)
LEMMA RetakenGoes ==
  ASSUME Typed, NEW r \in Run, NEW k \in Key,
         \/ \E q \in Key : Refused(r, q)
         \/ LosesTheRun(r)
         \/ ReclaimThrows(r)
  PROVE  IF k \in claim[r].retaken /\ Gone(k, claim[r].got[k])
         THEN Vanishes(k) \/ Orphans(k) ELSE Stays(k)
<1>1. CASE GiveBack(Retaken(r))
  BY <1>1, GiveBackGives, RetakenIs DEF Gone
<1>2. CASE locks' = [kk \in Key |-> Abandoned(locks[kk], Retaken(r)[kk])]
  <2>1. locks'[k] = Abandoned(locks[k], Retaken(r)[k])
    BY <1>2
  <2> QED
    BY <2>1, AbandonedIs, RetakenIs DEF Gone
<1> QED
  BY <1>1, <1>2 DEF Refused, LosesTheRun, ReclaimThrows

(* A resume that throws gives nothing back. *)
LEMMA ThrowsOrphans ==
  ASSUME Typed, NEW r \in Run, NEW k \in Key, ReclaimThrows(r)
  PROVE  IF k \in claim[r].retaken /\ Gone(k, claim[r].got[k]) THEN Orphans(k) ELSE Stays(k)
<1>1. locks'[k] = Abandoned(locks[k], Retaken(r)[k])
  BY DEF ReclaimThrows
<1> QED
  BY <1>1, AbandonedIs, RetakenIs DEF Gone

(* A resumed run has all its locks for itself again. *)
LEMMA MovesLocks ==
  ASSUME Typed, NEW r \in Run, NEW k \in Key, MovesToRunning(r)
  PROVE  IF Gone(k, Listing(r)[k])
         THEN Keeps(k) /\ (locks'[k].live <=> locks[k].live) /\ locks'[k].left = "no"
         ELSE Stays(k)
<1>1. locks'[k] = IF Renews(k, Listing(r)[k]) THEN [locks[k] EXCEPT !.left = "no"] ELSE locks[k]
  BY DEF MovesToRunning
<1> QED
  BY <1>1 DEF Typed, Lock, Keeps, Stays, Renews, Gone

(* A canceller gives the listed locks back, or entrusts them to the process. *)
LEMMA FinalizesLocks ==
  ASSUME Typed, NEW r \in Run, NEW k \in Key, Finalizes(r)
  PROVE  /\ canc[r] = "gone" =>
              IF Gone(k, listed[r][k]) THEN Vanishes(k) \/ Orphans(k) ELSE Stays(k)
         /\ canc[r] = "there" =>
              IF Gone(k, listed[r][k])
              THEN /\ Keeps(k) /\ (locks'[k].live <=> locks[k].live)
                   /\ locks'[k].left = IF proc[r] \in Alive \ {"resuming"} THEN "entrusted" ELSE "orphan"
              ELSE Stays(k)
<1>1. ASSUME canc[r] = "gone"
      PROVE  IF Gone(k, listed[r][k]) THEN Vanishes(k) \/ Orphans(k) ELSE Stays(k)
  BY <1>1, GiveBackGives DEF Finalizes
<1>2. ASSUME canc[r] = "there"
      PROVE  IF Gone(k, listed[r][k])
              THEN /\ Keeps(k) /\ (locks'[k].live <=> locks[k].live)
                   /\ locks'[k].left = IF proc[r] \in Alive \ {"resuming"} THEN "entrusted" ELSE "orphan"
              ELSE Stays(k)
  <2>1. locks'[k] = Entrusted(r, k)
    BY <1>2 DEF Finalizes
  <2> QED
    BY <2>1 DEF Entrusted, Typed, Lock, Keeps, Stays, Gone
<1> QED
  BY <1>1, <1>2

(* A settled wait gives the listed locks back. *)
LEMMA TimesOutLocks ==
  ASSUME Typed, NEW r \in Run, NEW k \in Key, TimesOut(r)
  PROVE  IF Gone(k, listed[r][k]) THEN Vanishes(k) \/ Orphans(k) ELSE Stays(k)
  BY GiveBackGives DEF TimesOut

(* Time lets one lock run out or revives one. *)
LEMMA TimeLocks ==
  ASSUME Typed, NEW k \in Key, NEW kk \in Key
  PROVE  /\ Lapses(k) \/ LapsesUnderHolder(k) => IF kk = k THEN Fades(kk) ELSE Stays(kk)
         /\ Heartbeat(k) => IF kk = k THEN Revives(kk) ELSE Stays(kk)
<1>1. ASSUME Lapses(k) \/ LapsesUnderHolder(k) PROVE IF kk = k THEN Fades(kk) ELSE Stays(kk)
  <2>1. locks' = [locks EXCEPT ![k].live = FALSE]
    BY <1>1 DEF Lapses, LapsesUnderHolder
  <2> QED
    BY <2>1 DEF Typed, Lock, Fades, Stays, Keeps
<1>2. ASSUME Heartbeat(k) PROVE IF kk = k THEN Revives(kk) ELSE Stays(kk)
  <2>1. locks' = [locks EXCEPT ![k] = Renewed(locks[k])]
    BY <1>2 DEF Heartbeat
  <2>2. CASE kk = k
    BY <2>1, <2>2, RenewedIs DEF Typed
  <2>3. CASE kk # k
    BY <2>1, <2>3 DEF Typed, Stays
  <2> QED
    BY <2>2, <2>3
<1> QED
  BY <1>1, <1>2

(* What a re-claim does to the progress of its resume. *)
LEMMA ReclaimsClaim ==
  ASSUME Typed, NEW r \in Run, NEW k \in Key, Reclaims(r, k)
  PROVE  /\ \A q \in Run \ {r} : claim'[q] = claim[q]
         /\ claim'[r].todo = claim[r].todo \ {k}
         /\ \A kk \in Key \ {k} : claim'[r].got[kk] = claim[r].got[kk]
         /\ (Renews(k, claim[r].got[k]) =>
               claim'[r].got[k] = claim[r].got[k] /\ claim'[r].retaken = claim[r].retaken)
         /\ (~Renews(k, claim[r].got[k]) =>
               claim'[r].got[k] = Fresh(k) /\ claim'[r].retaken = claim[r].retaken \cup {k})
<1>1. CASE Renews(k, claim[r].got[k])
  <2>1. claim' = [claim EXCEPT ![r] = [claim[r] EXCEPT !.todo = @ \ {k}]]
    BY <1>1 DEF Reclaims
  <2> QED
    BY <1>1, <2>1 DEF Typed
<1>2. CASE ~Renews(k, claim[r].got[k])
  <2>1. claim' = [claim EXCEPT ![r] = [[claim[r] EXCEPT !.todo = @ \ {k}]
                    EXCEPT !.got[k] = Fresh(k), !.retaken = @ \cup {k}]]
    BY <1>2 DEF Reclaims
  <2> QED
    BY <1>2, <2>1 DEF Typed
<1> QED
  BY <1>1, <1>2

(* What the record lists from a resume on is what the resume re-claimed. *)
LEMMA ListingIs ==
  ASSUME Typed, Reclaimed, NEW r \in Run, MovesToRunning(r), NEW k \in Key
  PROVE  Listing(r)[k] = claim[r].got[k]
<1>1. CASE claim[r].got = NoTokens
  <2>1. claim[r].got[k] = 0
    BY <1>1 DEF NoTokens
  <2>2. listed[r][k] = 0
    BY <2>1 DEF Reclaimed, MovesToRunning
  <2> QED
    BY <1>1, <2>1, <2>2 DEF Listing
<1>2. CASE claim[r].got # NoTokens
  BY <1>2 DEF Listing
<1> QED
  BY <1>1, <1>2

(* A step in which the store frees or forgets what it was given back. *)
Gives(k, n) == IF Gone(k, n) THEN Vanishes(k) \/ Orphans(k) ELSE Stays(k)

Others(r) == \A q \in Run \ {r} :
  listed'[q] = listed[q] /\ held'[q] = held[q] /\ claim'[q] = claim[q] /\ pending'[q] = pending[q]

OthersAre(r) == \A q \in Run \ {r} :
  status'[q] = status[q] /\ proc'[q] = proc[q] /\ canc'[q] = canc[q]

OtherTargets(t) == \A u \in Target \ {t} : pc'[u] = pc[u] /\ token'[u] = token[u]

NoClaimLeft(r) == claim'[r].todo = {} /\ claim'[r].retaken = {} /\ \A k \in Key : claim'[r].got[k] = 0

Takes(t) ==
  LET k == key(t) r == RunOf[t] n == Fresh(key(t)) IN
  /\ pc[t] = "asking" /\ ~locks[k].live
  /\ New(k, n) /\ GoesTo(k, n, r) /\ \A kk \in Key \ {k} : Stays(kk)
  /\ token'[t] = n /\ pc'[t] = (IF decl[t].holdForRun THEN "granted" ELSE "body")
  /\ OtherTargets(t)
  /\ UNCHANGED <<decl, status, listed, proc, held, pending, claim, canc, lapsed>>

IsRefused(t) ==
  /\ pc[t] = "asking" /\ locks[key(t)].live /\ pc'[t] = "refused" /\ OtherTargets(t)
  /\ UNCHANGED <<decl, locks, status, listed, proc, held, pending, claim, token, canc, lapsed>>

(* An attempt takes the lock or is refused. *)
LEMMA TryEffect == ASSUME Typed, Keyed, Counted, NEW t \in Target, Try(t) PROVE Takes(t) \/ IsRefused(t)
<1>1. CASE Takeable(key(t))
  <2>1. New(key(t), Fresh(key(t)))
    BY FreshIsNew, KeyOf
  <2>2. GoesTo(key(t), Fresh(key(t)), RunOf[t]) /\ \A kk \in Key \ {key(t)} : Stays(kk)
    BY <1>1, TryLocks
  <2>3. token'[t] = Fresh(key(t)) /\ OtherTargets(t)
    BY <1>1 DEF Try, Typed, OtherTargets
  <2>4. pc'[t] = (IF decl[t].holdForRun THEN "granted" ELSE "body")
    BY <1>1 DEF Try, Typed
  <2>5. UNCHANGED <<decl, status, listed, proc, held, pending, claim, canc, lapsed>>
    BY DEF Try, procVars
  <2>6. pc[t] = "asking" /\ ~locks[key(t)].live
    BY <1>1 DEF Try, Takeable
  <2> QED
    BY <2>1, <2>2, <2>3, <2>4, <2>5, <2>6 DEF Takes
<1>2. CASE ~Takeable(key(t))
  BY <1>2 DEF Try, procVars, IsRefused, OtherTargets, Takeable, Typed
<1> QED
  BY <1>1, <1>2

IsUnrecorded(t) ==
  LET k == key(t) r == RunOf[t] IN
  /\ pc[t] = "granted" /\ pc'[t] = "failed" /\ token'[t] = 0 /\ OtherTargets(t) /\ Others(r)
  /\ \A kk \in Key : IF kk = k THEN Gives(kk, token[t]) ELSE Stays(kk)
  /\ (status[r] = "running" /\ Gone(k, token[t]) => Vanishes(k))
  /\ \A kk \in Key \ {k} : pending'[r][kk] = pending[r][kk] /\ listed'[r][kk] = listed[r][kk]
  /\ pending'[r][k] = None
  /\ \/ listed'[r][k] = listed[r][k]
     \/ status[r] = "running" /\ listed'[r][k] = token[t]
  /\ UNCHANGED <<decl, status, proc, held, claim, canc, lapsed>>

(* What a claim that could not be recorded comes to. *)
LEMMA UnrecordedEffect == ASSUME Typed, Keyed, NEW t \in Target, Unrecorded(t) PROVE IsUnrecorded(t)
<1>0. key(t) \in Key /\ RunOf[t] \in Run
  BY KeyOf
<1>1. \A kk \in Key : IF kk = key(t) THEN Gives(kk, token[t]) ELSE Stays(kk)
  BY UnrecordedLocks DEF Gives
<1>2. pc[t] = "granted" /\ pc'[t] = "failed" /\ token'[t] = 0 /\ OtherTargets(t)
  BY DEF Unrecorded, Typed, OtherTargets
<1>3. /\ pending'[RunOf[t]][key(t)] = None
      /\ \A kk \in Key \ {key(t)} : pending'[RunOf[t]][kk] = pending[RunOf[t]][kk]
      /\ \A q \in Run \ {RunOf[t]} : pending'[q] = pending[q]
  BY <1>0 DEF Unrecorded, Typed
<1>4. listed' \in {listed, [listed EXCEPT ![RunOf[t]][key(t)] = token[t]]}
      /\ (listed' # listed => status[RunOf[t]] = "running")
  BY DEF Unrecorded
<1>5. UNCHANGED <<decl, status, proc, held, claim, canc, lapsed>>
  BY DEF Unrecorded
<1>8. status[RunOf[t]] = "running" /\ Gone(key(t), token[t]) => Vanishes(key(t))
  BY UnrecordedVanishes
<1>6. CASE listed' = listed
  BY <1>0, <1>1, <1>2, <1>3, <1>5, <1>6, <1>8 DEF IsUnrecorded, Others
<1>7. CASE listed' # listed
  <2>1. listed' = [listed EXCEPT ![RunOf[t]][key(t)] = token[t]] /\ status[RunOf[t]] = "running"
    BY <1>4, <1>7
  <2> QED
    BY <1>0, <1>1, <1>2, <1>3, <1>5, <1>8, <2>1 DEF IsUnrecorded, Others, Typed
<1> QED
  BY <1>6, <1>7

IsOver(t) ==
  /\ pc[t] = "body" /\ pc'[t] = "done" /\ token'[t] = 0 /\ OtherTargets(t)
  /\ proc[RunOf[t]] = "working"
  /\ \A kk \in Key : IF kk = key(t) THEN Gives(kk, token[t]) ELSE Stays(kk)
  /\ UNCHANGED <<decl, status, listed, proc, held, pending, claim, canc, lapsed>>

(* What the end of a body comes to. *)
LEMMA BodyEndsEffect == ASSUME Typed, Keyed, NEW t \in Target, BodyEnds(t) PROVE IsOver(t)
<1>1. \A kk \in Key : IF kk = key(t) THEN Gives(kk, token[t]) ELSE Stays(kk)
  BY BodyEndsLocks DEF Gives
<1> QED
  BY <1>1 DEF IsOver, BodyEnds, Typed, procVars, OtherTargets

HasParked(r) ==
  /\ proc[r] = "parking" /\ proc'[r] = "none" /\ \A q \in Run \ {r} : proc'[q] = proc[q]
  /\ \A k \in Key : held'[r][k] = 0
  /\ \A q \in Run \ {r} : held'[q] = held[q]
  /\ \A k \in Key : IF Gone(k, held[r][k]) THEN Revives(k) ELSE Stays(k)
  /\ UNCHANGED <<decl, status, listed, pending, claim, pc, token, canc, lapsed>>

(* What parking comes to. *)
LEMMA ParksEffect == ASSUME Typed, NEW r \in Run, Parks(r) PROVE HasParked(r)
<1>1. \A k \in Key : IF Gone(k, held[r][k]) THEN Revives(k) ELSE Stays(k)
  BY ParksLocks
<1> QED
  BY <1>1 DEF HasParked, Parks, Typed, NoTokens, targetVars

HasReleased(r) ==
  /\ proc[r] = "settling" /\ proc'[r] = "none" /\ \A q \in Run \ {r} : proc'[q] = proc[q]
  /\ \A k \in Key : held'[r][k] = 0
  /\ \A q \in Run \ {r} : held'[q] = held[q]
  /\ \A k \in Key : Gives(k, held[r][k])
  /\ UNCHANGED <<decl, status, listed, pending, claim, pc, token, canc, lapsed>>

(* What the release at an ending comes to. *)
LEMMA ReleasesEffect == ASSUME Typed, NEW r \in Run, Releases(r) PROVE HasReleased(r)
<1>1. \A k \in Key : Gives(k, held[r][k])
  BY ReleasesLocks DEF Gives
<1> QED
  BY <1>1 DEF HasReleased, Releases, Typed, NoTokens, targetVars

HasFinished(r) ==
  /\ proc[r] = "working" /\ proc'[r] = "settling" /\ \A q \in Run \ {r} : proc'[q] = proc[q]
  /\ \A t \in TargetsOf(r) : pc[t] \notin InFlight
  /\ \A q \in Run \ {r} : status'[q] = status[q] /\ listed'[q] = listed[q]
  /\ (status[r] = "running" => status'[r] = "ended" /\ \A k \in Key : listed'[r][k] = 0)
  /\ (status[r] # "running" => UNCHANGED <<status, listed>>)
  /\ UNCHANGED <<decl, locks, held, pending, claim, pc, token, canc, lapsed>>

(* What the ending itself comes to. *)
LEMMA FinishesEffect == ASSUME Typed, NEW r \in Run, Finishes(r) PROVE HasFinished(r)
<1>1. CASE status[r] = "running"
  BY <1>1 DEF HasFinished, Finishes, Idle, Typed, NoTokens, targetVars
<1>2. CASE status[r] # "running"
  BY <1>2 DEF HasFinished, Finishes, Idle, Typed, targetVars
<1> QED
  BY <1>1, <1>2

HasDied(r) ==
  /\ proc[r] \in Alive /\ proc'[r] = "dead" /\ \A q \in Run \ {r} : proc'[q] = proc[q]
  /\ \A k \in Key : IF locks[k].run = r /\ (locks[k].token # listed[r][k] \/ locks[k].left = "entrusted")
                    THEN Orphans(k) ELSE Stays(k)
  /\ \A k \in Key : held'[r][k] = 0 /\ pending'[r][k] = None
  /\ \A q \in Run \ {r} : held'[q] = held[q] /\ pending'[q] = pending[q] /\ claim'[q] = claim[q]
  /\ NoClaimLeft(r)
  /\ \A t \in Target : IF RunOf[t] = r THEN pc'[t] \notin InFlight /\ token'[t] = 0
                       ELSE pc'[t] = pc[t] /\ token'[t] = token[t]
  /\ UNCHANGED <<decl, status, listed, canc, lapsed>>

(* What a death comes to. *)
LEMMA DiesEffect == ASSUME Typed, NEW r \in Run, Dies(r) PROVE HasDied(r)
<1>1. \A k \in Key : IF locks[k].run = r /\ (locks[k].token # listed[r][k] \/ locks[k].left = "entrusted")
                     THEN Orphans(k) ELSE Stays(k)
  BY DiesLocks
<1>2. NoClaimLeft(r) /\ \A q \in Run \ {r} : claim'[q] = claim[q]
  BY DEF Dies, Typed, NoClaim, NoTokens, NoClaimLeft
<1>3. /\ \A k \in Key : held'[r][k] = 0 /\ pending'[r][k] = None
      /\ \A q \in Run \ {r} : held'[q] = held[q] /\ pending'[q] = pending[q]
  BY DEF Dies, Typed, NoTokens
<1>4. \A t \in Target : IF RunOf[t] = r THEN pc'[t] \notin InFlight /\ token'[t] = 0
                       ELSE pc'[t] = pc[t] /\ token'[t] = token[t]
  BY DEF Dies, Typed, InFlight, Asking
<1>5. proc[r] \in Alive /\ proc'[r] = "dead" /\ \A q \in Run \ {r} : proc'[q] = proc[q]
  BY DEF Dies, Typed
<1>6. UNCHANGED <<decl, status, listed, canc, lapsed>>
  BY DEF Dies
<1> QED
  BY <1>1, <1>2, <1>3, <1>4, <1>5, <1>6 DEF HasDied

Renewing(r, k) ==
  /\ proc[r] = "resuming" /\ k \in claim[r].todo /\ Gone(k, claim[r].got[k])
  /\ Revives(k) /\ \A kk \in Key \ {k} : Stays(kk)
  /\ \A q \in Run \ {r} : claim'[q] = claim[q]
  /\ claim'[r].todo = claim[r].todo \ {k} /\ claim'[r].retaken = claim[r].retaken
  /\ \A kk \in Key : claim'[r].got[kk] = claim[r].got[kk]
  /\ UNCHANGED <<decl, status, listed, proc, held, pending, pc, token, canc, lapsed>>

Retaking(r, k) ==
  /\ proc[r] = "resuming" /\ k \in claim[r].todo /\ ~Gone(k, claim[r].got[k]) /\ ~locks[k].live
  /\ New(k, Fresh(k)) /\ GoesTo(k, Fresh(k), r) /\ \A kk \in Key \ {k} : Stays(kk)
  /\ \A q \in Run \ {r} : claim'[q] = claim[q]
  /\ claim'[r].todo = claim[r].todo \ {k} /\ claim'[r].retaken = claim[r].retaken \cup {k}
  /\ claim'[r].got[k] = Fresh(k)
  /\ \A kk \in Key \ {k} : claim'[r].got[kk] = claim[r].got[kk]
  /\ UNCHANGED <<decl, status, listed, proc, held, pending, pc, token, canc, lapsed>>

(* A re-claim renews or retakes. *)
LEMMA ReclaimsEffect ==
  ASSUME Typed, Keyed, Counted, NEW r \in Run, NEW k \in Key, Reclaims(r, k)
  PROVE  Renewing(r, k) \/ Retaking(r, k)
<1>1. proc[r] = "resuming" /\ k \in claim[r].todo
      /\ UNCHANGED <<decl, status, listed, proc, held, pending, pc, token, canc, lapsed>>
  BY DEF Reclaims, targetVars
<1>2. CASE Renews(k, claim[r].got[k])
  <2>1. Gone(k, claim[r].got[k])
    BY <1>2 DEF Renews, Gone
  <2>2. \A kk \in Key : claim'[r].got[kk] = claim[r].got[kk]
    BY <1>2, ReclaimsClaim
  <2> QED
    BY <1>1, <1>2, <2>1, <2>2, ReclaimsClaim, ReclaimsLocks DEF Renewing
<1>3. CASE ~Renews(k, claim[r].got[k])
  <2>1. ~Gone(k, claim[r].got[k]) /\ ~locks[k].live
    BY <1>3, ReclaimsLocks DEF Renews, Gone, Takeable
  <2> QED
    BY <1>1, <1>3, <2>1, ReclaimsClaim, ReclaimsLocks, FreshIsNew DEF Retaking
<1> QED
  BY <1>2, <1>3

HasLeft(r) ==
  /\ proc[r] = "resuming" /\ proc'[r] = "none" /\ \A q \in Run \ {r} : proc'[q] = proc[q]
  /\ \A k \in Key : IF k \in claim[r].retaken THEN Gives(k, claim[r].got[k]) ELSE Stays(k)
  /\ \A q \in Run \ {r} : claim'[q] = claim[q]
  /\ NoClaimLeft(r)
  /\ UNCHANGED <<decl, status, listed, held, pending, pc, token, canc, lapsed>>

(* What a resume that is refused, throws or loses the run comes to. *)
LEMMA LeavesEffect ==
  ASSUME Typed, NEW r \in Run,
         (\E q \in Key : Refused(r, q)) \/ LosesTheRun(r) \/ ReclaimThrows(r)
  PROVE  HasLeft(r)
<1>1. \A k \in Key : IF k \in claim[r].retaken THEN Gives(k, claim[r].got[k]) ELSE Stays(k)
  BY RetakenGoes DEF Gives
<1>2. LeavesResume(r) /\ proc[r] = "resuming"
  BY DEF Refused, LosesTheRun, ReclaimThrows
<1>3. NoClaimLeft(r) /\ \A q \in Run \ {r} : claim'[q] = claim[q]
  BY <1>2 DEF LeavesResume, Typed, NoClaim, NoTokens, NoClaimLeft
<1> QED
  BY <1>1, <1>2, <1>3 DEF HasLeft, LeavesResume, Typed, targetVars

HasMoved(r) ==
  /\ proc[r] = "resuming" /\ proc'[r] = "working" /\ \A q \in Run \ {r} : proc'[q] = proc[q]
  /\ status[r] = "suspended" /\ status'[r] = "running"
  /\ \A q \in Run \ {r} : status'[q] = status[q]
  /\ claim[r].todo = {} /\ NoClaimLeft(r)
  /\ \A k \in Key : listed'[r][k] = claim[r].got[k] /\ held'[r][k] = claim[r].got[k]
  /\ \A k \in Key : IF Gone(k, claim[r].got[k])
                    THEN Keeps(k) /\ (locks'[k].live <=> locks[k].live) /\ locks'[k].left = "no"
                    ELSE Stays(k)
  /\ \A q \in Run \ {r} : listed'[q] = listed[q] /\ held'[q] = held[q] /\ claim'[q] = claim[q]
  /\ UNCHANGED <<decl, pending, pc, token, canc, lapsed>>

(* What a resume that succeeds comes to. *)
LEMMA MovesEffect == ASSUME Typed, Reclaimed, NEW r \in Run, MovesToRunning(r) PROVE HasMoved(r)
<1>1. \A k \in Key : Listing(r)[k] = claim[r].got[k]
  BY ListingIs
<1>2. \A k \in Key : IF Gone(k, claim[r].got[k])
                    THEN Keeps(k) /\ (locks'[k].live <=> locks[k].live) /\ locks'[k].left = "no"
                    ELSE Stays(k)
  <2> SUFFICES ASSUME NEW k \in Key
               PROVE IF Gone(k, claim[r].got[k])
                    THEN Keeps(k) /\ (locks'[k].live <=> locks[k].live) /\ locks'[k].left = "no"
                    ELSE Stays(k)
    OBVIOUS
  <2>1. IF Gone(k, Listing(r)[k])
        THEN Keeps(k) /\ (locks'[k].live <=> locks[k].live) /\ locks'[k].left = "no"
        ELSE Stays(k)
    BY MovesLocks
  <2> QED
    BY <1>1, <2>1
<1>3. /\ listed'[r] = Listing(r) /\ held'[r] = Listing(r)
      /\ \A q \in Run \ {r} : listed'[q] = listed[q] /\ held'[q] = held[q]
  BY DEF MovesToRunning, Typed
<1>4. NoClaimLeft(r) /\ \A q \in Run \ {r} : claim'[q] = claim[q]
  BY DEF MovesToRunning, Typed, NoClaim, NoTokens, NoClaimLeft
<1>5. /\ proc[r] = "resuming" /\ proc'[r] = "working" /\ \A q \in Run \ {r} : proc'[q] = proc[q]
      /\ status[r] = "suspended" /\ status'[r] = "running"
      /\ \A q \in Run \ {r} : status'[q] = status[q]
      /\ claim[r].todo = {}
  BY DEF MovesToRunning, Typed
<1>6. UNCHANGED <<decl, pending, pc, token, canc, lapsed>>
  BY DEF MovesToRunning, targetVars
<1> QED
  BY <1>1, <1>2, <1>3, <1>4, <1>5, <1>6 DEF HasMoved

HasEnded(r) ==
  /\ status'[r] = "ended" /\ \A q \in Run \ {r} : status'[q] = status[q] /\ listed'[q] = listed[q]
  /\ \A k \in Key : listed'[r][k] = 0
  /\ UNCHANGED <<decl, proc, held, pending, claim, pc, token, lapsed>>

Settles(r) == HasEnded(r) /\ \A k \in Key : Gives(k, listed[r][k])

Entrusts(r) ==
  /\ HasEnded(r)
  /\ \A k \in Key : IF Gone(k, listed[r][k])
                    THEN /\ Keeps(k) /\ (locks'[k].live <=> locks[k].live)
                         /\ locks'[k].left = IF proc[r] \in Alive \ {"resuming"} THEN "entrusted" ELSE "orphan"
                    ELSE Stays(k)

Uncancels(r) == canc'[r] = "no" /\ \A q \in Run \ {r} : canc'[q] = canc[q]

(* A canceller settles a run or leaves that to its process. *)
LEMMA FinalizesEffect ==
  ASSUME Typed, NEW r \in Run, Finalizes(r)
  PROVE  /\ Uncancels(r)
         /\ \/ canc[r] = "gone" /\ Settles(r)
            \/ canc[r] = "there" /\ Entrusts(r)
<1>1. HasEnded(r) /\ Uncancels(r)
  BY DEF Finalizes, HasEnded, Uncancels, Typed, NoTokens, procVars, targetVars
<1>2. canc[r] = "gone" => \A k \in Key : Gives(k, listed[r][k])
  BY FinalizesLocks DEF Gives
<1>3. canc[r] = "there" =>
         \A k \in Key : IF Gone(k, listed[r][k])
                    THEN /\ Keeps(k) /\ (locks'[k].live <=> locks[k].live)
                         /\ locks'[k].left = IF proc[r] \in Alive \ {"resuming"} THEN "entrusted" ELSE "orphan"
                    ELSE Stays(k)
  BY FinalizesLocks
<1>4. canc[r] \in {"gone", "there"}
  BY DEF Finalizes
<1>5. CASE canc[r] = "gone"
  BY <1>1, <1>2, <1>5 DEF Settles
<1>6. CASE canc[r] = "there"
  BY <1>1, <1>3, <1>6 DEF Entrusts
<1> QED
  BY <1>4, <1>5, <1>6

(* What the end of an expired wait comes to. *)
LEMMA TimesOutEffect ==
  ASSUME Typed, NEW r \in Run, TimesOut(r)
  PROVE  status[r] = "suspended" /\ Settles(r) /\ UNCHANGED canc
<1>1. HasEnded(r) /\ status[r] = "suspended" /\ UNCHANGED canc
  BY DEF TimesOut, HasEnded, Typed, NoTokens, procVars, targetVars
<1>2. \A k \in Key : Gives(k, listed[r][k])
  BY TimesOutLocks DEF Gives
<1> QED
  BY <1>1, <1>2 DEF Settles

(* Steps that leave the store alone. *)
Advances(t, p) == pc'[t] = p /\ \A u \in Target \ {t} : pc'[u] = pc[u]

HasReached(t) ==
  /\ pc[t] = "idle" /\ proc[RunOf[t]] = "working" /\ Advances(t, "checking")
  /\ UNCHANGED <<decl, locks, status, listed, proc, held, pending, claim, token, canc, lapsed>>

(* What reaching a target comes to. *)
LEMMA ReachEffect == ASSUME Typed, NEW t \in Target, Reach(t) PROVE HasReached(t)
  BY DEF Reach, Typed, HasReached, Advances, procVars

IsCovered(t) ==
  /\ pc[t] = "checking" /\ held[RunOf[t]][key(t)] # 0 /\ Advances(t, "body")
  /\ UNCHANGED <<decl, locks, status, listed, proc, held, pending, claim, token, canc, lapsed>>

Asks(t) ==
  LET k == key(t) r == RunOf[t] IN
  /\ pc[t] = "checking" /\ held[r][k] = 0 /\ pending[r][k] = None /\ Advances(t, "asking")
  /\ \A q \in Run \ {r} : pending'[q] = pending[q]
  /\ \A kk \in Key \ {k} : pending'[r][kk] = pending[r][kk]
  /\ pending'[r][k] = IF decl[t].holdForRun THEN t ELSE None
  /\ UNCHANGED <<decl, locks, status, listed, proc, held, claim, token, canc, lapsed>>

(* A target is covered by its run or asks. *)
LEMMA CheckEffect ==
  ASSUME Typed, Keyed, NEW t \in Target, Check(t) PROVE IsCovered(t) \/ Asks(t)
<1>0. key(t) \in Key /\ RunOf[t] \in Run
  BY KeyOf
<1>1. CASE held[RunOf[t]][key(t)] # 0
  <2>1. pc[t] = "checking" /\ Advances(t, "body") /\ UNCHANGED pending
    BY <1>1 DEF Check, Typed, Advances
  <2> QED
    BY <1>1, <2>1 DEF IsCovered, Check
<1>2. CASE held[RunOf[t]][key(t)] = 0
  <2>1. pc[t] = "checking" /\ Advances(t, "asking") /\ pending[RunOf[t]][key(t)] = None
    BY <1>2 DEF Check, Typed, Advances
  <2>2. pending' = IF decl[t].holdForRun THEN [pending EXCEPT ![RunOf[t]][key(t)] = t] ELSE pending
    BY <1>2 DEF Check
  <2>3. /\ \A q \in Run \ {RunOf[t]} : pending'[q] = pending[q]
        /\ \A kk \in Key \ {key(t)} : pending'[RunOf[t]][kk] = pending[RunOf[t]][kk]
        /\ pending'[RunOf[t]][key(t)] = IF decl[t].holdForRun THEN t ELSE None
    BY <1>0, <2>1, <2>2 DEF Typed
  <2> QED
    BY <1>2, <2>1, <2>3 DEF Asks, Check
<1> QED
  BY <1>1, <1>2

HasRetried(t) ==
  /\ pc[t] = "refused" /\ Advances(t, "asking")
  /\ UNCHANGED <<decl, locks, status, listed, proc, held, pending, claim, token, canc, lapsed>>

(* What a retry comes to. *)
LEMMA RetryEffect == ASSUME Typed, NEW t \in Target, Retry(t) PROVE HasRetried(t)
  BY DEF Retry, Typed, HasRetried, Advances, procVars

GivesUp(t) ==
  LET k == key(t) r == RunOf[t] IN
  /\ pc[t] = "refused"
  /\ \/ Advances(t, "body") /\ held[r][k] # 0 /\ ~decl[t].holdForRun
     \/ Advances(t, "failed")
  /\ \A q \in Run \ {r} : pending'[q] = pending[q]
  /\ \A kk \in Key \ {k} : pending'[r][kk] = pending[r][kk]
  /\ pending'[r][k] = IF decl[t].holdForRun THEN None ELSE pending[r][k]
  /\ UNCHANGED <<decl, locks, status, listed, proc, held, claim, token, canc, lapsed>>

(* What the end of a wait comes to. *)
LEMMA ConflictEffect == ASSUME Typed, Keyed, NEW t \in Target, Conflict(t) PROVE GivesUp(t)
<1>0. key(t) \in Key /\ RunOf[t] \in Run
  BY KeyOf
<1>1. pc[t] = "refused"
  BY DEF Conflict
<1>2. \/ Advances(t, "body") /\ held[RunOf[t]][key(t)] # 0 /\ ~decl[t].holdForRun
      \/ Advances(t, "failed")
  BY DEF Conflict, Typed, Advances
<1>3. pending' = IF decl[t].holdForRun THEN [pending EXCEPT ![RunOf[t]][key(t)] = None] ELSE pending
  BY DEF Conflict
<1>4. /\ \A q \in Run \ {RunOf[t]} : pending'[q] = pending[q]
      /\ \A kk \in Key \ {key(t)} : pending'[RunOf[t]][kk] = pending[RunOf[t]][kk]
      /\ pending'[RunOf[t]][key(t)] = IF decl[t].holdForRun THEN None ELSE pending[RunOf[t]][key(t)]
  BY <1>0, <1>3 DEF Typed
<1>5. UNCHANGED <<decl, locks, status, listed, proc, held, claim, token, canc, lapsed>>
  BY DEF Conflict
<1> QED
  BY <1>1, <1>2, <1>4, <1>5 DEF GivesUp

IsRecorded(t) ==
  LET k == key(t) r == RunOf[t] IN
  /\ pc[t] = "granted" /\ status[r] = "running" /\ Advances(t, "body")
  /\ token'[t] = 0 /\ \A u \in Target \ {t} : token'[u] = token[u]
  /\ \A q \in Run \ {r} :
       listed'[q] = listed[q] /\ held'[q] = held[q] /\ pending'[q] = pending[q]
  /\ \A kk \in Key \ {k} :
       listed'[r][kk] = listed[r][kk] /\ held'[r][kk] = held[r][kk] /\ pending'[r][kk] = pending[r][kk]
  /\ listed'[r][k] = token[t] /\ held'[r][k] = token[t] /\ pending'[r][k] = None
  /\ UNCHANGED <<decl, locks, status, proc, claim, canc, lapsed>>

(* What recording a claim comes to. *)
LEMMA RecordedEffect == ASSUME Typed, Keyed, NEW t \in Target, Recorded(t) PROVE IsRecorded(t)
<1>0. key(t) \in Key /\ RunOf[t] \in Run
  BY KeyOf
<1>1. /\ pc[t] = "granted" /\ status[RunOf[t]] = "running" /\ Advances(t, "body")
      /\ token'[t] = 0 /\ \A u \in Target \ {t} : token'[u] = token[u]
  BY DEF Recorded, Typed, Advances
<1>2. /\ \A q \in Run \ {RunOf[t]} :
           listed'[q] = listed[q] /\ held'[q] = held[q] /\ pending'[q] = pending[q]
      /\ \A kk \in Key \ {key(t)} :
           /\ listed'[RunOf[t]][kk] = listed[RunOf[t]][kk]
           /\ held'[RunOf[t]][kk] = held[RunOf[t]][kk]
           /\ pending'[RunOf[t]][kk] = pending[RunOf[t]][kk]
  BY <1>0 DEF Recorded, Typed
<1>3. /\ listed'[RunOf[t]][key(t)] = token[t] /\ held'[RunOf[t]][key(t)] = token[t]
      /\ pending'[RunOf[t]][key(t)] = None
  BY <1>0 DEF Recorded, Typed
<1>4. UNCHANGED <<decl, locks, status, proc, claim, canc, lapsed>>
  BY DEF Recorded
<1> QED
  BY <1>1, <1>2, <1>3, <1>4 DEF IsRecorded

Same == UNCHANGED <<decl, locks, status, listed, proc, held, pending, claim, pc, token, canc, lapsed>>

(* Noticing a settlement changes nothing of this. *)
LEMMA NoticesEffect == ASSUME NEW r \in Run, Notices(r) PROVE Same
  BY DEF Notices, Same, targetVars

HasSuspended(r) ==
  /\ proc[r] = "working" /\ proc'[r] = "parking" /\ \A q \in Run \ {r} : proc'[q] = proc[q]
  /\ status[r] = "running" /\ status'[r] = "suspended"
  /\ \A q \in Run \ {r} : status'[q] = status[q]
  /\ \A t \in TargetsOf(r) : pc[t] \notin InFlight
  /\ UNCHANGED <<decl, locks, listed, held, pending, claim, pc, token, canc, lapsed>>

(* What suspending comes to. *)
LEMMA SuspendsEffect == ASSUME Typed, NEW r \in Run, Suspends(r) PROVE HasSuspended(r)
  BY DEF Suspends, Idle, Typed, HasSuspended, targetVars

HasLapsed(r) ==
  /\ proc[r] = "dead" /\ proc'[r] = "none" /\ \A q \in Run \ {r} : proc'[q] = proc[q]
  /\ UNCHANGED <<decl, locks, status, listed, held, pending, claim, pc, token, canc, lapsed>>

(* What the lapse of a lease comes to. *)
LEMMA LeaseLapsesEffect == ASSUME Typed, NEW r \in Run, LeaseLapses(r) PROVE HasLapsed(r)
  BY DEF LeaseLapses, Typed, HasLapsed, targetVars

IsHandedBack(r) ==
  /\ proc[r] = "none" /\ status[r] = "running" /\ status'[r] = "suspended"
  /\ \A q \in Run \ {r} : status'[q] = status[q]
  /\ UNCHANGED <<decl, locks, proc, listed, held, pending, claim, pc, token, canc, lapsed>>

(* What handing a run back comes to. *)
LEMMA HandsBackEffect == ASSUME Typed, NEW r \in Run, HandsBack(r) PROVE IsHandedBack(r)
  BY DEF HandsBack, Typed, IsHandedBack, procVars, targetVars

IsResumed(r) ==
  /\ proc[r] = "none" /\ proc'[r] = "resuming" /\ \A q \in Run \ {r} : proc'[q] = proc[q]
  /\ status[r] = "suspended"
  /\ \A q \in Run \ {r} : claim'[q] = claim[q]
  /\ claim'[r].retaken = {}
  /\ \A k \in Key : /\ claim'[r].got[k] = listed[r][k]
                    /\ (k \notin claim'[r].todo => listed[r][k] = 0)
  /\ UNCHANGED <<decl, locks, status, listed, held, pending, pc, token, canc, lapsed>>

(* What the start of a resume comes to. *)
LEMMA ResumesEffect == ASSUME Typed, NEW r \in Run, Resumes(r) PROVE IsResumed(r)
<1>1. /\ proc[r] = "none" /\ proc'[r] = "resuming" /\ \A q \in Run \ {r} : proc'[q] = proc[q]
      /\ status[r] = "suspended"
  BY DEF Resumes, Typed
<1>2. /\ \A q \in Run \ {r} : claim'[q] = claim[q]
      /\ claim'[r] = [todo |-> {k \in Key : listed[r][k] # 0}, got |-> listed[r], retaken |-> {}]
  BY DEF Resumes, Typed
<1>3. UNCHANGED <<decl, locks, status, listed, held, pending, pc, token, canc, lapsed>>
  BY DEF Resumes, targetVars
<1> QED
  BY <1>1, <1>2, <1>3 DEF IsResumed

IsCancelled(r) ==
  /\ canc[r] = "no" /\ status[r] \in {"running", "suspended"} /\ status'[r] = "cancelling"
  /\ canc'[r] = (IF status[r] = "suspended" THEN "gone" ELSE "walking")
  /\ \A q \in Run \ {r} : status'[q] = status[q] /\ canc'[q] = canc[q]
  /\ UNCHANGED <<decl, locks, proc, listed, held, pending, claim, pc, token, lapsed>>

(* What a cancellation comes to. *)
LEMMA CancelsEffect == ASSUME Typed, NEW r \in Run, Cancels(r) PROVE IsCancelled(r)
  BY DEF Cancels, Typed, IsCancelled, procVars, targetVars

HasAsked(r) ==
  /\ canc[r] = "walking"
  /\ canc'[r] = (IF proc[r] = "none" THEN "gone" ELSE "there")
  /\ \A q \in Run \ {r} : canc'[q] = canc[q]
  /\ UNCHANGED <<decl, locks, status, proc, listed, held, pending, claim, pc, token, lapsed>>

(* What asking for the owner comes to. *)
LEMMA AsksForOwnerEffect == ASSUME Typed, NEW r \in Run, AsksForOwner(r) PROVE HasAsked(r)
  BY DEF AsksForOwner, OwnerIsGone, Typed, HasAsked, procVars, targetVars

(* Time. *)
LEMMA TendedIs ==
  ASSUME Typed, Keyed, FreeLocks, NEW k \in Key
  PROVE  Tended(k) <=> locks[k].run # None /\ Hand(locks[k].run, k, locks[k].token)
  BY DEF Tended, InHand, Hand, FreeLocks

AllBut(k) == \A kk \in Key \ {k} : Stays(kk)

HasRunOut(k) ==
  /\ locks[k].live /\ Fades(k) /\ AllBut(k)
  /\ \/ ~(locks[k].run # None /\ Hand(locks[k].run, k, locks[k].token))
     \/ <<k, locks[k].token>> \in lapsed'
  /\ lapsed \subseteq lapsed'
  /\ UNCHANGED <<decl, status, listed, proc, held, pending, claim, pc, token, canc>>

(* A lock that runs out was not tended, or is noted as lapsed. *)
LEMMA LapsesEffect ==
  ASSUME Typed, Keyed, FreeLocks, NEW k \in Key, Lapses(k) \/ LapsesUnderHolder(k)
  PROVE  HasRunOut(k)
<1>1. Fades(k) /\ AllBut(k)
  BY TimeLocks DEF AllBut
<1>2. UNCHANGED <<decl, status, listed, proc, held, pending, claim, pc, token, canc>>
  BY DEF Lapses, LapsesUnderHolder, procVars, targetVars
<1>3. locks[k].live /\ lapsed \subseteq lapsed' /\ (~Tended(k) \/ <<k, locks[k].token>> \in lapsed')
  BY DEF Lapses, LapsesUnderHolder
<1> QED
  BY <1>1, <1>2, <1>3, TendedIs DEF HasRunOut

IsRenewed(k) ==
  /\ locks[k].run # None /\ Revives(k) /\ AllBut(k)
  /\ UNCHANGED <<decl, status, listed, proc, held, pending, claim, pc, token, canc, lapsed>>

(* What a late heartbeat comes to. *)
LEMMA HeartbeatEffect ==
  ASSUME Typed, Keyed, FreeLocks, NEW k \in Key, Heartbeat(k) PROVE IsRenewed(k)
<1>1. Revives(k) /\ AllBut(k)
  BY TimeLocks DEF AllBut
<1> QED
  BY <1>1 DEF Heartbeat, IsRenewed, Tended, procVars, targetVars

(* Who settles a run. *)
HasSettled(r) == canc[r] = "gone" /\ Uncancels(r) /\ Settles(r)

HasEntrusted(r) == canc[r] = "there" /\ Uncancels(r) /\ Entrusts(r)

HasExpired(r) == status[r] = "suspended" /\ UNCHANGED canc /\ Settles(r)

(* What a step can come to. *)
Effect ==
  \/ \E t \in Target :
       \/ HasReached(t) \/ IsCovered(t) \/ Asks(t) \/ Takes(t) \/ IsRefused(t) \/ HasRetried(t)
       \/ GivesUp(t) \/ IsRecorded(t) \/ IsUnrecorded(t) \/ IsOver(t)
  \/ \E r \in Run :
       \/ HasSuspended(r) \/ HasFinished(r) \/ HasParked(r) \/ HasReleased(r) \/ HasDied(r)
       \/ HasLapsed(r) \/ IsHandedBack(r) \/ IsResumed(r) \/ HasLeft(r) \/ HasMoved(r)
       \/ IsCancelled(r) \/ HasAsked(r) \/ HasSettled(r) \/ HasEntrusted(r) \/ HasExpired(r)
       \/ \E q \in Key : Renewing(r, q) \/ Retaking(r, q)
  \/ \E q \in Key : HasRunOut(q) \/ IsRenewed(q)
  \/ Same

(* Every step comes to one of the effects. *)
LEMMA StepsHaveEffects ==
  ASSUME Typed, Keyed, Counted, FreeLocks, Reclaimed, [Next]_vars PROVE Effect
<1>1. ASSUME NEW t \in Target, Reach(t) \/ TargetStep(t) PROVE Effect
  <2>1. \/ HasReached(t) \/ IsCovered(t) \/ Asks(t) \/ Takes(t) \/ IsRefused(t) \/ HasRetried(t)
        \/ GivesUp(t) \/ IsRecorded(t) \/ IsUnrecorded(t) \/ IsOver(t)
    BY <1>1, ReachEffect, CheckEffect, TryEffect, RetryEffect, ConflictEffect, RecordedEffect,
       UnrecordedEffect, BodyEndsEffect DEF TargetStep
  <2> QED
    BY <2>1 DEF Effect
<1>2. ASSUME NEW r \in Run, Notices(r) PROVE Effect
  BY <1>2, NoticesEffect DEF Effect
<1>3. ASSUME NEW r \in Run,
             \/ Suspends(r) \/ Finishes(r) \/ Ends(r) \/ Dies(r) \/ LeaseLapses(r)
             \/ HandsBack(r) \/ Resumes(r) \/ Cancels(r) \/ AsksForOwner(r)
      PROVE  Effect
  <2>1. \/ HasSuspended(r) \/ HasFinished(r) \/ HasParked(r) \/ HasReleased(r) \/ HasDied(r)
        \/ HasLapsed(r) \/ IsHandedBack(r) \/ IsResumed(r) \/ IsCancelled(r) \/ HasAsked(r)
    BY <1>3, SuspendsEffect, FinishesEffect, ParksEffect, ReleasesEffect, DiesEffect,
       LeaseLapsesEffect, HandsBackEffect, ResumesEffect, CancelsEffect, AsksForOwnerEffect DEF Ends
  <2> QED
    BY <2>1 DEF Effect
<1>4. ASSUME NEW r \in Run, ResumeStep(r) PROVE Effect
  <2>1. HasLeft(r) \/ HasMoved(r) \/ \E q \in Key : Renewing(r, q) \/ Retaking(r, q)
    BY <1>4, ReclaimsEffect, LeavesEffect, MovesEffect DEF ResumeStep
  <2> QED
    BY <2>1 DEF Effect
<1>5. ASSUME NEW r \in Run, Finalizes(r) PROVE Effect
  <2>1. HasSettled(r) \/ HasEntrusted(r)
    BY <1>5, FinalizesEffect DEF HasSettled, HasEntrusted
  <2> QED
    BY <2>1 DEF Effect
<1>6. ASSUME NEW r \in Run, TimesOut(r) PROVE Effect
  <2>1. HasExpired(r)
    BY <1>6, TimesOutEffect DEF HasExpired
  <2> QED
    BY <2>1 DEF Effect
<1>7. ASSUME NEW q \in Key, Lapses(q) \/ LapsesUnderHolder(q) \/ Heartbeat(q) PROVE Effect
  <2>1. HasRunOut(q) \/ IsRenewed(q)
    BY <1>7, LapsesEffect, HeartbeatEffect
  <2> QED
    BY <2>1 DEF Effect
<1>8. CASE UNCHANGED vars
  BY <1>8 DEF vars, procVars, targetVars, Same, Effect
<1> QED
  BY <1>1, <1>2, <1>3, <1>4, <1>5, <1>6, <1>7, <1>8 DEF Next, CancelStep

-----------------------------------------------------------------------------
LockStep(k) ==
  \/ Vanishes(k)
  \/ Stays(k)
  \/ Keeps(k) /\ locks[k].run # None
  \/ \E n \in Tokens, r \in Run : ~locks[k].live /\ New(k, n) /\ GoesTo(k, n, r)

SlotStep(r, k, n) == Has(r, k, n)' => Has(r, k, n) \/ GoesTo(k, n, r)

(* A lock that goes is nobody's, and one that stays or is granted is *)
(* somebody's.                                                       *)
LEMMA FreeLocksStep ==
  ASSUME FreeLocks, NEW k \in Key, LockStep(k)
  PROVE  /\ (locks[k].token = 0 <=> locks[k].run = None)'
         /\ (locks[k].run = None => ~locks[k].live /\ locks[k].left = "no")'
<1>1. CASE Vanishes(k)
  BY <1>1 DEF Vanishes
<1>2. CASE Stays(k)
  BY <1>2 DEF Stays, FreeLocks
<1>3. CASE Keeps(k) /\ locks[k].run # None
  BY <1>3 DEF Keeps, FreeLocks
<1>4. ASSUME NEW n \in Tokens, NEW r \in Run, GoesTo(k, n, r)
      PROVE  locks'[k].token # 0 /\ locks'[k].run # None
  BY <1>4, TokensAre, NoneAssumption DEF GoesTo
<1> QED
  BY <1>1, <1>2, <1>3, <1>4 DEF LockStep

(* Locks and what runs know of them change together. *)
LEMMA OwnedStep ==
  ASSUME FreeLocks, Owned, NEW r \in Run, NEW k \in Key, NEW n, LockStep(k),
         locks'[k].token = n, n # 0, Has(r, k, n)', SlotStep(r, k, n)
  PROVE  locks'[k].run = r
<1>1. Has(r, k, n) \/ GoesTo(k, n, r)
  BY DEF SlotStep
<1>2. CASE GoesTo(k, n, r)
  BY <1>2 DEF GoesTo
<1>3. CASE Has(r, k, n)
  <2>1. CASE Vanishes(k)
    BY <2>1 DEF Vanishes
  <2>2. CASE Stays(k) \/ Keeps(k)
    BY <1>3, <2>2 DEF Stays, Keeps, Owned
  <2>3. ASSUME NEW m \in Tokens, NEW q \in Run, New(k, m), GoesTo(k, m, q) PROVE FALSE
    BY <1>3, <2>3 DEF New, GoesTo
  <2> QED
    BY <2>1, <2>2, <2>3 DEF LockStep
<1> QED
  BY <1>1, <1>2, <1>3

(* A lock's token goes, stays or is a new one. *)
LEMMA TokenStep ==
  ASSUME NEW k, LockStep(k)
  PROVE  \/ locks'[k].token = 0 \/ locks'[k].token = locks[k].token
         \/ New(k, locks'[k].token)
  BY DEF LockStep, Vanishes, Stays, Keeps, GoesTo

(* What was replaced stays replaced. *)
LEMMA SupersededStep ==
  ASSUME Superseded, NEW r \in Run, NEW k \in Key, LockStep(k),
         listed'[r][k] = listed[r][k], listed[r][k] # 0,
         \/ proc[r] = "resuming" /\ k \in claim[r].retaken
         \/ New(k, locks'[k].token)
  PROVE  locks'[k].token # listed'[r][k]
<1>1. New(k, locks'[k].token) => locks'[k].token # listed[r][k]
  BY DEF New, Has
<1> QED
  BY <1>1, TokenStep DEF Superseded

(* Every step does one of four things to each lock. *)
LEMMA LocksStep ==
  ASSUME Typed, Keyed, FreeLocks, TargetsInStep, Effect
  PROVE  \A k \in Key : LockStep(k)
<1>1. ASSUME NEW t \in Target, Takes(t) PROVE \A k \in Key : LockStep(k)
  <2>1. key(t) \in Key /\ RunOf[t] \in Run
    BY KeyOf
  <2>2. LockStep(key(t))
    BY <1>1, <2>1 DEF Takes, LockStep, New
  <2>3. \A k \in Key \ {key(t)} : LockStep(k)
    BY <1>1 DEF Takes, LockStep
  <2> QED
    BY <2>2, <2>3
<1>2. ASSUME NEW r \in Run, NEW q \in Key, Retaking(r, q) PROVE \A k \in Key : LockStep(k)
  <2>1. LockStep(q)
    BY <1>2 DEF Retaking, LockStep, New
  <2>2. \A k \in Key \ {q} : LockStep(k)
    BY <1>2 DEF Retaking, LockStep
  <2> QED
    BY <2>1, <2>2
<1> USE KeyOf, TokensAre, NoneAssumption DEF LockStep, Stays, Vanishes, Keeps, Orphans, Revives,
   Fades, Gives, Gone, HasEnded, Settles, Entrusts, AllBut, FreeLocks
<1>3. ASSUME NEW t \in Target, HasReached(t) PROVE \A k \in Key : LockStep(k)
  BY <1>3 DEF HasReached
<1>4. ASSUME NEW t \in Target, IsCovered(t) PROVE \A k \in Key : LockStep(k)
  BY <1>4 DEF IsCovered
<1>5. ASSUME NEW t \in Target, Asks(t) PROVE \A k \in Key : LockStep(k)
  BY <1>5 DEF Asks
<1>6. ASSUME NEW t \in Target, IsRefused(t) PROVE \A k \in Key : LockStep(k)
  BY <1>6 DEF IsRefused
<1>7. ASSUME NEW t \in Target, HasRetried(t) PROVE \A k \in Key : LockStep(k)
  BY <1>7 DEF HasRetried
<1>8. ASSUME NEW t \in Target, GivesUp(t) PROVE \A k \in Key : LockStep(k)
  BY <1>8 DEF GivesUp
<1>9. ASSUME NEW t \in Target, IsRecorded(t) PROVE \A k \in Key : LockStep(k)
  BY <1>9 DEF IsRecorded
<1>10. ASSUME NEW t \in Target, IsUnrecorded(t) PROVE \A k \in Key : LockStep(k)
  BY <1>10 DEF IsUnrecorded
<1>11. ASSUME NEW t \in Target, IsOver(t) PROVE \A k \in Key : LockStep(k)
  BY <1>11 DEF IsOver
<1>12. ASSUME NEW r \in Run, HasSuspended(r) PROVE \A k \in Key : LockStep(k)
  BY <1>12 DEF HasSuspended
<1>13. ASSUME NEW r \in Run, HasFinished(r) PROVE \A k \in Key : LockStep(k)
  BY <1>13 DEF HasFinished
<1>14. ASSUME NEW r \in Run, HasParked(r) PROVE \A k \in Key : LockStep(k)
  BY <1>14 DEF HasParked
<1>15. ASSUME NEW r \in Run, HasReleased(r) PROVE \A k \in Key : LockStep(k)
  BY <1>15 DEF HasReleased
<1>16. ASSUME NEW r \in Run, HasDied(r) PROVE \A k \in Key : LockStep(k)
  BY <1>16 DEF HasDied
<1>17. ASSUME NEW r \in Run, HasLapsed(r) PROVE \A k \in Key : LockStep(k)
  BY <1>17 DEF HasLapsed
<1>18. ASSUME NEW r \in Run, IsHandedBack(r) PROVE \A k \in Key : LockStep(k)
  BY <1>18 DEF IsHandedBack
<1>19. ASSUME NEW r \in Run, IsResumed(r) PROVE \A k \in Key : LockStep(k)
  BY <1>19 DEF IsResumed
<1>20. ASSUME NEW r \in Run, NEW q \in Key, Renewing(r, q) PROVE \A k \in Key : LockStep(k)
  BY <1>20 DEF Renewing
<1>21. ASSUME NEW r \in Run, HasLeft(r) PROVE \A k \in Key : LockStep(k)
  BY <1>21 DEF HasLeft
<1>22. ASSUME NEW r \in Run, HasMoved(r) PROVE \A k \in Key : LockStep(k)
  BY <1>22 DEF HasMoved
<1>23. ASSUME NEW r \in Run, IsCancelled(r) PROVE \A k \in Key : LockStep(k)
  BY <1>23 DEF IsCancelled
<1>24. ASSUME NEW r \in Run, HasAsked(r) PROVE \A k \in Key : LockStep(k)
  BY <1>24 DEF HasAsked
<1>25. ASSUME NEW r \in Run, HasSettled(r) PROVE \A k \in Key : LockStep(k)
  BY <1>25 DEF HasSettled
<1>26. ASSUME NEW r \in Run, HasEntrusted(r) PROVE \A k \in Key : LockStep(k)
  BY <1>26 DEF HasEntrusted
<1>27. ASSUME NEW r \in Run, HasExpired(r) PROVE \A k \in Key : LockStep(k)
  BY <1>27 DEF HasExpired
<1>28. ASSUME NEW q \in Key, HasRunOut(q) PROVE \A k \in Key : LockStep(k)
  BY <1>28 DEF HasRunOut
<1>29. ASSUME NEW q \in Key, IsRenewed(q) PROVE \A k \in Key : LockStep(k)
  BY <1>29 DEF IsRenewed
<1>30. ASSUME Same PROVE \A k \in Key : LockStep(k)
  BY <1>30 DEF Same
<1> QED
  BY <1>1, <1>2, <1>3, <1>4, <1>5, <1>6, <1>7, <1>8, <1>9, <1>10, <1>11, <1>12, <1>13, <1>14,
     <1>15, <1>16, <1>17, <1>18, <1>19, <1>20, <1>21, <1>22, <1>23, <1>24, <1>25, <1>26, <1>27,
     <1>28, <1>29, <1>30 DEF Effect

(* A run learns a token only by being granted it. *)
LEMMA SlotsStep ==
  ASSUME Typed, Keyed, TargetsInStep, Effect
  PROVE  \A z \in Run, k \in Key, n \in Tokens : SlotStep(z, k, n)
<1> DEFINE Goal == \A z \in Run, k \in Key, n \in Tokens : SlotStep(z, k, n)
<1> USE KeyOf, TokensAre DEF SlotStep, Has, Others, OtherTargets, NoClaimLeft, HasEnded,
   Settles, Entrusts, TargetsOf, key, Advances
<1>1. ASSUME NEW t \in Target, HasReached(t) PROVE Goal
  BY <1>1 DEF HasReached
<1>2. ASSUME NEW t \in Target, IsCovered(t) PROVE Goal
  BY <1>2 DEF IsCovered
<1>3. ASSUME NEW t \in Target, Asks(t) PROVE Goal
  BY <1>3 DEF Asks
<1>4. ASSUME NEW t \in Target, Takes(t) PROVE Goal
  BY <1>4 DEF Takes
<1>5. ASSUME NEW t \in Target, IsRefused(t) PROVE Goal
  BY <1>5 DEF IsRefused
<1>6. ASSUME NEW t \in Target, HasRetried(t) PROVE Goal
  BY <1>6 DEF HasRetried
<1>7. ASSUME NEW t \in Target, GivesUp(t) PROVE Goal
  BY <1>7 DEF GivesUp
<1>8. ASSUME NEW t \in Target, IsRecorded(t) PROVE Goal
  BY <1>8 DEF IsRecorded
<1>9. ASSUME NEW t \in Target, IsUnrecorded(t) PROVE Goal
  BY <1>9 DEF IsUnrecorded
<1>10. ASSUME NEW t \in Target, IsOver(t) PROVE Goal
  BY <1>10 DEF IsOver
<1>11. ASSUME NEW r \in Run, HasSuspended(r) PROVE Goal
  BY <1>11 DEF HasSuspended
<1>12. ASSUME NEW r \in Run, HasFinished(r) PROVE Goal
  BY <1>12 DEF HasFinished
<1>13. ASSUME NEW r \in Run, HasParked(r) PROVE Goal
  BY <1>13 DEF HasParked
<1>14. ASSUME NEW r \in Run, HasReleased(r) PROVE Goal
  BY <1>14 DEF HasReleased
<1>15. ASSUME NEW r \in Run, HasDied(r) PROVE Goal
  BY <1>15 DEF HasDied
<1>16. ASSUME NEW r \in Run, HasLapsed(r) PROVE Goal
  BY <1>16 DEF HasLapsed
<1>17. ASSUME NEW r \in Run, IsHandedBack(r) PROVE Goal
  BY <1>17 DEF IsHandedBack
<1>18. ASSUME NEW r \in Run, IsResumed(r) PROVE Goal
  BY <1>18 DEF IsResumed
<1>19. ASSUME NEW r \in Run, NEW q \in Key, Renewing(r, q) PROVE Goal
  BY <1>19 DEF Renewing
<1>20. ASSUME NEW r \in Run, NEW q \in Key, Retaking(r, q) PROVE Goal
  BY <1>20 DEF Retaking
<1>21. ASSUME NEW r \in Run, HasLeft(r) PROVE Goal
  BY <1>21 DEF HasLeft
<1>22. ASSUME NEW r \in Run, HasMoved(r) PROVE Goal
  BY <1>22 DEF HasMoved
<1>23. ASSUME NEW r \in Run, IsCancelled(r) PROVE Goal
  BY <1>23 DEF IsCancelled
<1>24. ASSUME NEW r \in Run, HasAsked(r) PROVE Goal
  BY <1>24 DEF HasAsked
<1>25. ASSUME NEW r \in Run, HasSettled(r) PROVE Goal
  BY <1>25 DEF HasSettled
<1>26. ASSUME NEW r \in Run, HasEntrusted(r) PROVE Goal
  BY <1>26 DEF HasEntrusted
<1>27. ASSUME NEW r \in Run, HasExpired(r) PROVE Goal
  BY <1>27 DEF HasExpired
<1>28. ASSUME NEW q \in Key, HasRunOut(q) PROVE Goal
  BY <1>28 DEF HasRunOut
<1>29. ASSUME NEW q \in Key, IsRenewed(q) PROVE Goal
  BY <1>29 DEF IsRenewed
<1>30. ASSUME Same PROVE Goal
  BY <1>30 DEF Same
<1> QED
  BY <1>1, <1>2, <1>3, <1>4, <1>5, <1>6, <1>7, <1>8, <1>9, <1>10, <1>11, <1>12, <1>13, <1>14,
     <1>15, <1>16, <1>17, <1>18, <1>19, <1>20, <1>21, <1>22, <1>23, <1>24, <1>25, <1>26, <1>27,
     <1>28, <1>29, <1>30 DEF Effect

(* Targets stay in step with their processes and claims. *)
LEMMA TargetsInStepKept ==
  ASSUME Typed, Keyed, TargetsInStep, ClaimsInStep, Effect
  PROVE  TargetsInStep'
<1> USE KeyOf, NoneAssumption, TokensAre DEF TargetsInStep, ClaimsInStep, Claiming, InFlight,
   Asking, Alive, New, Others, OtherTargets, NoClaimLeft, HasEnded, Settles, Entrusts,
   TargetsOf, key, Advances, Uncancels
<1>1. ASSUME NEW t \in Target, HasReached(t) PROVE TargetsInStep'
  BY <1>1 DEF HasReached
<1>2. ASSUME NEW t \in Target, IsCovered(t) PROVE TargetsInStep'
  BY <1>2 DEF IsCovered
<1>3. ASSUME NEW t \in Target, Asks(t) PROVE TargetsInStep'
  BY <1>3 DEF Asks
<1>4. ASSUME NEW t \in Target, Takes(t) PROVE TargetsInStep'
  BY <1>4 DEF Takes
<1>5. ASSUME NEW t \in Target, IsRefused(t) PROVE TargetsInStep'
  BY <1>5 DEF IsRefused
<1>6. ASSUME NEW t \in Target, HasRetried(t) PROVE TargetsInStep'
  BY <1>6 DEF HasRetried
<1>7. ASSUME NEW t \in Target, GivesUp(t) PROVE TargetsInStep'
  BY <1>7 DEF GivesUp
<1>8. ASSUME NEW t \in Target, IsRecorded(t) PROVE TargetsInStep'
  BY <1>8 DEF IsRecorded
<1>9. ASSUME NEW t \in Target, IsUnrecorded(t) PROVE TargetsInStep'
  BY <1>9 DEF IsUnrecorded
<1>10. ASSUME NEW t \in Target, IsOver(t) PROVE TargetsInStep'
  BY <1>10 DEF IsOver
<1>11. ASSUME NEW r \in Run, HasSuspended(r) PROVE TargetsInStep'
  BY <1>11 DEF HasSuspended
<1>12. ASSUME NEW r \in Run, HasFinished(r) PROVE TargetsInStep'
  BY <1>12 DEF HasFinished
<1>13. ASSUME NEW r \in Run, HasParked(r) PROVE TargetsInStep'
  BY <1>13 DEF HasParked
<1>14. ASSUME NEW r \in Run, HasReleased(r) PROVE TargetsInStep'
  BY <1>14 DEF HasReleased
<1>15. ASSUME NEW r \in Run, HasDied(r) PROVE TargetsInStep'
  BY <1>15 DEF HasDied
<1>16. ASSUME NEW r \in Run, HasLapsed(r) PROVE TargetsInStep'
  BY <1>16 DEF HasLapsed
<1>17. ASSUME NEW r \in Run, IsHandedBack(r) PROVE TargetsInStep'
  BY <1>17 DEF IsHandedBack
<1>18. ASSUME NEW r \in Run, IsResumed(r) PROVE TargetsInStep'
  BY <1>18 DEF IsResumed
<1>19. ASSUME NEW r \in Run, NEW q \in Key, Renewing(r, q) PROVE TargetsInStep'
  BY <1>19 DEF Renewing
<1>20. ASSUME NEW r \in Run, NEW q \in Key, Retaking(r, q) PROVE TargetsInStep'
  BY <1>20 DEF Retaking
<1>21. ASSUME NEW r \in Run, HasLeft(r) PROVE TargetsInStep'
  BY <1>21 DEF HasLeft
<1>22. ASSUME NEW r \in Run, HasMoved(r) PROVE TargetsInStep'
  BY <1>22 DEF HasMoved
<1>23. ASSUME NEW r \in Run, IsCancelled(r) PROVE TargetsInStep'
  BY <1>23 DEF IsCancelled
<1>24. ASSUME NEW r \in Run, HasAsked(r) PROVE TargetsInStep'
  BY <1>24 DEF HasAsked
<1>25. ASSUME NEW r \in Run, HasSettled(r) PROVE TargetsInStep'
  BY <1>25 DEF HasSettled
<1>26. ASSUME NEW r \in Run, HasEntrusted(r) PROVE TargetsInStep'
  BY <1>26 DEF HasEntrusted
<1>27. ASSUME NEW r \in Run, HasExpired(r) PROVE TargetsInStep'
  BY <1>27 DEF HasExpired
<1>28. ASSUME NEW q \in Key, HasRunOut(q) PROVE TargetsInStep'
  BY <1>28 DEF HasRunOut
<1>29. ASSUME NEW q \in Key, IsRenewed(q) PROVE TargetsInStep'
  BY <1>29 DEF IsRenewed
<1>30. ASSUME Same PROVE TargetsInStep'
  BY <1>30 DEF Same
<1> QED
  BY <1>1, <1>2, <1>3, <1>4, <1>5, <1>6, <1>7, <1>8, <1>9, <1>10, <1>11, <1>12, <1>13, <1>14,
     <1>15, <1>16, <1>17, <1>18, <1>19, <1>20, <1>21, <1>22, <1>23, <1>24, <1>25, <1>26, <1>27,
     <1>28, <1>29, <1>30 DEF Effect

(* Registered claims stay in step with their targets. *)
LEMMA ClaimsInStepKept ==
  ASSUME Typed, Keyed, TargetsInStep, ClaimsInStep, RunsInStep, Effect
  PROVE  ClaimsInStep'
<1> USE KeyOf, NoneAssumption, TokensAre DEF TargetsInStep, ClaimsInStep, RunsInStep, Claiming,
   InFlight, Asking, Others, OtherTargets, NoClaimLeft, HasEnded, Settles, Entrusts, TargetsOf,
   key, Advances, Uncancels
<1>1. ASSUME NEW t \in Target, HasReached(t) PROVE ClaimsInStep'
  BY <1>1 DEF HasReached
<1>2. ASSUME NEW t \in Target, IsCovered(t) PROVE ClaimsInStep'
  BY <1>2 DEF IsCovered
<1>3. ASSUME NEW t \in Target, Asks(t) PROVE ClaimsInStep'
  BY <1>3 DEF Asks
<1>4. ASSUME NEW t \in Target, Takes(t) PROVE ClaimsInStep'
  BY <1>4 DEF Takes
<1>5. ASSUME NEW t \in Target, IsRefused(t) PROVE ClaimsInStep'
  BY <1>5 DEF IsRefused
<1>6. ASSUME NEW t \in Target, HasRetried(t) PROVE ClaimsInStep'
  BY <1>6 DEF HasRetried
<1>7. ASSUME NEW t \in Target, GivesUp(t) PROVE ClaimsInStep'
  BY <1>7 DEF GivesUp
<1>8. ASSUME NEW t \in Target, IsRecorded(t) PROVE ClaimsInStep'
  BY <1>8 DEF IsRecorded
<1>9. ASSUME NEW t \in Target, IsUnrecorded(t) PROVE ClaimsInStep'
  BY <1>9 DEF IsUnrecorded
<1>10. ASSUME NEW t \in Target, IsOver(t) PROVE ClaimsInStep'
  BY <1>10 DEF IsOver
<1>11. ASSUME NEW r \in Run, HasSuspended(r) PROVE ClaimsInStep'
  BY <1>11 DEF HasSuspended
<1>12. ASSUME NEW r \in Run, HasFinished(r) PROVE ClaimsInStep'
  BY <1>12 DEF HasFinished
<1>13. ASSUME NEW r \in Run, HasParked(r) PROVE ClaimsInStep'
  BY <1>13 DEF HasParked
<1>14. ASSUME NEW r \in Run, HasReleased(r) PROVE ClaimsInStep'
  BY <1>14 DEF HasReleased
<1>15. ASSUME NEW r \in Run, HasDied(r) PROVE ClaimsInStep'
  BY <1>15 DEF HasDied
<1>16. ASSUME NEW r \in Run, HasLapsed(r) PROVE ClaimsInStep'
  BY <1>16 DEF HasLapsed
<1>17. ASSUME NEW r \in Run, IsHandedBack(r) PROVE ClaimsInStep'
  BY <1>17 DEF IsHandedBack
<1>18. ASSUME NEW r \in Run, IsResumed(r) PROVE ClaimsInStep'
  BY <1>18 DEF IsResumed
<1>19. ASSUME NEW r \in Run, NEW q \in Key, Renewing(r, q) PROVE ClaimsInStep'
  BY <1>19 DEF Renewing
<1>20. ASSUME NEW r \in Run, NEW q \in Key, Retaking(r, q) PROVE ClaimsInStep'
  BY <1>20 DEF Retaking
<1>21. ASSUME NEW r \in Run, HasLeft(r) PROVE ClaimsInStep'
  BY <1>21 DEF HasLeft
<1>22. ASSUME NEW r \in Run, HasMoved(r) PROVE ClaimsInStep'
  BY <1>22 DEF HasMoved
<1>23. ASSUME NEW r \in Run, IsCancelled(r) PROVE ClaimsInStep'
  BY <1>23 DEF IsCancelled
<1>24. ASSUME NEW r \in Run, HasAsked(r) PROVE ClaimsInStep'
  BY <1>24 DEF HasAsked
<1>25. ASSUME NEW r \in Run, HasSettled(r) PROVE ClaimsInStep'
  BY <1>25 DEF HasSettled
<1>26. ASSUME NEW r \in Run, HasEntrusted(r) PROVE ClaimsInStep'
  BY <1>26 DEF HasEntrusted
<1>27. ASSUME NEW r \in Run, HasExpired(r) PROVE ClaimsInStep'
  BY <1>27 DEF HasExpired
<1>28. ASSUME NEW q \in Key, HasRunOut(q) PROVE ClaimsInStep'
  BY <1>28 DEF HasRunOut
<1>29. ASSUME NEW q \in Key, IsRenewed(q) PROVE ClaimsInStep'
  BY <1>29 DEF IsRenewed
<1>30. ASSUME Same PROVE ClaimsInStep'
  BY <1>30 DEF Same
<1> QED
  BY <1>1, <1>2, <1>3, <1>4, <1>5, <1>6, <1>7, <1>8, <1>9, <1>10, <1>11, <1>12, <1>13, <1>14,
     <1>15, <1>16, <1>17, <1>18, <1>19, <1>20, <1>21, <1>22, <1>23, <1>24, <1>25, <1>26, <1>27,
     <1>28, <1>29, <1>30 DEF Effect

(* Processes and cancellers stay in step with the status. *)
LEMMA RunsInStepKept ==
  ASSUME Typed, Keyed, TargetsInStep, RunsInStep, Effect
  PROVE  RunsInStep'
<1> USE KeyOf DEF TargetsInStep, RunsInStep, InFlight, Asking, Alive, Others, OtherTargets,
   NoClaimLeft, HasEnded, Settles, Entrusts, TargetsOf, key, Advances, Uncancels
<1>1. ASSUME NEW t \in Target, HasReached(t) PROVE RunsInStep'
  BY <1>1 DEF HasReached
<1>2. ASSUME NEW t \in Target, IsCovered(t) PROVE RunsInStep'
  BY <1>2 DEF IsCovered
<1>3. ASSUME NEW t \in Target, Asks(t) PROVE RunsInStep'
  BY <1>3 DEF Asks
<1>4. ASSUME NEW t \in Target, Takes(t) PROVE RunsInStep'
  BY <1>4 DEF Takes
<1>5. ASSUME NEW t \in Target, IsRefused(t) PROVE RunsInStep'
  BY <1>5 DEF IsRefused
<1>6. ASSUME NEW t \in Target, HasRetried(t) PROVE RunsInStep'
  BY <1>6 DEF HasRetried
<1>7. ASSUME NEW t \in Target, GivesUp(t) PROVE RunsInStep'
  BY <1>7 DEF GivesUp
<1>8. ASSUME NEW t \in Target, IsRecorded(t) PROVE RunsInStep'
  BY <1>8 DEF IsRecorded
<1>9. ASSUME NEW t \in Target, IsUnrecorded(t) PROVE RunsInStep'
  BY <1>9 DEF IsUnrecorded
<1>10. ASSUME NEW t \in Target, IsOver(t) PROVE RunsInStep'
  BY <1>10 DEF IsOver
<1>11. ASSUME NEW r \in Run, HasSuspended(r) PROVE RunsInStep'
  BY <1>11 DEF HasSuspended
<1>12. ASSUME NEW r \in Run, HasFinished(r) PROVE RunsInStep'
  BY <1>12 DEF HasFinished
<1>13. ASSUME NEW r \in Run, HasParked(r) PROVE RunsInStep'
  BY <1>13 DEF HasParked
<1>14. ASSUME NEW r \in Run, HasReleased(r) PROVE RunsInStep'
  BY <1>14 DEF HasReleased
<1>15. ASSUME NEW r \in Run, HasDied(r) PROVE RunsInStep'
  BY <1>15 DEF HasDied
<1>16. ASSUME NEW r \in Run, HasLapsed(r) PROVE RunsInStep'
  BY <1>16 DEF HasLapsed
<1>17. ASSUME NEW r \in Run, IsHandedBack(r) PROVE RunsInStep'
  BY <1>17 DEF IsHandedBack
<1>18. ASSUME NEW r \in Run, IsResumed(r) PROVE RunsInStep'
  BY <1>18 DEF IsResumed
<1>19. ASSUME NEW r \in Run, NEW q \in Key, Renewing(r, q) PROVE RunsInStep'
  BY <1>19 DEF Renewing
<1>20. ASSUME NEW r \in Run, NEW q \in Key, Retaking(r, q) PROVE RunsInStep'
  BY <1>20 DEF Retaking
<1>21. ASSUME NEW r \in Run, HasLeft(r) PROVE RunsInStep'
  BY <1>21 DEF HasLeft
<1>22. ASSUME NEW r \in Run, HasMoved(r) PROVE RunsInStep'
  BY <1>22 DEF HasMoved
<1>23. ASSUME NEW r \in Run, IsCancelled(r) PROVE RunsInStep'
  BY <1>23 DEF IsCancelled
<1>24. ASSUME NEW r \in Run, HasAsked(r) PROVE RunsInStep'
  BY <1>24 DEF HasAsked
<1>25. ASSUME NEW r \in Run, HasSettled(r) PROVE RunsInStep'
  BY <1>25 DEF HasSettled
<1>26. ASSUME NEW r \in Run, HasEntrusted(r) PROVE RunsInStep'
  BY <1>26 DEF HasEntrusted
<1>27. ASSUME NEW r \in Run, HasExpired(r) PROVE RunsInStep'
  BY <1>27 DEF HasExpired
<1>28. ASSUME NEW q \in Key, HasRunOut(q) PROVE RunsInStep'
  BY <1>28 DEF HasRunOut
<1>29. ASSUME NEW q \in Key, IsRenewed(q) PROVE RunsInStep'
  BY <1>29 DEF IsRenewed
<1>30. ASSUME Same PROVE RunsInStep'
  BY <1>30 DEF Same
<1> QED
  BY <1>1, <1>2, <1>3, <1>4, <1>5, <1>6, <1>7, <1>8, <1>9, <1>10, <1>11, <1>12, <1>13, <1>14,
     <1>15, <1>16, <1>17, <1>18, <1>19, <1>20, <1>21, <1>22, <1>23, <1>24, <1>25, <1>26, <1>27,
     <1>28, <1>29, <1>30 DEF Effect

(* No two learn the same token. *)
LEMMA DistinctKept ==
  ASSUME Typed, Keyed, TargetsInStep, ClaimsInStep, Distinct, Effect
  PROVE  Distinct'
<1> USE KeyOf, NoneAssumption, TokensAre DEF TargetsInStep, ClaimsInStep, Distinct, Claiming,
   InFlight, Asking, New, Has, Others, OtherTargets, NoClaimLeft, HasEnded, Settles, Entrusts,
   TargetsOf, key, Advances, Uncancels
<1>1. ASSUME NEW t \in Target, HasReached(t) PROVE Distinct'
  BY <1>1 DEF HasReached
<1>2. ASSUME NEW t \in Target, IsCovered(t) PROVE Distinct'
  BY <1>2 DEF IsCovered
<1>3. ASSUME NEW t \in Target, Asks(t) PROVE Distinct'
  BY <1>3 DEF Asks
<1>4. ASSUME NEW t \in Target, Takes(t) PROVE Distinct'
  BY <1>4 DEF Takes
<1>5. ASSUME NEW t \in Target, IsRefused(t) PROVE Distinct'
  BY <1>5 DEF IsRefused
<1>6. ASSUME NEW t \in Target, HasRetried(t) PROVE Distinct'
  BY <1>6 DEF HasRetried
<1>7. ASSUME NEW t \in Target, GivesUp(t) PROVE Distinct'
  BY <1>7 DEF GivesUp
<1>8. ASSUME NEW t \in Target, IsRecorded(t) PROVE Distinct'
  BY <1>8 DEF IsRecorded
<1>9. ASSUME NEW t \in Target, IsUnrecorded(t) PROVE Distinct'
  BY <1>9 DEF IsUnrecorded
<1>10. ASSUME NEW t \in Target, IsOver(t) PROVE Distinct'
  BY <1>10 DEF IsOver
<1>11. ASSUME NEW r \in Run, HasSuspended(r) PROVE Distinct'
  BY <1>11 DEF HasSuspended
<1>12. ASSUME NEW r \in Run, HasFinished(r) PROVE Distinct'
  BY <1>12 DEF HasFinished
<1>13. ASSUME NEW r \in Run, HasParked(r) PROVE Distinct'
  BY <1>13 DEF HasParked
<1>14. ASSUME NEW r \in Run, HasReleased(r) PROVE Distinct'
  BY <1>14 DEF HasReleased
<1>15. ASSUME NEW r \in Run, HasDied(r) PROVE Distinct'
  BY <1>15 DEF HasDied
<1>16. ASSUME NEW r \in Run, HasLapsed(r) PROVE Distinct'
  BY <1>16 DEF HasLapsed
<1>17. ASSUME NEW r \in Run, IsHandedBack(r) PROVE Distinct'
  BY <1>17 DEF IsHandedBack
<1>18. ASSUME NEW r \in Run, IsResumed(r) PROVE Distinct'
  BY <1>18 DEF IsResumed
<1>19. ASSUME NEW r \in Run, NEW q \in Key, Renewing(r, q) PROVE Distinct'
  BY <1>19 DEF Renewing
<1>20. ASSUME NEW r \in Run, NEW q \in Key, Retaking(r, q) PROVE Distinct'
  BY <1>20 DEF Retaking
<1>21. ASSUME NEW r \in Run, HasLeft(r) PROVE Distinct'
  BY <1>21 DEF HasLeft
<1>22. ASSUME NEW r \in Run, HasMoved(r) PROVE Distinct'
  BY <1>22 DEF HasMoved
<1>23. ASSUME NEW r \in Run, IsCancelled(r) PROVE Distinct'
  BY <1>23 DEF IsCancelled
<1>24. ASSUME NEW r \in Run, HasAsked(r) PROVE Distinct'
  BY <1>24 DEF HasAsked
<1>25. ASSUME NEW r \in Run, HasSettled(r) PROVE Distinct'
  BY <1>25 DEF HasSettled
<1>26. ASSUME NEW r \in Run, HasEntrusted(r) PROVE Distinct'
  BY <1>26 DEF HasEntrusted
<1>27. ASSUME NEW r \in Run, HasExpired(r) PROVE Distinct'
  BY <1>27 DEF HasExpired
<1>28. ASSUME NEW q \in Key, HasRunOut(q) PROVE Distinct'
  BY <1>28 DEF HasRunOut
<1>29. ASSUME NEW q \in Key, IsRenewed(q) PROVE Distinct'
  BY <1>29 DEF IsRenewed
<1>30. ASSUME Same PROVE Distinct'
  BY <1>30 DEF Same
<1> QED
  BY <1>1, <1>2, <1>3, <1>4, <1>5, <1>6, <1>7, <1>8, <1>9, <1>10, <1>11, <1>12, <1>13, <1>14,
     <1>15, <1>16, <1>17, <1>18, <1>19, <1>20, <1>21, <1>22, <1>23, <1>24, <1>25, <1>26, <1>27,
     <1>28, <1>29, <1>30 DEF Effect

(* A resume keeps account of what it re-claimed. *)
LEMMA ReclaimedKept ==
  ASSUME Typed, Keyed, TargetsInStep, RunsInStep, Reclaimed, Effect
  PROVE  Reclaimed'
<1> USE KeyOf, TokensAre DEF TargetsInStep, RunsInStep, Reclaimed, InFlight, Asking, New, Alive,
   Others, OtherTargets, NoClaimLeft, HasEnded, Settles, Entrusts, TargetsOf, key, Advances,
   Uncancels
<1>1. ASSUME NEW t \in Target, HasReached(t) PROVE Reclaimed'
  BY <1>1 DEF HasReached
<1>2. ASSUME NEW t \in Target, IsCovered(t) PROVE Reclaimed'
  BY <1>2 DEF IsCovered
<1>3. ASSUME NEW t \in Target, Asks(t) PROVE Reclaimed'
  BY <1>3 DEF Asks
<1>4. ASSUME NEW t \in Target, Takes(t) PROVE Reclaimed'
  BY <1>4 DEF Takes
<1>5. ASSUME NEW t \in Target, IsRefused(t) PROVE Reclaimed'
  BY <1>5 DEF IsRefused
<1>6. ASSUME NEW t \in Target, HasRetried(t) PROVE Reclaimed'
  BY <1>6 DEF HasRetried
<1>7. ASSUME NEW t \in Target, GivesUp(t) PROVE Reclaimed'
  BY <1>7 DEF GivesUp
<1>8. ASSUME NEW t \in Target, IsRecorded(t) PROVE Reclaimed'
  BY <1>8 DEF IsRecorded
<1>9. ASSUME NEW t \in Target, IsUnrecorded(t) PROVE Reclaimed'
  BY <1>9 DEF IsUnrecorded
<1>10. ASSUME NEW t \in Target, IsOver(t) PROVE Reclaimed'
  BY <1>10 DEF IsOver
<1>11. ASSUME NEW r \in Run, HasSuspended(r) PROVE Reclaimed'
  BY <1>11 DEF HasSuspended
<1>12. ASSUME NEW r \in Run, HasFinished(r) PROVE Reclaimed'
  BY <1>12 DEF HasFinished
<1>13. ASSUME NEW r \in Run, HasParked(r) PROVE Reclaimed'
  BY <1>13 DEF HasParked
<1>14. ASSUME NEW r \in Run, HasReleased(r) PROVE Reclaimed'
  BY <1>14 DEF HasReleased
<1>15. ASSUME NEW r \in Run, HasDied(r) PROVE Reclaimed'
  BY <1>15 DEF HasDied
<1>16. ASSUME NEW r \in Run, HasLapsed(r) PROVE Reclaimed'
  BY <1>16 DEF HasLapsed
<1>17. ASSUME NEW r \in Run, IsHandedBack(r) PROVE Reclaimed'
  BY <1>17 DEF IsHandedBack
<1>18. ASSUME NEW r \in Run, IsResumed(r) PROVE Reclaimed'
  BY <1>18 DEF IsResumed
<1>19. ASSUME NEW r \in Run, NEW q \in Key, Renewing(r, q) PROVE Reclaimed'
  BY <1>19 DEF Renewing
<1>20. ASSUME NEW r \in Run, NEW q \in Key, Retaking(r, q) PROVE Reclaimed'
  BY <1>20 DEF Retaking
<1>21. ASSUME NEW r \in Run, HasLeft(r) PROVE Reclaimed'
  BY <1>21 DEF HasLeft
<1>22. ASSUME NEW r \in Run, HasMoved(r) PROVE Reclaimed'
  BY <1>22 DEF HasMoved
<1>23. ASSUME NEW r \in Run, IsCancelled(r) PROVE Reclaimed'
  BY <1>23 DEF IsCancelled
<1>24. ASSUME NEW r \in Run, HasAsked(r) PROVE Reclaimed'
  BY <1>24 DEF HasAsked
<1>25. ASSUME NEW r \in Run, HasSettled(r) PROVE Reclaimed'
  BY <1>25 DEF HasSettled
<1>26. ASSUME NEW r \in Run, HasEntrusted(r) PROVE Reclaimed'
  BY <1>26 DEF HasEntrusted
<1>27. ASSUME NEW r \in Run, HasExpired(r) PROVE Reclaimed'
  BY <1>27 DEF HasExpired
<1>28. ASSUME NEW q \in Key, HasRunOut(q) PROVE Reclaimed'
  BY <1>28 DEF HasRunOut
<1>29. ASSUME NEW q \in Key, IsRenewed(q) PROVE Reclaimed'
  BY <1>29 DEF IsRenewed
<1>30. ASSUME Same PROVE Reclaimed'
  BY <1>30 DEF Same
<1> QED
  BY <1>1, <1>2, <1>3, <1>4, <1>5, <1>6, <1>7, <1>8, <1>9, <1>10, <1>11, <1>12, <1>13, <1>14,
     <1>15, <1>16, <1>17, <1>18, <1>19, <1>20, <1>21, <1>22, <1>23, <1>24, <1>25, <1>26, <1>27,
     <1>28, <1>29, <1>30 DEF Effect

(* A resume comes to a new lock only by taking it. *)
LEMMA RetakenStep ==
  ASSUME Typed, Keyed, TargetsInStep, RunsInStep, Effect
  PROVE  \A z \in Run, k \in Key :
           proc'[z] = "resuming" /\ k \in claim'[z].retaken /\ listed'[z][k] # 0 =>
             /\ listed'[z][k] = listed[z][k]
             /\ \/ proc[z] = "resuming" /\ k \in claim[z].retaken
                \/ New(k, locks'[k].token)
<1> DEFINE Goal == \A z \in Run, k \in Key :
             proc'[z] = "resuming" /\ k \in claim'[z].retaken /\ listed'[z][k] # 0 =>
               /\ listed'[z][k] = listed[z][k]
               /\ \/ proc[z] = "resuming" /\ k \in claim[z].retaken
                  \/ New(k, locks'[k].token)
<1> USE KeyOf DEF TargetsInStep, RunsInStep, InFlight, Asking, GoesTo, Others, OtherTargets,
   NoClaimLeft, HasEnded, Settles, Entrusts, TargetsOf, key, Advances, Uncancels
<1>1. ASSUME NEW t \in Target, HasReached(t) PROVE Goal
  BY <1>1 DEF HasReached
<1>2. ASSUME NEW t \in Target, IsCovered(t) PROVE Goal
  BY <1>2 DEF IsCovered
<1>3. ASSUME NEW t \in Target, Asks(t) PROVE Goal
  BY <1>3 DEF Asks
<1>4. ASSUME NEW t \in Target, Takes(t) PROVE Goal
  BY <1>4 DEF Takes
<1>5. ASSUME NEW t \in Target, IsRefused(t) PROVE Goal
  BY <1>5 DEF IsRefused
<1>6. ASSUME NEW t \in Target, HasRetried(t) PROVE Goal
  BY <1>6 DEF HasRetried
<1>7. ASSUME NEW t \in Target, GivesUp(t) PROVE Goal
  BY <1>7 DEF GivesUp
<1>8. ASSUME NEW t \in Target, IsRecorded(t) PROVE Goal
  BY <1>8 DEF IsRecorded
<1>9. ASSUME NEW t \in Target, IsUnrecorded(t) PROVE Goal
  BY <1>9 DEF IsUnrecorded
<1>10. ASSUME NEW t \in Target, IsOver(t) PROVE Goal
  BY <1>10 DEF IsOver
<1>11. ASSUME NEW r \in Run, HasSuspended(r) PROVE Goal
  BY <1>11 DEF HasSuspended
<1>12. ASSUME NEW r \in Run, HasFinished(r) PROVE Goal
  BY <1>12 DEF HasFinished
<1>13. ASSUME NEW r \in Run, HasParked(r) PROVE Goal
  BY <1>13 DEF HasParked
<1>14. ASSUME NEW r \in Run, HasReleased(r) PROVE Goal
  BY <1>14 DEF HasReleased
<1>15. ASSUME NEW r \in Run, HasDied(r) PROVE Goal
  BY <1>15 DEF HasDied
<1>16. ASSUME NEW r \in Run, HasLapsed(r) PROVE Goal
  BY <1>16 DEF HasLapsed
<1>17. ASSUME NEW r \in Run, IsHandedBack(r) PROVE Goal
  BY <1>17 DEF IsHandedBack
<1>18. ASSUME NEW r \in Run, IsResumed(r) PROVE Goal
  BY <1>18 DEF IsResumed
<1>19. ASSUME NEW r \in Run, NEW q \in Key, Renewing(r, q) PROVE Goal
  BY <1>19 DEF Renewing
<1>20. ASSUME NEW r \in Run, NEW q \in Key, Retaking(r, q) PROVE Goal
  BY <1>20 DEF Retaking
<1>21. ASSUME NEW r \in Run, HasLeft(r) PROVE Goal
  BY <1>21 DEF HasLeft
<1>22. ASSUME NEW r \in Run, HasMoved(r) PROVE Goal
  BY <1>22 DEF HasMoved
<1>23. ASSUME NEW r \in Run, IsCancelled(r) PROVE Goal
  BY <1>23 DEF IsCancelled
<1>24. ASSUME NEW r \in Run, HasAsked(r) PROVE Goal
  BY <1>24 DEF HasAsked
<1>25. ASSUME NEW r \in Run, HasSettled(r) PROVE Goal
  BY <1>25 DEF HasSettled
<1>26. ASSUME NEW r \in Run, HasEntrusted(r) PROVE Goal
  BY <1>26 DEF HasEntrusted
<1>27. ASSUME NEW r \in Run, HasExpired(r) PROVE Goal
  BY <1>27 DEF HasExpired
<1>28. ASSUME NEW q \in Key, HasRunOut(q) PROVE Goal
  BY <1>28 DEF HasRunOut
<1>29. ASSUME NEW q \in Key, IsRenewed(q) PROVE Goal
  BY <1>29 DEF IsRenewed
<1>30. ASSUME Same PROVE Goal
  BY <1>30 DEF Same
<1> QED
  BY <1>1, <1>2, <1>3, <1>4, <1>5, <1>6, <1>7, <1>8, <1>9, <1>10, <1>11, <1>12, <1>13, <1>14,
     <1>15, <1>16, <1>17, <1>18, <1>19, <1>20, <1>21, <1>22, <1>23, <1>24, <1>25, <1>26, <1>27,
     <1>28, <1>29, <1>30 DEF Effect

(* The record and the holder change together. *)
LEMMA ListedAreHeldKept ==
  ASSUME Typed, Keyed, TargetsInStep, ClaimsInStep, RunsInStep, ListedAreHeld, Effect
  PROVE  ListedAreHeld'
<1>1. ASSUME NEW t \in Target, IsUnrecorded(t) PROVE ListedAreHeld'
  <2> DEFINE k == key(t)
             r == RunOf[t]
  <2>1. k \in Key /\ r \in Run /\ pc[t] = "granted"
    BY <1>1, KeyOf DEF IsUnrecorded
  <2>2. held[r][k] = 0 /\ token[t] # 0
    <3>1. pending[r][k] = t /\ token[t] # 0
      BY <2>1 DEF TargetsInStep, Claiming
    <3> QED
      BY <2>1, <3>1, NoneAssumption DEF ClaimsInStep
  <2>3. \A z \in Run, kk \in Key :
          /\ locks'[kk].token \in {0, locks[kk].token}
          /\ (z # r \/ kk # k => listed'[z][kk] = listed[z][kk])
    BY <1>1, <2>1 DEF IsUnrecorded, Others, Gives, Stays, Vanishes, Orphans, Keeps
  <2>4. UNCHANGED <<held, proc, status>>
    BY <1>1 DEF IsUnrecorded
  <2>5. listed'[r][k] = listed[r][k] \/ locks'[k].token # listed'[r][k]
    <3>1. CASE Gone(k, token[t])
      BY <1>1, <2>1, <2>2, <3>1 DEF IsUnrecorded, Vanishes
    <3>2. CASE ~Gone(k, token[t])
      BY <1>1, <2>1, <2>2, <3>2 DEF IsUnrecorded, Gone, Gives, Stays
    <3> QED
      BY <3>1, <3>2
  <2> HIDE DEF k, r
  <2>6. ASSUME NEW z \in Run, NEW kk \in Key,
               proc[z] \in {"working", "parking", "settling"},
               listed'[z][kk] # 0, locks'[kk].token = listed'[z][kk]
        PROVE  held[z][kk] = listed'[z][kk]
    BY <2>1, <2>3, <2>5, <2>6 DEF ListedAreHeld
  <2>7. ASSUME NEW z \in Run, NEW kk \in Key,
               proc[z] \in {"working", "parking"}, status[z] # "ended", held[z][kk] # 0
        PROVE  listed'[z][kk] = held[z][kk]
    BY <2>1, <2>2, <2>3, <2>7 DEF ListedAreHeld
  <2> QED
    BY <2>4, <2>6, <2>7 DEF ListedAreHeld
<1> USE KeyOf, TokensAre DEF TargetsInStep, ClaimsInStep, RunsInStep, ListedAreHeld, InFlight,
   Asking, Claiming, Alive, New, Has, GoesTo, Stays, Vanishes, Keeps, Orphans, Revives, Fades,
   Gives, Gone, AllBut, Others, OtherTargets, NoClaimLeft, HasEnded, Settles, Entrusts,
   TargetsOf, key, Advances, Uncancels
<1>2. ASSUME NEW t \in Target, HasReached(t) PROVE ListedAreHeld'
  BY <1>2 DEF HasReached
<1>3. ASSUME NEW t \in Target, IsCovered(t) PROVE ListedAreHeld'
  BY <1>3 DEF IsCovered
<1>4. ASSUME NEW t \in Target, Asks(t) PROVE ListedAreHeld'
  BY <1>4 DEF Asks
<1>5. ASSUME NEW t \in Target, Takes(t) PROVE ListedAreHeld'
  BY <1>5 DEF Takes
<1>6. ASSUME NEW t \in Target, IsRefused(t) PROVE ListedAreHeld'
  BY <1>6 DEF IsRefused
<1>7. ASSUME NEW t \in Target, HasRetried(t) PROVE ListedAreHeld'
  BY <1>7 DEF HasRetried
<1>8. ASSUME NEW t \in Target, GivesUp(t) PROVE ListedAreHeld'
  BY <1>8 DEF GivesUp
<1>9. ASSUME NEW t \in Target, IsRecorded(t) PROVE ListedAreHeld'
  BY <1>9 DEF IsRecorded
<1>10. ASSUME NEW t \in Target, IsOver(t) PROVE ListedAreHeld'
  BY <1>10 DEF IsOver
<1>11. ASSUME NEW r \in Run, HasSuspended(r) PROVE ListedAreHeld'
  BY <1>11 DEF HasSuspended
<1>12. ASSUME NEW r \in Run, HasFinished(r) PROVE ListedAreHeld'
  BY <1>12 DEF HasFinished
<1>13. ASSUME NEW r \in Run, HasParked(r) PROVE ListedAreHeld'
  BY <1>13 DEF HasParked
<1>14. ASSUME NEW r \in Run, HasReleased(r) PROVE ListedAreHeld'
  BY <1>14 DEF HasReleased
<1>15. ASSUME NEW r \in Run, HasDied(r) PROVE ListedAreHeld'
  BY <1>15 DEF HasDied
<1>16. ASSUME NEW r \in Run, HasLapsed(r) PROVE ListedAreHeld'
  BY <1>16 DEF HasLapsed
<1>17. ASSUME NEW r \in Run, IsHandedBack(r) PROVE ListedAreHeld'
  BY <1>17 DEF IsHandedBack
<1>18. ASSUME NEW r \in Run, IsResumed(r) PROVE ListedAreHeld'
  BY <1>18 DEF IsResumed
<1>19. ASSUME NEW r \in Run, NEW q \in Key, Renewing(r, q) PROVE ListedAreHeld'
  BY <1>19 DEF Renewing
<1>20. ASSUME NEW r \in Run, NEW q \in Key, Retaking(r, q) PROVE ListedAreHeld'
  BY <1>20 DEF Retaking
<1>21. ASSUME NEW r \in Run, HasLeft(r) PROVE ListedAreHeld'
  BY <1>21 DEF HasLeft
<1>22. ASSUME NEW r \in Run, HasMoved(r) PROVE ListedAreHeld'
  BY <1>22 DEF HasMoved
<1>23. ASSUME NEW r \in Run, IsCancelled(r) PROVE ListedAreHeld'
  BY <1>23 DEF IsCancelled
<1>24. ASSUME NEW r \in Run, HasAsked(r) PROVE ListedAreHeld'
  BY <1>24 DEF HasAsked
<1>25. ASSUME NEW r \in Run, HasSettled(r) PROVE ListedAreHeld'
  BY <1>25 DEF HasSettled
<1>26. ASSUME NEW r \in Run, HasEntrusted(r) PROVE ListedAreHeld'
  BY <1>26 DEF HasEntrusted
<1>27. ASSUME NEW r \in Run, HasExpired(r) PROVE ListedAreHeld'
  BY <1>27 DEF HasExpired
<1>28. ASSUME NEW q \in Key, HasRunOut(q) PROVE ListedAreHeld'
  BY <1>28 DEF HasRunOut
<1>29. ASSUME NEW q \in Key, IsRenewed(q) PROVE ListedAreHeld'
  BY <1>29 DEF IsRenewed
<1>30. ASSUME Same PROVE ListedAreHeld'
  BY <1>30 DEF Same
<1> QED
  BY <1>1, <1>2, <1>3, <1>4, <1>5, <1>6, <1>7, <1>8, <1>9, <1>10, <1>11, <1>12, <1>13, <1>14,
     <1>15, <1>16, <1>17, <1>18, <1>19, <1>20, <1>21, <1>22, <1>23, <1>24, <1>25, <1>26, <1>27,
     <1>28, <1>29, <1>30 DEF Effect

(* Work that rests on a token it did not rest on before has just got it, *)
(* good.                                                                 *)
LEMMA NeedsStep ==
  ASSUME Typed, Keyed, TargetsInStep, RunsInStep, Owned, Effect
  PROVE  \A z \in Run, k \in Key, n \in Tokens :
           Needs(z, k, n)' => Needs(z, k, n) \/ Backs(k, n, z)'
<1> DEFINE Goal == \A z \in Run, k \in Key, n \in Tokens :
             Needs(z, k, n)' => Needs(z, k, n) \/ Backs(k, n, z)'
<1> USE KeyOf, TokensAre DEF Needs, Backs, Owned, Has, TargetsInStep, RunsInStep, InFlight,
   Asking, GoesTo, Gone, Keeps, Revives, Others, OtherTargets, NoClaimLeft, HasEnded, Settles,
   Entrusts, TargetsOf, key, Advances, Uncancels
<1>1. ASSUME NEW t \in Target, HasReached(t) PROVE Goal
  BY <1>1 DEF HasReached
<1>2. ASSUME NEW t \in Target, IsCovered(t) PROVE Goal
  BY <1>2 DEF IsCovered
<1>3. ASSUME NEW t \in Target, Asks(t) PROVE Goal
  BY <1>3 DEF Asks
<1>4. ASSUME NEW t \in Target, Takes(t) PROVE Goal
  BY <1>4 DEF Takes
<1>5. ASSUME NEW t \in Target, IsRefused(t) PROVE Goal
  BY <1>5 DEF IsRefused
<1>6. ASSUME NEW t \in Target, HasRetried(t) PROVE Goal
  BY <1>6 DEF HasRetried
<1>7. ASSUME NEW t \in Target, GivesUp(t) PROVE Goal
  BY <1>7 DEF GivesUp
<1>8. ASSUME NEW t \in Target, IsRecorded(t) PROVE Goal
  BY <1>8 DEF IsRecorded
<1>9. ASSUME NEW t \in Target, IsUnrecorded(t) PROVE Goal
  BY <1>9 DEF IsUnrecorded
<1>10. ASSUME NEW t \in Target, IsOver(t) PROVE Goal
  BY <1>10 DEF IsOver
<1>11. ASSUME NEW r \in Run, HasSuspended(r) PROVE Goal
  BY <1>11 DEF HasSuspended
<1>12. ASSUME NEW r \in Run, HasFinished(r) PROVE Goal
  BY <1>12 DEF HasFinished
<1>13. ASSUME NEW r \in Run, HasParked(r) PROVE Goal
  BY <1>13 DEF HasParked
<1>14. ASSUME NEW r \in Run, HasReleased(r) PROVE Goal
  BY <1>14 DEF HasReleased
<1>15. ASSUME NEW r \in Run, HasDied(r) PROVE Goal
  BY <1>15 DEF HasDied
<1>16. ASSUME NEW r \in Run, HasLapsed(r) PROVE Goal
  BY <1>16 DEF HasLapsed
<1>17. ASSUME NEW r \in Run, IsHandedBack(r) PROVE Goal
  BY <1>17 DEF IsHandedBack
<1>18. ASSUME NEW r \in Run, IsResumed(r) PROVE Goal
  BY <1>18 DEF IsResumed
<1>19. ASSUME NEW r \in Run, NEW q \in Key, Renewing(r, q) PROVE Goal
  BY <1>19 DEF Renewing
<1>20. ASSUME NEW r \in Run, NEW q \in Key, Retaking(r, q) PROVE Goal
  BY <1>20 DEF Retaking
<1>21. ASSUME NEW r \in Run, HasLeft(r) PROVE Goal
  BY <1>21 DEF HasLeft
<1>22. ASSUME NEW r \in Run, HasMoved(r) PROVE Goal
  BY <1>22 DEF HasMoved
<1>23. ASSUME NEW r \in Run, IsCancelled(r) PROVE Goal
  BY <1>23 DEF IsCancelled
<1>24. ASSUME NEW r \in Run, HasAsked(r) PROVE Goal
  BY <1>24 DEF HasAsked
<1>25. ASSUME NEW r \in Run, HasSettled(r) PROVE Goal
  BY <1>25 DEF HasSettled
<1>26. ASSUME NEW r \in Run, HasEntrusted(r) PROVE Goal
  BY <1>26 DEF HasEntrusted
<1>27. ASSUME NEW r \in Run, HasExpired(r) PROVE Goal
  BY <1>27 DEF HasExpired
<1>28. ASSUME NEW q \in Key, HasRunOut(q) PROVE Goal
  BY <1>28 DEF HasRunOut
<1>29. ASSUME NEW q \in Key, IsRenewed(q) PROVE Goal
  BY <1>29 DEF IsRenewed
<1>30. ASSUME Same PROVE Goal
  BY <1>30 DEF Same
<1> QED
  BY <1>1, <1>2, <1>3, <1>4, <1>5, <1>6, <1>7, <1>8, <1>9, <1>10, <1>11, <1>12, <1>13, <1>14,
     <1>15, <1>16, <1>17, <1>18, <1>19, <1>20, <1>21, <1>22, <1>23, <1>24, <1>25, <1>26, <1>27,
     <1>28, <1>29, <1>30 DEF Effect

(* While work rests on a token, the token stays good. *)
LEMMA BackingLasts ==
  ASSUME Typed, Keyed, TargetsInStep, RunsInStep, Owned, Distinct, Effect
  PROVE  \A z \in Run, k \in Key, n \in Tokens :
           Needs(z, k, n)' /\ Needs(z, k, n) /\ Backs(k, n, z) => Backs(k, n, z)'
<1> DEFINE Goal == \A z \in Run, k \in Key, n \in Tokens :
             Needs(z, k, n)' /\ Needs(z, k, n) /\ Backs(k, n, z) => Backs(k, n, z)'
<1>1. ASSUME NEW q \in Key, HasRunOut(q) PROVE Goal
  <2>1. \A z \in Run, k \in Key, n \in Tokens : Needs(z, k, n) => Hand(z, k, n)
    BY TokensAre DEF Needs, Hand, TargetsInStep, TargetsOf, InFlight, Asking, Alive
  <2>2. \A k \in Key \ {q} : Stays(k)
    BY <1>1 DEF HasRunOut, AllBut
  <2> SUFFICES ASSUME NEW z \in Run, NEW k \in Key, NEW n \in Tokens,
                      Needs(z, k, n), Backs(k, n, z)
               PROVE  Backs(k, n, z)'
    OBVIOUS
  <2>3. CASE <<k, n>> \in lapsed
    BY <1>1, <2>3 DEF HasRunOut, Backs
  <2>4. CASE locks[k].token = n /\ locks[k].live /\ locks[k].run = z
    <3>1. CASE k = q
      BY <1>1, <2>1, <2>4, <3>1, NoneAssumption DEF HasRunOut, Backs
    <3>2. CASE k # q
      BY <2>2, <2>4, <3>2 DEF Stays, Backs
    <3> QED
      BY <3>1, <3>2
  <2> QED
    BY <2>3, <2>4 DEF Backs
<1> USE KeyOf, TokensAre DEF Needs, Backs, Owned, Has, Distinct, TargetsInStep, RunsInStep,
   InFlight, Asking, Alive, GoesTo, Hand, Stays, Vanishes, Keeps, Orphans, Revives, Fades,
   Gives, Gone, AllBut, Others, OtherTargets, NoClaimLeft, HasEnded, Settles, Entrusts,
   TargetsOf, key, Advances, Uncancels
<1>2. ASSUME NEW t \in Target, HasReached(t) PROVE Goal
  BY <1>2 DEF HasReached
<1>3. ASSUME NEW t \in Target, IsCovered(t) PROVE Goal
  BY <1>3 DEF IsCovered
<1>4. ASSUME NEW t \in Target, Asks(t) PROVE Goal
  BY <1>4 DEF Asks
<1>5. ASSUME NEW t \in Target, Takes(t) PROVE Goal
  BY <1>5 DEF Takes
<1>6. ASSUME NEW t \in Target, IsRefused(t) PROVE Goal
  BY <1>6 DEF IsRefused
<1>7. ASSUME NEW t \in Target, HasRetried(t) PROVE Goal
  BY <1>7 DEF HasRetried
<1>8. ASSUME NEW t \in Target, GivesUp(t) PROVE Goal
  BY <1>8 DEF GivesUp
<1>9. ASSUME NEW t \in Target, IsRecorded(t) PROVE Goal
  BY <1>9 DEF IsRecorded
<1>10. ASSUME NEW t \in Target, IsUnrecorded(t) PROVE Goal
  BY <1>10 DEF IsUnrecorded
<1>11. ASSUME NEW t \in Target, IsOver(t) PROVE Goal
  BY <1>11 DEF IsOver
<1>12. ASSUME NEW r \in Run, HasSuspended(r) PROVE Goal
  BY <1>12 DEF HasSuspended
<1>13. ASSUME NEW r \in Run, HasFinished(r) PROVE Goal
  BY <1>13 DEF HasFinished
<1>14. ASSUME NEW r \in Run, HasParked(r) PROVE Goal
  BY <1>14 DEF HasParked
<1>15. ASSUME NEW r \in Run, HasReleased(r) PROVE Goal
  BY <1>15 DEF HasReleased
<1>16. ASSUME NEW r \in Run, HasDied(r) PROVE Goal
  BY <1>16 DEF HasDied
<1>17. ASSUME NEW r \in Run, HasLapsed(r) PROVE Goal
  BY <1>17 DEF HasLapsed
<1>18. ASSUME NEW r \in Run, IsHandedBack(r) PROVE Goal
  BY <1>18 DEF IsHandedBack
<1>19. ASSUME NEW r \in Run, IsResumed(r) PROVE Goal
  BY <1>19 DEF IsResumed
<1>20. ASSUME NEW r \in Run, NEW q \in Key, Renewing(r, q) PROVE Goal
  BY <1>20 DEF Renewing
<1>21. ASSUME NEW r \in Run, NEW q \in Key, Retaking(r, q) PROVE Goal
  BY <1>21 DEF Retaking
<1>22. ASSUME NEW r \in Run, HasLeft(r) PROVE Goal
  BY <1>22 DEF HasLeft
<1>23. ASSUME NEW r \in Run, HasMoved(r) PROVE Goal
  BY <1>23 DEF HasMoved
<1>24. ASSUME NEW r \in Run, IsCancelled(r) PROVE Goal
  BY <1>24 DEF IsCancelled
<1>25. ASSUME NEW r \in Run, HasAsked(r) PROVE Goal
  BY <1>25 DEF HasAsked
<1>26. ASSUME NEW r \in Run, HasSettled(r) PROVE Goal
  BY <1>26 DEF HasSettled
<1>27. ASSUME NEW r \in Run, HasEntrusted(r) PROVE Goal
  BY <1>27 DEF HasEntrusted
<1>28. ASSUME NEW r \in Run, HasExpired(r) PROVE Goal
  BY <1>28 DEF HasExpired
<1>29. ASSUME NEW q \in Key, IsRenewed(q) PROVE Goal
  BY <1>29 DEF IsRenewed
<1>30. ASSUME Same PROVE Goal
  BY <1>30 DEF Same
<1> QED
  BY <1>1, <1>2, <1>3, <1>4, <1>5, <1>6, <1>7, <1>8, <1>9, <1>10, <1>11, <1>12, <1>13, <1>14,
     <1>15, <1>16, <1>17, <1>18, <1>19, <1>20, <1>21, <1>22, <1>23, <1>24, <1>25, <1>26, <1>27,
     <1>28, <1>29, <1>30 DEF Effect

(* A lock that is not left to anybody was so before, or its run has just *)
(* come to know it.                                                      *)
LEMMA LeftStep ==
  ASSUME Typed, Keyed, TargetsInStep, FreeLocks, Owned, Effect
  PROVE  \A z \in Run, k \in Key :
           locks'[k].run = z /\ locks'[k].left = "no" =>
             \/ /\ locks'[k].token = locks[k].token
                /\ locks[k].run = z /\ locks[k].left = "no"
             \/ Knows(z, k, locks[k].token)'
<1> DEFINE Goal == \A z \in Run, k \in Key :
             locks'[k].run = z /\ locks'[k].left = "no" =>
               \/ /\ locks'[k].token = locks[k].token
                  /\ locks[k].run = z /\ locks[k].left = "no"
               \/ Knows(z, k, locks[k].token)'
<1> USE KeyOf, TokensAre, NoneAssumption DEF Knows, Hand, TargetsInStep, InFlight, Asking,
   Alive, Owned, Has, FreeLocks, GoesTo, Stays, Vanishes, Keeps, Orphans, Revives, Fades, Gives,
   Gone, AllBut, Others, OtherTargets, NoClaimLeft, HasEnded, Settles, Entrusts, TargetsOf, key,
   Advances, Uncancels
<1>1. ASSUME NEW t \in Target, HasReached(t) PROVE Goal
  BY <1>1 DEF HasReached
<1>2. ASSUME NEW t \in Target, IsCovered(t) PROVE Goal
  BY <1>2 DEF IsCovered
<1>3. ASSUME NEW t \in Target, Asks(t) PROVE Goal
  BY <1>3 DEF Asks
<1>4. ASSUME NEW t \in Target, Takes(t) PROVE Goal
  BY <1>4 DEF Takes
<1>5. ASSUME NEW t \in Target, IsRefused(t) PROVE Goal
  BY <1>5 DEF IsRefused
<1>6. ASSUME NEW t \in Target, HasRetried(t) PROVE Goal
  BY <1>6 DEF HasRetried
<1>7. ASSUME NEW t \in Target, GivesUp(t) PROVE Goal
  BY <1>7 DEF GivesUp
<1>8. ASSUME NEW t \in Target, IsRecorded(t) PROVE Goal
  BY <1>8 DEF IsRecorded
<1>9. ASSUME NEW t \in Target, IsUnrecorded(t) PROVE Goal
  BY <1>9 DEF IsUnrecorded
<1>10. ASSUME NEW t \in Target, IsOver(t) PROVE Goal
  BY <1>10 DEF IsOver
<1>11. ASSUME NEW r \in Run, HasSuspended(r) PROVE Goal
  BY <1>11 DEF HasSuspended
<1>12. ASSUME NEW r \in Run, HasFinished(r) PROVE Goal
  BY <1>12 DEF HasFinished
<1>13. ASSUME NEW r \in Run, HasParked(r) PROVE Goal
  BY <1>13 DEF HasParked
<1>14. ASSUME NEW r \in Run, HasReleased(r) PROVE Goal
  BY <1>14 DEF HasReleased
<1>15. ASSUME NEW r \in Run, HasDied(r) PROVE Goal
  BY <1>15 DEF HasDied
<1>16. ASSUME NEW r \in Run, HasLapsed(r) PROVE Goal
  BY <1>16 DEF HasLapsed
<1>17. ASSUME NEW r \in Run, IsHandedBack(r) PROVE Goal
  BY <1>17 DEF IsHandedBack
<1>18. ASSUME NEW r \in Run, IsResumed(r) PROVE Goal
  BY <1>18 DEF IsResumed
<1>19. ASSUME NEW r \in Run, NEW q \in Key, Renewing(r, q) PROVE Goal
  BY <1>19 DEF Renewing
<1>20. ASSUME NEW r \in Run, NEW q \in Key, Retaking(r, q) PROVE Goal
  BY <1>20 DEF Retaking
<1>21. ASSUME NEW r \in Run, HasLeft(r) PROVE Goal
  BY <1>21 DEF HasLeft
<1>22. ASSUME NEW r \in Run, HasMoved(r) PROVE Goal
  BY <1>22 DEF HasMoved
<1>23. ASSUME NEW r \in Run, IsCancelled(r) PROVE Goal
  BY <1>23 DEF IsCancelled
<1>24. ASSUME NEW r \in Run, HasAsked(r) PROVE Goal
  BY <1>24 DEF HasAsked
<1>25. ASSUME NEW r \in Run, HasSettled(r) PROVE Goal
  BY <1>25 DEF HasSettled
<1>26. ASSUME NEW r \in Run, HasEntrusted(r) PROVE Goal
  BY <1>26 DEF HasEntrusted
<1>27. ASSUME NEW r \in Run, HasExpired(r) PROVE Goal
  BY <1>27 DEF HasExpired
<1>28. ASSUME NEW q \in Key, HasRunOut(q) PROVE Goal
  BY <1>28 DEF HasRunOut
<1>29. ASSUME NEW q \in Key, IsRenewed(q) PROVE Goal
  BY <1>29 DEF IsRenewed
<1>30. ASSUME Same PROVE Goal
  BY <1>30 DEF Same
<1> QED
  BY <1>1, <1>2, <1>3, <1>4, <1>5, <1>6, <1>7, <1>8, <1>9, <1>10, <1>11, <1>12, <1>13, <1>14,
     <1>15, <1>16, <1>17, <1>18, <1>19, <1>20, <1>21, <1>22, <1>23, <1>24, <1>25, <1>26, <1>27,
     <1>28, <1>29, <1>30 DEF Effect

(* A run forgets the token of a lock only by giving the lock back or leaving *)
(* it to somebody.                                                           *)
LEMMA KnowsLasts ==
  ASSUME Typed, Keyed, TargetsInStep, ClaimsInStep, RunsInStep, FreeLocks, Reclaimed,
         Superseded, ListedAreHeld, Settled, Effect
  PROVE  \A z \in Run, k \in Key :
           /\ locks[k].run = z /\ locks[k].left = "no" /\ locks'[k].left = "no"
           /\ locks'[k].token = locks[k].token
           /\ Knows(z, k, locks[k].token)
           => Knows(z, k, locks[k].token)'
<1> DEFINE Goal == \A z \in Run, k \in Key :
             /\ locks[k].run = z /\ locks[k].left = "no" /\ locks'[k].left = "no"
             /\ locks'[k].token = locks[k].token
             /\ Knows(z, k, locks[k].token)
             => Knows(z, k, locks[k].token)'
<1> USE KeyOf, TokensAre, NoneAssumption DEF Knows, Hand, Keeper, FreeLocks, TargetsInStep,
   ClaimsInStep, RunsInStep, Reclaimed, Superseded, ListedAreHeld, Settled, InFlight, Asking,
   Alive, Claiming, Stays, Vanishes, Keeps, Orphans, Revives, Fades, Gives, Gone, AllBut,
   Others, OtherTargets, NoClaimLeft, HasEnded, Settles, Entrusts, TargetsOf, key, Advances,
   Uncancels
<1>1. ASSUME NEW t \in Target, HasReached(t) PROVE Goal
  BY <1>1 DEF HasReached
<1>2. ASSUME NEW t \in Target, IsCovered(t) PROVE Goal
  BY <1>2 DEF IsCovered
<1>3. ASSUME NEW t \in Target, Asks(t) PROVE Goal
  BY <1>3 DEF Asks
<1>4. ASSUME NEW t \in Target, Takes(t) PROVE Goal
  BY <1>4 DEF Takes
<1>5. ASSUME NEW t \in Target, IsRefused(t) PROVE Goal
  BY <1>5 DEF IsRefused
<1>6. ASSUME NEW t \in Target, HasRetried(t) PROVE Goal
  BY <1>6 DEF HasRetried
<1>7. ASSUME NEW t \in Target, GivesUp(t) PROVE Goal
  BY <1>7 DEF GivesUp
<1>8. ASSUME NEW t \in Target, IsRecorded(t) PROVE Goal
  BY <1>8 DEF IsRecorded
<1>9. ASSUME NEW t \in Target, IsUnrecorded(t) PROVE Goal
  BY <1>9 DEF IsUnrecorded
<1>10. ASSUME NEW t \in Target, IsOver(t) PROVE Goal
  BY <1>10 DEF IsOver
<1>11. ASSUME NEW r \in Run, HasSuspended(r) PROVE Goal
  BY <1>11 DEF HasSuspended
<1>12. ASSUME NEW r \in Run, HasFinished(r) PROVE Goal
  BY <1>12 DEF HasFinished
<1>13. ASSUME NEW r \in Run, HasParked(r) PROVE Goal
  BY <1>13 DEF HasParked
<1>14. ASSUME NEW r \in Run, HasReleased(r) PROVE Goal
  BY <1>14 DEF HasReleased
<1>15. ASSUME NEW r \in Run, HasDied(r) PROVE Goal
  BY <1>15 DEF HasDied
<1>16. ASSUME NEW r \in Run, HasLapsed(r) PROVE Goal
  BY <1>16 DEF HasLapsed
<1>17. ASSUME NEW r \in Run, IsHandedBack(r) PROVE Goal
  BY <1>17 DEF IsHandedBack
<1>18. ASSUME NEW r \in Run, IsResumed(r) PROVE Goal
  BY <1>18 DEF IsResumed
<1>19. ASSUME NEW r \in Run, NEW q \in Key, Renewing(r, q) PROVE Goal
  BY <1>19 DEF Renewing
<1>20. ASSUME NEW r \in Run, NEW q \in Key, Retaking(r, q) PROVE Goal
  BY <1>20 DEF Retaking
<1>21. ASSUME NEW r \in Run, HasLeft(r) PROVE Goal
  BY <1>21 DEF HasLeft
<1>22. ASSUME NEW r \in Run, HasMoved(r) PROVE Goal
  BY <1>22 DEF HasMoved
<1>23. ASSUME NEW r \in Run, IsCancelled(r) PROVE Goal
  BY <1>23 DEF IsCancelled
<1>24. ASSUME NEW r \in Run, HasAsked(r) PROVE Goal
  BY <1>24 DEF HasAsked
<1>25. ASSUME NEW r \in Run, HasSettled(r) PROVE Goal
  BY <1>25 DEF HasSettled
<1>26. ASSUME NEW r \in Run, HasEntrusted(r) PROVE Goal
  BY <1>26 DEF HasEntrusted
<1>27. ASSUME NEW r \in Run, HasExpired(r) PROVE Goal
  BY <1>27 DEF HasExpired
<1>28. ASSUME NEW q \in Key, HasRunOut(q) PROVE Goal
  BY <1>28 DEF HasRunOut
<1>29. ASSUME NEW q \in Key, IsRenewed(q) PROVE Goal
  BY <1>29 DEF IsRenewed
<1>30. ASSUME Same PROVE Goal
  BY <1>30 DEF Same
<1> QED
  BY <1>1, <1>2, <1>3, <1>4, <1>5, <1>6, <1>7, <1>8, <1>9, <1>10, <1>11, <1>12, <1>13, <1>14,
     <1>15, <1>16, <1>17, <1>18, <1>19, <1>20, <1>21, <1>22, <1>23, <1>24, <1>25, <1>26, <1>27,
     <1>28, <1>29, <1>30 DEF Effect

(* A lock is entrusted when its run ends. *)
LEMMA EntrustedStep ==
  ASSUME Typed, Keyed, FreeLocks, Owned, Settled, Effect
  PROVE  \A z \in Run, k \in Key :
           locks'[k].run = z /\ locks'[k].left = "entrusted" => status'[z] = "ended"
<1> DEFINE Goal == \A z \in Run, k \in Key :
             locks'[k].run = z /\ locks'[k].left = "entrusted" => status'[z] = "ended"
<1> USE KeyOf, TokensAre, NoneAssumption DEF Settled, Owned, Has, FreeLocks, GoesTo, Stays,
   Vanishes, Keeps, Orphans, Revives, Fades, Gives, Gone, AllBut, Others, OtherTargets,
   NoClaimLeft, HasEnded, Settles, Entrusts, TargetsOf, key, Advances, Uncancels
<1>1. ASSUME NEW t \in Target, HasReached(t) PROVE Goal
  BY <1>1 DEF HasReached
<1>2. ASSUME NEW t \in Target, IsCovered(t) PROVE Goal
  BY <1>2 DEF IsCovered
<1>3. ASSUME NEW t \in Target, Asks(t) PROVE Goal
  BY <1>3 DEF Asks
<1>4. ASSUME NEW t \in Target, Takes(t) PROVE Goal
  BY <1>4 DEF Takes
<1>5. ASSUME NEW t \in Target, IsRefused(t) PROVE Goal
  BY <1>5 DEF IsRefused
<1>6. ASSUME NEW t \in Target, HasRetried(t) PROVE Goal
  BY <1>6 DEF HasRetried
<1>7. ASSUME NEW t \in Target, GivesUp(t) PROVE Goal
  BY <1>7 DEF GivesUp
<1>8. ASSUME NEW t \in Target, IsRecorded(t) PROVE Goal
  BY <1>8 DEF IsRecorded
<1>9. ASSUME NEW t \in Target, IsUnrecorded(t) PROVE Goal
  BY <1>9 DEF IsUnrecorded
<1>10. ASSUME NEW t \in Target, IsOver(t) PROVE Goal
  BY <1>10 DEF IsOver
<1>11. ASSUME NEW r \in Run, HasSuspended(r) PROVE Goal
  BY <1>11 DEF HasSuspended
<1>12. ASSUME NEW r \in Run, HasFinished(r) PROVE Goal
  BY <1>12 DEF HasFinished
<1>13. ASSUME NEW r \in Run, HasParked(r) PROVE Goal
  BY <1>13 DEF HasParked
<1>14. ASSUME NEW r \in Run, HasReleased(r) PROVE Goal
  BY <1>14 DEF HasReleased
<1>15. ASSUME NEW r \in Run, HasDied(r) PROVE Goal
  BY <1>15 DEF HasDied
<1>16. ASSUME NEW r \in Run, HasLapsed(r) PROVE Goal
  BY <1>16 DEF HasLapsed
<1>17. ASSUME NEW r \in Run, IsHandedBack(r) PROVE Goal
  BY <1>17 DEF IsHandedBack
<1>18. ASSUME NEW r \in Run, IsResumed(r) PROVE Goal
  BY <1>18 DEF IsResumed
<1>19. ASSUME NEW r \in Run, NEW q \in Key, Renewing(r, q) PROVE Goal
  BY <1>19 DEF Renewing
<1>20. ASSUME NEW r \in Run, NEW q \in Key, Retaking(r, q) PROVE Goal
  BY <1>20 DEF Retaking
<1>21. ASSUME NEW r \in Run, HasLeft(r) PROVE Goal
  BY <1>21 DEF HasLeft
<1>22. ASSUME NEW r \in Run, HasMoved(r) PROVE Goal
  BY <1>22 DEF HasMoved
<1>23. ASSUME NEW r \in Run, IsCancelled(r) PROVE Goal
  BY <1>23 DEF IsCancelled
<1>24. ASSUME NEW r \in Run, HasAsked(r) PROVE Goal
  BY <1>24 DEF HasAsked
<1>25. ASSUME NEW r \in Run, HasSettled(r) PROVE Goal
  BY <1>25 DEF HasSettled
<1>26. ASSUME NEW r \in Run, HasEntrusted(r) PROVE Goal
  BY <1>26 DEF HasEntrusted
<1>27. ASSUME NEW r \in Run, HasExpired(r) PROVE Goal
  BY <1>27 DEF HasExpired
<1>28. ASSUME NEW q \in Key, HasRunOut(q) PROVE Goal
  BY <1>28 DEF HasRunOut
<1>29. ASSUME NEW q \in Key, IsRenewed(q) PROVE Goal
  BY <1>29 DEF IsRenewed
<1>30. ASSUME Same PROVE Goal
  BY <1>30 DEF Same
<1> QED
  BY <1>1, <1>2, <1>3, <1>4, <1>5, <1>6, <1>7, <1>8, <1>9, <1>10, <1>11, <1>12, <1>13, <1>14,
     <1>15, <1>16, <1>17, <1>18, <1>19, <1>20, <1>21, <1>22, <1>23, <1>24, <1>25, <1>26, <1>27,
     <1>28, <1>29, <1>30 DEF Effect

(* A run that has not ended knows its locks. *)
LEMMA KnowsUnended ==
  ASSUME Typed, Known, Settled, NEW r \in Run, NEW k \in Key,
         status[r] # "ended", locks[k].run = r, locks[k].left # "orphan"
  PROVE  Knows(r, k, locks[k].token)
<1>1. locks[k].left \in {"no", "entrusted", "orphan"}
  BY DEF Typed, Lock
<1> QED
  BY <1>1 DEF Settled, Known

(* Whoever ends a run gives its locks back or leaves them to a process that *)
(* will.                                                                    *)
LEMMA SettledStep ==
  ASSUME Typed, Keyed, TargetsInStep, RunsInStep, FreeLocks, Owned, Reclaimed, ListedAreHeld,
         Known, Settled, Effect
  PROVE  \A z \in Run, k \in Key :
           status'[z] = "ended" /\ locks'[k].run = z /\ locks'[k].left # "orphan" =>
             Keeper(z, k, locks[k].token)'
<1> DEFINE Goal == \A z \in Run, k \in Key :
             status'[z] = "ended" /\ locks'[k].run = z /\ locks'[k].left # "orphan" =>
               Keeper(z, k, locks[k].token)'
<1>1. ASSUME NEW r \in Run, HasFinished(r) PROVE Goal
  <2> SUFFICES ASSUME NEW z \in Run, NEW k \in Key,
                      status'[z] = "ended", locks'[k].run = z, locks'[k].left # "orphan"
               PROVE  Keeper(z, k, locks[k].token)'
    OBVIOUS
  <2>1. CASE status[z] = "ended"
    <3>1. locks[k].run = z /\ locks[k].left # "orphan" /\ locks'[k].token = locks[k].token
      BY <1>1, <2>1, NoneAssumption DEF HasFinished, RunsInStep, Owned, Has, Stays, Vanishes,
         Keeps, Orphans, Gives, Gone, HasEnded, Settles, Entrusts, Uncancels, TargetsOf, key
    <3>2. Keeper(z, k, locks[k].token)
      BY <2>1, <3>1 DEF Settled
    <3> QED
      BY <1>1, <2>1, <3>1, <3>2 DEF HasFinished, Keeper, RunsInStep, Stays, Vanishes, Keeps,
         Orphans, Gives, Gone, HasEnded, Settles, Entrusts, Uncancels, TargetsOf, key
  <2>2. CASE status[z] # "ended"
    <3>1. z = r /\ locks'[k].token = locks[k].token /\ locks[k].run = r
      BY <1>1, <2>2, NoneAssumption DEF HasFinished, Stays, Vanishes, Keeps, Orphans, Gives,
         Gone, HasEnded, Settles, Entrusts, Uncancels, TargetsOf, key
    <3>2. Knows(r, k, locks[k].token)
      <4>1. CASE locks[k].left # "orphan"
        BY <2>2, <3>1, <4>1, KnowsUnended
      <4>2. CASE locks[k].left = "orphan"
        BY <1>1, <2>2, <3>1, <4>2 DEF HasFinished, Knows, Stays, Vanishes, Keeps, Orphans,
           Gives, Gone, HasEnded, Settles, Entrusts, Uncancels, TargetsOf, key
      <4> QED
        BY <4>1, <4>2
    <3> QED
      BY <1>1, <2>2, <3>1, <3>2, KeyOf, NoneAssumption DEF HasFinished, Keeper, Knows, Hand,
         FreeLocks, TargetsInStep, RunsInStep, Reclaimed, ListedAreHeld, InFlight, Asking,
         Alive, Stays, Vanishes, Keeps, Orphans, Gives, Gone, HasEnded, Settles, Entrusts,
         Uncancels, TargetsOf, key
  <2> QED
    BY <2>1, <2>2
<1>2. ASSUME NEW r \in Run, HasSettled(r) PROVE Goal
  <2> SUFFICES ASSUME NEW z \in Run, NEW k \in Key,
                      status'[z] = "ended", locks'[k].run = z, locks'[k].left # "orphan"
               PROVE  Keeper(z, k, locks[k].token)'
    OBVIOUS
  <2>1. CASE status[z] = "ended"
    <3>1. locks[k].run = z /\ locks[k].left # "orphan" /\ locks'[k].token = locks[k].token
      BY <1>2, <2>1, NoneAssumption DEF HasSettled, RunsInStep, Owned, Has, Stays, Vanishes,
         Keeps, Orphans, Gives, Gone, HasEnded, Settles, Entrusts, Uncancels, TargetsOf, key
    <3>2. Keeper(z, k, locks[k].token)
      BY <2>1, <3>1 DEF Settled
    <3> QED
      BY <1>2, <2>1, <3>1, <3>2 DEF HasSettled, Keeper, RunsInStep, Stays, Vanishes, Keeps,
         Orphans, Gives, Gone, HasEnded, Settles, Entrusts, Uncancels, TargetsOf, key
  <2>2. CASE status[z] # "ended"
    <3>1. z = r /\ locks'[k].token = locks[k].token /\ locks[k].run = r
      BY <1>2, <2>2, NoneAssumption DEF HasSettled, Stays, Vanishes, Keeps, Orphans, Gives,
         Gone, HasEnded, Settles, Entrusts, Uncancels, TargetsOf, key
    <3>2. Knows(r, k, locks[k].token)
      <4>1. CASE locks[k].left # "orphan"
        BY <2>2, <3>1, <4>1, KnowsUnended
      <4>2. CASE locks[k].left = "orphan"
        BY <1>2, <2>2, <3>1, <4>2 DEF HasSettled, Knows, Stays, Vanishes, Keeps, Orphans, Gives,
           Gone, HasEnded, Settles, Entrusts, Uncancels, TargetsOf, key
      <4> QED
        BY <4>1, <4>2
    <3> QED
      BY <1>2, <2>2, <3>1, <3>2, KeyOf, NoneAssumption DEF HasSettled, Keeper, Knows, Hand,
         FreeLocks, TargetsInStep, RunsInStep, Reclaimed, ListedAreHeld, InFlight, Asking,
         Alive, Stays, Vanishes, Keeps, Orphans, Gives, Gone, HasEnded, Settles, Entrusts,
         Uncancels, TargetsOf, key
  <2> QED
    BY <2>1, <2>2
<1>3. ASSUME NEW r \in Run, HasEntrusted(r) PROVE Goal
  <2> SUFFICES ASSUME NEW z \in Run, NEW k \in Key,
                      status'[z] = "ended", locks'[k].run = z, locks'[k].left # "orphan"
               PROVE  Keeper(z, k, locks[k].token)'
    OBVIOUS
  <2>1. CASE status[z] = "ended"
    <3>1. locks[k].run = z /\ locks[k].left # "orphan" /\ locks'[k].token = locks[k].token
      BY <1>3, <2>1, NoneAssumption DEF HasEntrusted, RunsInStep, Owned, Has, Stays, Vanishes,
         Keeps, Orphans, Gives, Gone, HasEnded, Settles, Entrusts, Uncancels, TargetsOf, key
    <3>2. Keeper(z, k, locks[k].token)
      BY <2>1, <3>1 DEF Settled
    <3> QED
      BY <1>3, <2>1, <3>1, <3>2 DEF HasEntrusted, Keeper, RunsInStep, Stays, Vanishes, Keeps,
         Orphans, Gives, Gone, HasEnded, Settles, Entrusts, Uncancels, TargetsOf, key
  <2>2. CASE status[z] # "ended"
    <3>1. z = r /\ locks'[k].token = locks[k].token /\ locks[k].run = r
      BY <1>3, <2>2, NoneAssumption DEF HasEntrusted, Stays, Vanishes, Keeps, Orphans, Gives,
         Gone, HasEnded, Settles, Entrusts, Uncancels, TargetsOf, key
    <3>2. Knows(r, k, locks[k].token)
      <4>1. CASE locks[k].left # "orphan"
        BY <2>2, <3>1, <4>1, KnowsUnended
      <4>2. CASE locks[k].left = "orphan"
        BY <1>3, <2>2, <3>1, <4>2 DEF HasEntrusted, Knows, Stays, Vanishes, Keeps, Orphans,
           Gives, Gone, HasEnded, Settles, Entrusts, Uncancels, TargetsOf, key
      <4> QED
        BY <4>1, <4>2
    <3> QED
      BY <1>3, <2>2, <3>1, <3>2, KeyOf, NoneAssumption DEF HasEntrusted, Keeper, Knows, Hand,
         FreeLocks, TargetsInStep, RunsInStep, Reclaimed, ListedAreHeld, InFlight, Asking,
         Alive, Stays, Vanishes, Keeps, Orphans, Gives, Gone, HasEnded, Settles, Entrusts,
         Uncancels, TargetsOf, key
  <2> QED
    BY <2>1, <2>2
<1>4. ASSUME NEW r \in Run, HasExpired(r) PROVE Goal
  <2> SUFFICES ASSUME NEW z \in Run, NEW k \in Key,
                      status'[z] = "ended", locks'[k].run = z, locks'[k].left # "orphan"
               PROVE  Keeper(z, k, locks[k].token)'
    OBVIOUS
  <2>1. CASE status[z] = "ended"
    <3>1. locks[k].run = z /\ locks[k].left # "orphan" /\ locks'[k].token = locks[k].token
      BY <1>4, <2>1, NoneAssumption DEF HasExpired, RunsInStep, Owned, Has, Stays, Vanishes,
         Keeps, Orphans, Gives, Gone, HasEnded, Settles, Entrusts, Uncancels, TargetsOf, key
    <3>2. Keeper(z, k, locks[k].token)
      BY <2>1, <3>1 DEF Settled
    <3> QED
      BY <1>4, <2>1, <3>1, <3>2 DEF HasExpired, Keeper, RunsInStep, Stays, Vanishes, Keeps,
         Orphans, Gives, Gone, HasEnded, Settles, Entrusts, Uncancels, TargetsOf, key
  <2>2. CASE status[z] # "ended"
    <3>1. z = r /\ locks'[k].token = locks[k].token /\ locks[k].run = r
      BY <1>4, <2>2, NoneAssumption DEF HasExpired, Stays, Vanishes, Keeps, Orphans, Gives,
         Gone, HasEnded, Settles, Entrusts, Uncancels, TargetsOf, key
    <3>2. Knows(r, k, locks[k].token)
      <4>1. CASE locks[k].left # "orphan"
        BY <2>2, <3>1, <4>1, KnowsUnended
      <4>2. CASE locks[k].left = "orphan"
        BY <1>4, <2>2, <3>1, <4>2 DEF HasExpired, Knows, Stays, Vanishes, Keeps, Orphans, Gives,
           Gone, HasEnded, Settles, Entrusts, Uncancels, TargetsOf, key
      <4> QED
        BY <4>1, <4>2
    <3> QED
      BY <1>4, <2>2, <3>1, <3>2, KeyOf, NoneAssumption DEF HasExpired, Keeper, Knows, Hand,
         FreeLocks, TargetsInStep, RunsInStep, Reclaimed, ListedAreHeld, InFlight, Asking,
         Alive, Stays, Vanishes, Keeps, Orphans, Gives, Gone, HasEnded, Settles, Entrusts,
         Uncancels, TargetsOf, key
  <2> QED
    BY <2>1, <2>2
<1> USE KeyOf, TokensAre, NoneAssumption DEF Keeper, Knows, Hand, Owned, Has, FreeLocks,
   TargetsInStep, RunsInStep, Reclaimed, ListedAreHeld, Known, Settled, InFlight, Asking, Alive,
   GoesTo, Stays, Vanishes, Keeps, Orphans, Revives, Fades, Gives, Gone, AllBut, Others,
   OtherTargets, NoClaimLeft, HasEnded, Settles, Entrusts, TargetsOf, key, Advances, Uncancels
<1>5. ASSUME NEW t \in Target, HasReached(t) PROVE Goal
  BY <1>5 DEF HasReached
<1>6. ASSUME NEW t \in Target, IsCovered(t) PROVE Goal
  BY <1>6 DEF IsCovered
<1>7. ASSUME NEW t \in Target, Asks(t) PROVE Goal
  BY <1>7 DEF Asks
<1>8. ASSUME NEW t \in Target, Takes(t) PROVE Goal
  BY <1>8 DEF Takes
<1>9. ASSUME NEW t \in Target, IsRefused(t) PROVE Goal
  BY <1>9 DEF IsRefused
<1>10. ASSUME NEW t \in Target, HasRetried(t) PROVE Goal
  BY <1>10 DEF HasRetried
<1>11. ASSUME NEW t \in Target, GivesUp(t) PROVE Goal
  BY <1>11 DEF GivesUp
<1>12. ASSUME NEW t \in Target, IsRecorded(t) PROVE Goal
  BY <1>12 DEF IsRecorded
<1>13. ASSUME NEW t \in Target, IsUnrecorded(t) PROVE Goal
  BY <1>13 DEF IsUnrecorded
<1>14. ASSUME NEW t \in Target, IsOver(t) PROVE Goal
  BY <1>14 DEF IsOver
<1>15. ASSUME NEW r \in Run, HasSuspended(r) PROVE Goal
  BY <1>15 DEF HasSuspended
<1>16. ASSUME NEW r \in Run, HasParked(r) PROVE Goal
  BY <1>16 DEF HasParked
<1>17. ASSUME NEW r \in Run, HasReleased(r) PROVE Goal
  BY <1>17 DEF HasReleased
<1>18. ASSUME NEW r \in Run, HasDied(r) PROVE Goal
  BY <1>18 DEF HasDied
<1>19. ASSUME NEW r \in Run, HasLapsed(r) PROVE Goal
  BY <1>19 DEF HasLapsed
<1>20. ASSUME NEW r \in Run, IsHandedBack(r) PROVE Goal
  BY <1>20 DEF IsHandedBack
<1>21. ASSUME NEW r \in Run, IsResumed(r) PROVE Goal
  BY <1>21 DEF IsResumed
<1>22. ASSUME NEW r \in Run, NEW q \in Key, Renewing(r, q) PROVE Goal
  BY <1>22 DEF Renewing
<1>23. ASSUME NEW r \in Run, NEW q \in Key, Retaking(r, q) PROVE Goal
  BY <1>23 DEF Retaking
<1>24. ASSUME NEW r \in Run, HasLeft(r) PROVE Goal
  BY <1>24 DEF HasLeft
<1>25. ASSUME NEW r \in Run, HasMoved(r) PROVE Goal
  BY <1>25 DEF HasMoved
<1>26. ASSUME NEW r \in Run, IsCancelled(r) PROVE Goal
  BY <1>26 DEF IsCancelled
<1>27. ASSUME NEW r \in Run, HasAsked(r) PROVE Goal
  BY <1>27 DEF HasAsked
<1>28. ASSUME NEW q \in Key, HasRunOut(q) PROVE Goal
  BY <1>28 DEF HasRunOut
<1>29. ASSUME NEW q \in Key, IsRenewed(q) PROVE Goal
  BY <1>29 DEF IsRenewed
<1>30. ASSUME Same PROVE Goal
  BY <1>30 DEF Same
<1> QED
  BY <1>1, <1>2, <1>3, <1>4, <1>5, <1>6, <1>7, <1>8, <1>9, <1>10, <1>11, <1>12, <1>13, <1>14,
     <1>15, <1>16, <1>17, <1>18, <1>19, <1>20, <1>21, <1>22, <1>23, <1>24, <1>25, <1>26, <1>27,
     <1>28, <1>29, <1>30 DEF Effect

-----------------------------------------------------------------------------
(* Types. *)
LEMMA LockTyped ==
  ASSUME NEW l \in Lock
  PROVE  /\ Free \in Lock /\ Renewed(l) \in Lock
         /\ [l EXCEPT !.live = FALSE] \in Lock
         /\ \A p \in {"no", "entrusted", "orphan"} : [l EXCEPT !.left = p] \in Lock
         /\ \A n : Released(l, n) \in Lock /\ Abandoned(l, n) \in Lock
<1>1. Free \in Lock
  BY DEF Free, Lock
<1>2. Renewed(l) \in Lock /\ [l EXCEPT !.live = FALSE] \in Lock
  BY DEF Renewed, Lock
<1>3. ASSUME NEW p \in {"no", "entrusted", "orphan"} PROVE [l EXCEPT !.left = p] \in Lock
  BY <1>3 DEF Lock
<1>4. ASSUME NEW n PROVE Released(l, n) \in Lock /\ Abandoned(l, n) \in Lock
  BY <1>1, <1>3 DEF Released, Abandoned
<1> QED
  BY <1>1, <1>2, <1>3, <1>4

(* Locks given back are locks. *)
LEMMA GivenBackTyped == ASSUME Typed, NEW gone, GiveBack(gone) PROVE locks' \in [Key -> Lock]
<1>1. CASE locks' = [k \in Key |-> Released(locks[k], gone[k])]
  BY <1>1, LockTyped DEF Typed
<1>2. ASSUME NEW bad,
             locks' = [k \in Key |-> IF k = bad THEN Abandoned(locks[k], gone[k])
                                     ELSE Released(locks[k], gone[k])]
      PROVE  locks' \in [Key -> Lock]
  BY <1>2, LockTyped DEF Typed
<1> QED
  BY <1>1, <1>2 DEF GiveBack

(* Granted locks are locks. *)
LEMMA GrantTyped ==
  ASSUME Typed, Keyed, Counted, NEW k \in Key, NEW r \in Run
  PROVE  Fresh(k) \in Tokens /\ Granted(r, k, Fresh(k)) \in Lock
  BY FreshIsNew DEF New, Granted, Lock

(* Every step keeps the types. *)
LEMMA TypedKept == ASSUME Typed, Keyed, Counted, [Next]_vars PROVE Typed'
<1>1. ASSUME NEW t \in Target, Reach(t) PROVE Typed'
  BY <1>1 DEF Reach, Typed, procVars, PC, InFlight, Asking
<1>2. ASSUME NEW t \in Target, Check(t) PROVE Typed'
  <2>0. key(t) \in Key /\ RunOf[t] \in Run
    BY KeyOf
  <2>1. pc' \in [Target -> PC]
    <3>1. pc' = [pc EXCEPT ![t] = "body"] \/ pc' = [pc EXCEPT ![t] = "asking"]
      BY <1>2 DEF Check
    <3> QED
      BY <3>1 DEF Typed, PC, InFlight, Asking
  <2>2. pending' \in [Run -> [Key -> Target \cup {None}]]
    <3>1. CASE pending' = [pending EXCEPT ![RunOf[t]][key(t)] = t]
      BY <2>0, <3>1 DEF Typed
    <3>2. CASE pending' = pending
      BY <3>2 DEF Typed
    <3> QED
      BY <1>2, <3>1, <3>2 DEF Check
  <2> QED
    BY <1>2, <2>1, <2>2 DEF Check, Typed
<1>3. ASSUME NEW t \in Target, Try(t) PROVE Typed'
  <2>0. key(t) \in Key /\ RunOf[t] \in Run
    BY KeyOf
  <2>1. pc' \in [Target -> PC]
    BY <1>3 DEF Try, Typed, PC, InFlight, Asking
  <2>2. token' \in [Target -> Tokens \cup {0}]
    <3>1. CASE token' = [token EXCEPT ![t] = Fresh(key(t))]
      BY <2>0, <3>1, GrantTyped DEF Typed
    <3>2. CASE token' = token
      BY <3>2 DEF Typed
    <3> QED
      BY <1>3, <3>1, <3>2 DEF Try
  <2>3. locks' \in [Key -> Lock]
    <3>1. CASE locks' = [locks EXCEPT ![key(t)] = Granted(RunOf[t], key(t), Fresh(key(t)))]
      BY <2>0, <3>1, GrantTyped DEF Typed
    <3>2. CASE locks' = locks
      BY <3>2 DEF Typed
    <3> QED
      BY <1>3, <3>1, <3>2 DEF Try
  <2> QED
    BY <1>3, <2>1, <2>2, <2>3 DEF Try, Typed, procVars
<1>4. ASSUME NEW t \in Target, Retry(t) PROVE Typed'
  BY <1>4 DEF Retry, Typed, procVars, PC, InFlight, Asking
<1>5. ASSUME NEW t \in Target, Conflict(t) PROVE Typed'
  BY <1>5, KeyOf DEF Conflict, Typed, PC, InFlight, Asking
<1>6. ASSUME NEW t \in Target, Recorded(t) PROVE Typed'
  BY <1>6, KeyOf DEF Recorded, Typed, PC, InFlight, Asking
<1>7. ASSUME NEW t \in Target, Unrecorded(t) PROVE Typed'
  <2>1. locks' \in [Key -> Lock]
    <3>1. CASE GiveBack(Only(key(t), token[t]))
      BY <3>1, GivenBackTyped
    <3>2. CASE locks' = [locks EXCEPT ![key(t)] = Released(@, token[t])]
      BY <3>2, KeyOf, LockTyped DEF Typed
    <3> QED
      BY <1>7, <3>1, <3>2 DEF Unrecorded
  <2>2. listed' \in [Run -> [Key -> Tokens \cup {0}]]
    <3>0. key(t) \in Key /\ RunOf[t] \in Run
      BY KeyOf
    <3>1. CASE listed' = [listed EXCEPT ![RunOf[t]][key(t)] = token[t]]
      BY <3>0, <3>1 DEF Typed
    <3>2. CASE listed' = listed
      BY <3>2 DEF Typed
    <3> QED
      BY <1>7, <3>1, <3>2 DEF Unrecorded
  <2> QED
    BY <1>7, <2>1, <2>2, KeyOf DEF Unrecorded, Typed, PC, InFlight, Asking
<1>8. ASSUME NEW t \in Target, BodyEnds(t) PROVE Typed'
  <2>1. locks' \in [Key -> Lock]
    BY <1>8, GivenBackTyped DEF BodyEnds
  <2> QED
    BY <1>8, <2>1 DEF BodyEnds, Typed, PC, InFlight, Asking, procVars
<1>9. ASSUME NEW r \in Run, Notices(r) PROVE Typed'
  BY <1>9 DEF Notices, Typed, targetVars
<1>10. ASSUME NEW r \in Run, Suspends(r) PROVE Typed'
  BY <1>10 DEF Suspends, Typed, targetVars, Alive
<1>11. ASSUME NEW r \in Run, Parks(r) PROVE Typed'
  <2>1. locks' \in [Key -> Lock]
    BY <1>11, LockTyped DEF Parks, Typed
  <2> QED
    BY <1>11, <2>1 DEF Parks, Typed, NoTokens, targetVars, Alive
<1>12. ASSUME NEW r \in Run, Finishes(r) PROVE Typed'
  <2>1. /\ status' \in [Run -> {"running", "suspended", "cancelling", "ended"}]
        /\ listed' \in [Run -> [Key -> Tokens \cup {0}]]
    <3>1. CASE status[r] = "running"
      <4>1. /\ status' = [status EXCEPT ![r] = "ended"]
            /\ listed' = [listed EXCEPT ![r] = NoTokens]
        BY <1>12, <3>1 DEF Finishes
      <4>2. NoTokens \in [Key -> Tokens \cup {0}]
        BY DEF NoTokens
      <4> QED
        BY <4>1, <4>2 DEF Typed
    <3>2. CASE status[r] # "running"
      BY <1>12, <3>2 DEF Finishes, Typed
    <3> QED
      BY <3>1, <3>2
  <2> QED
    BY <1>12, <2>1 DEF Finishes, Typed, targetVars, Alive
<1>13. ASSUME NEW r \in Run, Releases(r) PROVE Typed'
  <2>1. locks' \in [Key -> Lock]
    BY <1>13, GivenBackTyped DEF Releases
  <2> QED
    BY <1>13, <2>1 DEF Releases, Typed, NoTokens, targetVars
<1>14. ASSUME NEW r \in Run, Dies(r) PROVE Typed'
  <2>1. locks' \in [Key -> Lock]
    BY <1>14, LockTyped DEF Dies, Typed
  <2> QED
    BY <1>14, <2>1 DEF Dies, Typed, NoTokens, NoClaim, PC
<1>15. ASSUME NEW r \in Run, LeaseLapses(r) PROVE Typed'
  BY <1>15 DEF LeaseLapses, Typed, targetVars
<1>16. ASSUME NEW r \in Run, HandsBack(r) PROVE Typed'
  BY <1>16 DEF HandsBack, Typed, procVars, targetVars
<1>17. ASSUME NEW r \in Run, Resumes(r) PROVE Typed'
  <2> DEFINE c == [todo |-> {k \in Key : listed[r][k] # 0}, got |-> listed[r], retaken |-> {}]
  <2>1. c \in [todo : SUBSET Key, got : [Key -> Tokens \cup {0}], retaken : SUBSET Key]
    BY DEF Typed
  <2>2. claim' = [claim EXCEPT ![r] = c] /\ proc' = [proc EXCEPT ![r] = "resuming"]
    BY <1>17 DEF Resumes
  <2> HIDE DEF c
  <2>3. claim' \in [Run -> [todo : SUBSET Key, got : [Key -> Tokens \cup {0}], retaken : SUBSET Key]]
    BY <2>1, <2>2 DEF Typed
  <2>4. proc' \in [Run -> Alive \cup {"none", "dead"}]
    BY <2>2 DEF Typed, Alive
  <2>5. UNCHANGED <<locks, status, listed, held, pending, pc, token, canc, lapsed>>
    BY <1>17 DEF Resumes, targetVars
  <2> QED
    BY <2>3, <2>4, <2>5 DEF Typed
<1>18. ASSUME NEW r \in Run, NEW k \in Key, Reclaims(r, k) PROVE Typed'
  <2>1. CASE Renews(k, claim[r].got[k])
    <3>1. /\ locks' = [locks EXCEPT ![k] = Renewed(locks[k])]
          /\ claim' = [claim EXCEPT ![r] = [claim[r] EXCEPT !.todo = @ \ {k}]]
      BY <1>18, <2>1 DEF Reclaims
    <3>2. locks' \in [Key -> Lock]
      BY <3>1, LockTyped DEF Typed
    <3>3. claim' \in [Run -> [todo : SUBSET Key, got : [Key -> Tokens \cup {0}], retaken : SUBSET Key]]
      BY <3>1 DEF Typed
    <3> QED
      BY <1>18, <3>2, <3>3 DEF Reclaims, Typed, targetVars
  <2>2. CASE ~Renews(k, claim[r].got[k])
    <3>1. /\ locks' = [locks EXCEPT ![k] = Granted(r, k, Fresh(k))]
          /\ claim' = [claim EXCEPT ![r] =
               [[claim[r] EXCEPT !.todo = @ \ {k}] EXCEPT !.got[k] = Fresh(k), !.retaken = @ \cup {k}]]
      BY <1>18, <2>2 DEF Reclaims
    <3>2. locks' \in [Key -> Lock]
      BY <3>1, GrantTyped DEF Typed
    <3>3. claim' \in [Run -> [todo : SUBSET Key, got : [Key -> Tokens \cup {0}], retaken : SUBSET Key]]
      <4> DEFINE C == [todo : SUBSET Key, got : [Key -> Tokens \cup {0}], retaken : SUBSET Key]
                 c == [[claim[r] EXCEPT !.todo = @ \ {k}] EXCEPT !.got[k] = Fresh(k), !.retaken = @ \cup {k}]
      <4>1. claim[r] \in C /\ Fresh(k) \in Tokens
        BY GrantTyped DEF Typed
      <4>2. c \in C
        <5> DEFINE d == [claim[r] EXCEPT !.todo = @ \ {k}]
        <5>1. d \in C /\ d.got \in [Key -> Tokens \cup {0}]
          BY <4>1
        <5>2. c = [d EXCEPT !.got = [d.got EXCEPT ![k] = Fresh(k)], !.retaken = d.retaken \cup {k}]
          OBVIOUS
        <5> HIDE DEF d
        <5> QED
          BY <4>1, <5>1, <5>2
      <4> HIDE DEF c, C
      <4>3. claim \in [Run -> C] /\ claim' = [claim EXCEPT ![r] = c]
        BY <3>1 DEF Typed, C, c
      <4>4. claim' \in [Run -> C]
        BY <4>2, <4>3
      <4> QED
        BY <4>4 DEF C
    <3> QED
      BY <1>18, <3>2, <3>3 DEF Reclaims, Typed, targetVars
  <2> QED
    BY <2>1, <2>2
<1>19. ASSUME NEW r \in Run, (\E k \in Key : Refused(r, k)) \/ ReclaimThrows(r) \/ LosesTheRun(r) PROVE Typed'
  <2>1. locks' \in [Key -> Lock]
    <3>1. CASE GiveBack(Retaken(r))
      BY <3>1, GivenBackTyped
    <3>2. CASE locks' = [k \in Key |-> Abandoned(locks[k], Retaken(r)[k])]
      BY <3>2, LockTyped DEF Typed
    <3> QED
      BY <1>19, <3>1, <3>2 DEF Refused, ReclaimThrows, LosesTheRun
  <2>2. LeavesResume(r)
    BY <1>19 DEF Refused, ReclaimThrows, LosesTheRun
  <2> QED
    BY <2>1, <2>2 DEF LeavesResume, Typed, NoClaim, NoTokens, targetVars
<1>20. ASSUME NEW r \in Run, MovesToRunning(r) PROVE Typed'
  <2>1. locks' \in [Key -> Lock]
    BY <1>20, LockTyped DEF MovesToRunning, Typed
  <2> QED
    BY <1>20, <2>1 DEF MovesToRunning, Typed, NoClaim, NoTokens, Listing, Alive, targetVars
<1>21. ASSUME NEW r \in Run, Cancels(r) PROVE Typed'
  BY <1>21 DEF Cancels, Typed, procVars, targetVars
<1>22. ASSUME NEW r \in Run, AsksForOwner(r) PROVE Typed'
  BY <1>22 DEF AsksForOwner, Typed, procVars, targetVars
<1>23. ASSUME NEW r \in Run, Finalizes(r) PROVE Typed'
  <2>1. locks' \in [Key -> Lock]
    <3>1. CASE GiveBack(listed[r])
      BY <3>1, GivenBackTyped
    <3>2. CASE locks' = [k \in Key |-> Entrusted(r, k)]
      BY <3>2, LockTyped DEF Entrusted, Typed
    <3> QED
      BY <1>23, <3>1, <3>2 DEF Finalizes
  <2> QED
    BY <1>23, <2>1 DEF Finalizes, Typed, NoTokens, procVars, targetVars
<1>24. ASSUME NEW r \in Run, TimesOut(r) PROVE Typed'
  <2>1. locks' \in [Key -> Lock]
    BY <1>24, GivenBackTyped DEF TimesOut
  <2> QED
    BY <1>24, <2>1 DEF TimesOut, Typed, NoTokens, procVars, targetVars
<1>25. ASSUME NEW k \in Key, Lapses(k) PROVE Typed'
  BY <1>25, LockTyped DEF Lapses, Typed, procVars, targetVars
<1>26. ASSUME NEW k \in Key, LapsesUnderHolder(k) PROVE Typed'
  <2>1. locks' \in [Key -> Lock]
    BY <1>26, LockTyped DEF LapsesUnderHolder, Typed
  <2>2. <<k, locks[k].token>> \in Key \X Tokens
    BY <1>26, NoneAssumption DEF LapsesUnderHolder, Tended, InHand, Typed, Lock
  <2> QED
    BY <1>26, <2>1, <2>2 DEF LapsesUnderHolder, Typed, procVars, targetVars
<1>27. ASSUME NEW k \in Key, Heartbeat(k) PROVE Typed'
  BY <1>27, LockTyped DEF Heartbeat, Typed, procVars, targetVars
<1>28. CASE UNCHANGED vars
  BY <1>28 DEF vars, procVars, targetVars, Typed
<1> QED
  BY <1>1, <1>2, <1>3, <1>4, <1>5, <1>6, <1>7, <1>8, <1>9, <1>10, <1>11, <1>12, <1>13, <1>14,
     <1>15, <1>16, <1>17, <1>18, <1>19, <1>20, <1>21, <1>22, <1>23, <1>24, <1>25, <1>26, <1>27,
     <1>28 DEF Next, TargetStep, Ends, ResumeStep, CancelStep

-----------------------------------------------------------------------------
(* The invariant. *)
Grounds == TargetsInStep /\ ClaimsInStep /\ RunsInStep

Ownership == FreeLocks /\ Owned /\ Distinct /\ Reclaimed /\ Superseded

Safety == Backed /\ ListedAreHeld /\ Known /\ Settled

Inv == Typed /\ Keyed /\ Counted /\ Grounds /\ Ownership /\ Safety

(* The invariant holds at the start. *)
LEMMA InitHolds == Init => Inv
<1> SUFFICES ASSUME Init PROVE Inv
  OBVIOUS
<1>1. Keyed
  BY DeclsAssumption DEF Init, Keyed
<1>2. Typed
  <2>1. NoTokens \in [Key -> Tokens \cup {0}]
    BY DEF NoTokens
  <2>2. NoClaim \in [todo : SUBSET Key, got : [Key -> Tokens \cup {0}], retaken : SUBSET Key]
    BY <2>1 DEF NoClaim
  <2>3. Free \in Lock
    BY DEF Free, Lock
  <2> QED
    BY <2>1, <2>2, <2>3 DEF Init, Typed, Alive, PC
<1>3. Counted
  BY FS_EmptySet, BoundsAssumption DEF Init, Counted
<1>4. Grounds
  BY KeyOf, <1>1 DEF Init, Grounds, TargetsInStep, ClaimsInStep, RunsInStep, NoTokens, NoClaim,
     InFlight, Asking, Claiming
<1>5. Ownership
  BY NoneAssumption DEF Init, Ownership, FreeLocks, Owned, Distinct, Reclaimed, Superseded, Free
<1>6. Safety
  <2>1. Backed
    BY KeyOf, <1>1, TokensAre DEF Init, Backed, Needs, NoTokens, TargetsOf
  <2>2. ListedAreHeld
    BY DEF Init, ListedAreHeld, NoTokens
  <2>3. Known /\ Settled
    BY NoneAssumption DEF Init, Known, Settled, Free
  <2> QED
    BY <2>1, <2>2, <2>3 DEF Safety
<1> QED
  BY <1>1, <1>2, <1>3, <1>4, <1>5, <1>6 DEF Inv

(* Each lapse under a live process uses up some of the bound. *)
LEMMA CountedKept == ASSUME Typed, Counted, [Next]_vars PROVE Counted'
<1>1. CASE UNCHANGED <<lapsed, troubles>>
  BY <1>1 DEF Counted
<1>2. CASE Trouble /\ UNCHANGED lapsed
  BY <1>2, FS_CardinalityType, BoundsAssumption DEF Counted, Trouble
<1>3. ASSUME NEW k \in Key, LapsesUnderHolder(k) PROVE Counted'
  <2>1. troubles < MaxTroubles /\ troubles' = troubles + 1
    BY <1>3 DEF LapsesUnderHolder, Trouble
  <2>2. lapsed' = lapsed \cup {<<k, locks[k].token>>}
    BY <1>3 DEF LapsesUnderHolder
  <2>3. IsFiniteSet(lapsed) /\ Cardinality(lapsed) \in Nat /\ Cardinality(lapsed) <= troubles
    BY FS_CardinalityType DEF Counted
  <2>4. IsFiniteSet(lapsed') /\ Cardinality(lapsed') <= Cardinality(lapsed) + 1
    <3>1. CASE <<k, locks[k].token>> \in lapsed
      <4>1. lapsed' = lapsed
        BY <2>2, <3>1
      <4> QED
        BY <2>3, <4>1
    <3>2. CASE <<k, locks[k].token>> \notin lapsed
      <4>1. Cardinality(lapsed') = Cardinality(lapsed) + 1 /\ IsFiniteSet(lapsed')
        BY <2>2, <2>3, <3>2, FS_AddElement
      <4> QED
        BY <2>3, <4>1
    <3> QED
      BY <3>1, <3>2
  <2>5. Cardinality(lapsed') \in Nat
    BY <2>4, FS_CardinalityType
  <2> QED
    BY <2>1, <2>3, <2>4, <2>5, BoundsAssumption DEF Counted
<1>4. \/ UNCHANGED <<lapsed, troubles>>
      \/ Trouble /\ UNCHANGED lapsed
      \/ \E k \in Key : LapsesUnderHolder(k)
  <2>1. ASSUME NEW gone, GiveBack(gone) PROVE Trouble \/ UNCHANGED troubles
    BY <2>1 DEF GiveBack, Fault, NoFault
  <2>2. ASSUME NEW t \in Target, Reach(t) \/ TargetStep(t)
        PROVE  UNCHANGED lapsed /\ (Trouble \/ UNCHANGED troubles)
    BY <2>1, <2>2 DEF TargetStep, Reach, Check, Try, Retry, Conflict, Recorded, Unrecorded,
       BodyEnds, Fault
  <2>3. ASSUME NEW r \in Run,
               \/ Notices(r) \/ Suspends(r) \/ Finishes(r) \/ Ends(r) \/ Dies(r) \/ LeaseLapses(r)
               \/ HandsBack(r) \/ Resumes(r) \/ Cancels(r) \/ AsksForOwner(r)
        PROVE  UNCHANGED lapsed /\ (Trouble \/ UNCHANGED troubles)
    BY <2>1, <2>3, SMTT(30) DEF Notices, Suspends, Finishes, Ends, Parks, Releases, Dies,
       LeaseLapses,
       HandsBack, Resumes, Cancels, AsksForOwner
  <2>4. ASSUME NEW r \in Run, ResumeStep(r) \/ Finalizes(r) \/ TimesOut(r)
        PROVE  UNCHANGED lapsed /\ (Trouble \/ UNCHANGED troubles)
    BY <2>1, <2>4 DEF ResumeStep, Reclaims, Refused, ReclaimThrows, MovesToRunning, LosesTheRun,
       LeavesResume, Finalizes, TimesOut, Fault, NoFault
  <2>5. ASSUME NEW k \in Key, Lapses(k) \/ Heartbeat(k) PROVE UNCHANGED <<lapsed, troubles>>
    BY <2>5 DEF Lapses, Heartbeat
  <2>6. CASE UNCHANGED vars
    BY <2>6 DEF vars
  <2> QED
    BY <2>2, <2>3, <2>4, <2>5, <2>6 DEF Next, CancelStep
<1> QED
  BY <1>1, <1>2, <1>3, <1>4

(* The declarations never change. *)
LEMMA DeclKept == ASSUME [Next]_vars PROVE UNCHANGED decl
<1>1. ASSUME NEW t \in Target, Reach(t) \/ TargetStep(t) PROVE UNCHANGED decl
  BY <1>1 DEF TargetStep, Reach, Check, Try, Retry, Conflict, Recorded, Unrecorded, BodyEnds
<1>2. ASSUME NEW r \in Run,
             \/ Notices(r) \/ Suspends(r) \/ Finishes(r) \/ Ends(r) \/ Dies(r) \/ LeaseLapses(r)
             \/ HandsBack(r) \/ Resumes(r) \/ Cancels(r) \/ AsksForOwner(r)
      PROVE  UNCHANGED decl
  BY <1>2, SMTT(30) DEF Notices, Suspends, Finishes, Ends, Parks, Releases, Dies, LeaseLapses,
     HandsBack, Resumes, Cancels, AsksForOwner
<1>3. ASSUME NEW r \in Run, ResumeStep(r) \/ Finalizes(r) \/ TimesOut(r) PROVE UNCHANGED decl
  BY <1>3 DEF ResumeStep, Reclaims, Refused, ReclaimThrows, MovesToRunning, LosesTheRun,
     LeavesResume, Finalizes, TimesOut
<1>4. ASSUME NEW k \in Key, Lapses(k) \/ LapsesUnderHolder(k) \/ Heartbeat(k)
      PROVE  UNCHANGED decl
  BY <1>4 DEF Lapses, LapsesUnderHolder, Heartbeat
<1>5. CASE UNCHANGED vars
  BY <1>5 DEF vars
<1> QED
  BY <1>1, <1>2, <1>3, <1>4, <1>5 DEF Next, CancelStep

(* Every step keeps the invariant. *)
LEMMA InvStep == ASSUME Inv, [Next]_vars PROVE Inv'
<1> USE DEF Inv, Grounds, Ownership, Safety
<1>1. Effect
  BY StepsHaveEffects
<1>2. Typed' /\ Counted'
  BY TypedKept, CountedKept
<1>4. Keyed'
  BY DeclKept DEF Keyed
<1>5. Grounds'
  BY <1>1, TargetsInStepKept, ClaimsInStepKept, RunsInStepKept
<1>6. \A k \in Key : LockStep(k)
  BY <1>1, LocksStep
<1>7. \A r \in Run, k \in Key, n \in Tokens : SlotStep(r, k, n)
  BY <1>1, SlotsStep
<1>8. FreeLocks'
  BY <1>6, FreeLocksStep DEF FreeLocks
<1>9. Owned'
  <2> SUFFICES ASSUME NEW r \in Run, NEW k \in Key,
                      locks'[k].token # 0, Has(r, k, locks[k].token)'
               PROVE  locks'[k].run = r
    BY DEF Owned
  <2>1. locks'[k].token \in Tokens
    BY <1>2 DEF Typed, Lock
  <2> QED
    BY <1>6, <1>7, <2>1, OwnedStep DEF Has
<1>10. Distinct' /\ Reclaimed'
  BY <1>1, DistinctKept, ReclaimedKept
<1>11. Superseded'
  <2>1. \A z \in Run, k \in Key :
           proc'[z] = "resuming" /\ k \in claim'[z].retaken /\ listed'[z][k] # 0 =>
             /\ listed'[z][k] = listed[z][k]
             /\ \/ proc[z] = "resuming" /\ k \in claim[z].retaken
                \/ New(k, locks'[k].token)
    BY <1>1, RetakenStep
  <2> QED
    BY <1>6, <2>1, SupersededStep DEF Superseded
<1>12. Backed'
  <2> SUFFICES ASSUME NEW z \in Run, NEW k \in Key, NEW n \in Tokens, Needs(z, k, n)'
               PROVE  Backs(k, n, z)'
    <3>1. \A z \in Run, k \in Key, n \in Tokens : Needs(z, k, n)' => Backs(k, n, z)'
      OBVIOUS
    <3>2. Tokens' = Tokens
      BY DEF Tokens
    <3> QED
      BY <3>1 DEF Backed
  <2>1. Needs(z, k, n) \/ Backs(k, n, z)'
    BY <1>1, NeedsStep
  <2>2. Needs(z, k, n) => Backs(k, n, z)
    BY DEF Backed
  <2> QED
    BY <1>1, <2>1, <2>2, BackingLasts
<1>13. ListedAreHeld'
  BY <1>1, ListedAreHeldKept
<1>14. Known'
  <2> SUFFICES ASSUME NEW z \in Run, NEW k \in Key, locks'[k].run = z, locks'[k].left = "no"
               PROVE  Knows(z, k, locks[k].token)'
    BY DEF Known
  <2>1. \/ /\ locks'[k].token = locks[k].token
           /\ locks[k].run = z /\ locks[k].left = "no"
        \/ Knows(z, k, locks[k].token)'
    BY <1>1, LeftStep
  <2>2. locks[k].run = z /\ locks[k].left = "no" => Knows(z, k, locks[k].token)
    BY DEF Known
  <2> QED
    BY <1>1, <2>1, <2>2, KnowsLasts
<1>15. Settled'
  <2>1. \A z \in Run, k \in Key :
           locks'[k].run = z /\ locks'[k].left = "entrusted" => status'[z] = "ended"
    BY <1>1, EntrustedStep
  <2>2. \A z \in Run, k \in Key :
           status'[z] = "ended" /\ locks'[k].run = z /\ locks'[k].left # "orphan" =>
             Keeper(z, k, locks[k].token)'
    BY <1>1, SettledStep
  <2> QED
    BY <2>1, <2>2 DEF Settled
<1> QED
  BY <1>2, <1>4, <1>5, <1>8, <1>9, <1>10, <1>11, <1>12, <1>13, <1>14, <1>15

(* The invariant holds in every state. *)
LEMMA Inductive == Spec => []Inv
  BY InitHolds, InvStep, PTL DEF Spec

-----------------------------------------------------------------------------
(* The signal of a run stays a Boolean. *)
LEMMA AbortedKept ==
  ASSUME aborted \in [Run -> BOOLEAN], [Next]_vars PROVE aborted' \in [Run -> BOOLEAN]
<1>1. ASSUME NEW t \in Target, Reach(t) \/ TargetStep(t) PROVE aborted' \in [Run -> BOOLEAN]
  BY <1>1 DEF TargetStep, Reach, Check, Try, Retry, Conflict, Recorded, Unrecorded, BodyEnds,
     procVars
<1>2. ASSUME NEW r \in Run,
             \/ Notices(r) \/ Suspends(r) \/ Finishes(r) \/ Ends(r) \/ Dies(r) \/ LeaseLapses(r)
             \/ HandsBack(r) \/ Resumes(r) \/ Cancels(r) \/ AsksForOwner(r)
      PROVE  aborted' \in [Run -> BOOLEAN]
  BY <1>2 DEF Notices, Suspends, Finishes, Ends, Parks, Releases, Dies, LeaseLapses,
     HandsBack, Resumes, Cancels, AsksForOwner, procVars
<1>3. ASSUME NEW r \in Run, ResumeStep(r) \/ Finalizes(r) \/ TimesOut(r)
      PROVE  aborted' \in [Run -> BOOLEAN]
  BY <1>3 DEF ResumeStep, Reclaims, Refused, ReclaimThrows, MovesToRunning, LosesTheRun,
     LeavesResume, Finalizes, TimesOut, procVars
<1>4. ASSUME NEW k \in Key, Lapses(k) \/ LapsesUnderHolder(k) \/ Heartbeat(k)
      PROVE  UNCHANGED aborted
  BY <1>4 DEF Lapses, LapsesUnderHolder, Heartbeat, procVars
<1>5. CASE UNCHANGED vars
  BY <1>5 DEF vars, procVars
<1> QED
  BY <1>1, <1>2, <1>3, <1>4, <1>5 DEF Next, CancelStep

(* A wait has no more retries left than its declaration gave it. *)
PollsBounded == polls \in [Target -> Nat] /\ \A t \in Target : polls[t] <= decl[t].polls

(* A retry uses one up; a process that starts again has them all. *)
LEMMA PollsKept == ASSUME Keyed, PollsBounded, [Next]_vars PROVE PollsBounded'
<1>1. ASSUME NEW t \in Target, Reach(t) \/ TargetStep(t) PROVE PollsBounded'
  <2>1. CASE UNCHANGED polls
    BY <2>1, DeclKept DEF PollsBounded
  <2>2. CASE Retry(t)
    BY <2>2 DEF PollsBounded, Retry, MayRetry, Keyed
  <2> QED
    BY <1>1, <2>1, <2>2 DEF TargetStep, Reach, Check, Try, Conflict, Recorded, Unrecorded,
       BodyEnds, targetVars
<1>2. ASSUME NEW r \in Run, Dies(r) PROVE PollsBounded'
  BY <1>2, SMTT(30) DEF PollsBounded, Dies, Keyed
<1>3. ASSUME NEW r \in Run,
             \/ Notices(r) \/ Suspends(r) \/ Finishes(r) \/ Ends(r) \/ LeaseLapses(r)
             \/ HandsBack(r) \/ Resumes(r) \/ Cancels(r) \/ AsksForOwner(r)
             \/ ResumeStep(r) \/ Finalizes(r) \/ TimesOut(r)
      PROVE  UNCHANGED polls
  BY <1>3 DEF Notices, Suspends, Finishes, Ends, Parks, Releases, LeaseLapses,
     HandsBack, Resumes, Cancels, AsksForOwner, ResumeStep, Reclaims, Refused, ReclaimThrows,
     MovesToRunning, LosesTheRun, LeavesResume, Finalizes, TimesOut, targetVars
<1>4. ASSUME NEW k \in Key, Lapses(k) \/ LapsesUnderHolder(k) \/ Heartbeat(k)
      PROVE  UNCHANGED polls
  BY <1>4 DEF Lapses, LapsesUnderHolder, Heartbeat, targetVars
<1>5. CASE UNCHANGED vars
  BY <1>5 DEF vars, targetVars, PollsBounded
<1>6. UNCHANGED polls => PollsBounded'
  BY DeclKept DEF PollsBounded
<1> QED
  BY <1>1, <1>2, <1>3, <1>4, <1>5, <1>6 DEF Next, CancelStep

(* The variables keep their types: the store's locks and the record's list, *)
(* the holder of run-held locks, and how far each target has come.          *)
THEOREM TypeCorrect == Spec => []TypeOK
<1> DEFINE Typing == Inv /\ TypeOK
<1>1. Init => Typing
  <2> SUFFICES ASSUME Init PROVE Typing
    OBVIOUS
  <2>1. PollsBounded
    BY DeclsAssumption DEF Init, PollsBounded
  <2>2. Inv
    BY InitHolds
  <2> QED
    BY <2>1, <2>2 DEF Init, TypeOK, Inv, Counted, PollsBounded
<1>2. Typing /\ [Next]_vars => Typing'
  <2> SUFFICES ASSUME Typing, [Next]_vars PROVE Typing'
    OBVIOUS
  <2>1. Inv'
    BY InvStep
  <2>2. Typed' /\ (troubles \in 0..MaxTroubles)'
    BY <2>1 DEF Inv, Counted
  <2>3. (aborted \in [Run -> BOOLEAN])'
    BY AbortedKept DEF TypeOK
  <2>4. PollsBounded'
    BY PollsKept DEF TypeOK, PollsBounded, Inv
  <2>5. (decl \in Decls)'
    BY DeclKept DEF TypeOK
  <2> QED
    BY <2>1, <2>2, <2>3, <2>4, <2>5 DEF TypeOK, PollsBounded
<1> QED
  BY <1>1, <1>2, PTL DEF Spec

(* A body runs under its run's lock. *)
LEMMA InvHeld == Inv => HeldWhileBodyRuns
<1> SUFFICES ASSUME Inv, NEW t \in Target, pc[t] = "body"
             PROVE  Backs(key(t), credential(t), RunOf[t])
  BY DEF HeldWhileBodyRuns, Backs
<1> USE DEF Inv, Grounds, Ownership, Safety
<1>1. key(t) \in Key /\ RunOf[t] \in Run
  BY KeyOf
<1>2. CASE token[t] # 0
  <2>1. token[t] \in Tokens
    BY <1>2 DEF Typed
  <2>2. Needs(RunOf[t], key(t), token[t])
    BY DEF Needs, TargetsOf
  <2> QED
    BY <1>1, <1>2, <2>1, <2>2 DEF Backed, credential
<1>3. CASE token[t] = 0
  <2>1. held[RunOf[t]][key(t)] # 0 /\ proc[RunOf[t]] = "working"
    BY <1>3 DEF TargetsInStep, InFlight
  <2>2. held[RunOf[t]][key(t)] \in Tokens
    BY <1>1, <2>1 DEF Typed
  <2>3. Needs(RunOf[t], key(t), held[RunOf[t]][key(t)])
    BY <2>1 DEF Needs
  <2> QED
    BY <1>1, <1>3, <2>2, <2>3 DEF Backed, credential
<1> QED
  BY <1>2, <1>3

(* The invariant says that every lock has somebody to give it back. *)
LEMMA InvForgotten == Inv => NoLockIsForgotten
<1> SUFFICES ASSUME Inv PROVE NoLockIsForgotten
  OBVIOUS
<1> USE DEF Inv, Grounds, Ownership, Safety
<1>1. ASSUME NEW k \in Key, locks[k].live, locks[k].left = "no"
      PROVE  locks[k].token \in {listed[locks[k].run][k]} \cup InHand(locks[k].run, k)
  <2> DEFINE r == locks[k].run
  <2>1. r \in Run /\ locks[k].token # 0
    BY <1>1 DEF FreeLocks, Typed, Lock
  <2>2. Knows(r, k, locks[k].token)
    BY <1>1, <2>1 DEF Known
  <2> HIDE DEF r
  <2>3. CASE locks[k].token = listed[r][k]
    BY <2>3 DEF r
  <2>4. CASE Hand(r, k, locks[k].token)
    <3>1. \/ locks[k].token \in {held[r][k], claim[r].got[k]}
          \/ locks[k].token \in {token[t] : t \in {u \in TargetsOf(r) : key(u) = k}}
      BY <2>4 DEF Hand
    <3> QED
      BY <2>1, <2>4, <3>1 DEF Hand, InHand, r
  <2> QED
    BY <2>2, <2>3, <2>4 DEF Knows, r
<1>2. ASSUME NEW r \in Run, NEW k \in Key,
             status[r] = "ended", proc[r] = "none", locks[k].run = r, locks[k].left # "orphan"
      PROVE  FALSE
  <2>1. Keeper(r, k, locks[k].token)
    BY <1>2 DEF Settled
  <2>2. locks[k].token # 0
    BY <1>2, NoneAssumption DEF FreeLocks
  <2>3. PICK t \in TargetsOf(r) : locks[k].token = token[t]
    BY <1>2, <2>1 DEF Keeper
  <2>4. proc[r] = "working"
    BY <2>2, <2>3 DEF TargetsInStep, InFlight, Asking, TargetsOf
  <2> QED
    BY <1>2, <2>4
<1> QED
  BY <1>1, <1>2 DEF NoLockIsForgotten, LiveLocksAreKnown, EndedRunsHoldNothing

(* The lock is exclusive while a body runs: the store has the key for the  *)
(* body's run, under the token it runs by, unless that lock lapsed under a *)
(* live process.                                                           *)
THEOREM BodiesAreExclusive == Spec => []HeldWhileBodyRuns
  BY Inductive, InvHeld, PTL

(* A lock that lives is known to the record or to its process, and a run *)
(* that has ended and has no process holds nothing but what a crash or a *)
(* failed release left to the TTL.                                       *)
THEOREM NothingIsForgotten == Spec => []NoLockIsForgotten
  BY Inductive, InvForgotten, PTL

(* A listed lock of a parked run stays in the store. *)
LEMMA ParkedLocksStay ==
  ASSUME Typed, Keyed, TargetsInStep, RunsInStep, FreeLocks, Owned, Distinct, Superseded, Effect
  PROVE  \A z \in Run, k \in Key :
           /\ status[z] = "suspended" /\ status'[z] = "suspended"
           /\ locks[k].live /\ locks[k].token = listed[z][k]
           => locks'[k].token = listed[z][k]
<1> DEFINE Goal == \A z \in Run, k \in Key :
             /\ status[z] = "suspended" /\ status'[z] = "suspended"
             /\ locks[k].live /\ locks[k].token = listed[z][k]
             => locks'[k].token = listed[z][k]
<1> USE KeyOf, TokensAre, NoneAssumption DEF Owned, Has, FreeLocks, Distinct, Superseded,
   TargetsInStep, RunsInStep, InFlight, Asking, GoesTo, Stays, Vanishes, Keeps, Orphans,
   Revives, Fades, Gives, Gone, AllBut, Others, OtherTargets, NoClaimLeft, HasEnded, Settles,
   Entrusts, TargetsOf, key, Advances, Uncancels
<1>1. ASSUME NEW t \in Target, HasReached(t) PROVE Goal
  BY <1>1 DEF HasReached
<1>2. ASSUME NEW t \in Target, IsCovered(t) PROVE Goal
  BY <1>2 DEF IsCovered
<1>3. ASSUME NEW t \in Target, Asks(t) PROVE Goal
  BY <1>3 DEF Asks
<1>4. ASSUME NEW t \in Target, Takes(t) PROVE Goal
  BY <1>4 DEF Takes
<1>5. ASSUME NEW t \in Target, IsRefused(t) PROVE Goal
  BY <1>5 DEF IsRefused
<1>6. ASSUME NEW t \in Target, HasRetried(t) PROVE Goal
  BY <1>6 DEF HasRetried
<1>7. ASSUME NEW t \in Target, GivesUp(t) PROVE Goal
  BY <1>7 DEF GivesUp
<1>8. ASSUME NEW t \in Target, IsRecorded(t) PROVE Goal
  BY <1>8 DEF IsRecorded
<1>9. ASSUME NEW t \in Target, IsUnrecorded(t) PROVE Goal
  BY <1>9 DEF IsUnrecorded
<1>10. ASSUME NEW t \in Target, IsOver(t) PROVE Goal
  BY <1>10 DEF IsOver
<1>11. ASSUME NEW r \in Run, HasSuspended(r) PROVE Goal
  BY <1>11 DEF HasSuspended
<1>12. ASSUME NEW r \in Run, HasFinished(r) PROVE Goal
  BY <1>12 DEF HasFinished
<1>13. ASSUME NEW r \in Run, HasParked(r) PROVE Goal
  BY <1>13 DEF HasParked
<1>14. ASSUME NEW r \in Run, HasReleased(r) PROVE Goal
  BY <1>14 DEF HasReleased
<1>15. ASSUME NEW r \in Run, HasDied(r) PROVE Goal
  BY <1>15 DEF HasDied
<1>16. ASSUME NEW r \in Run, HasLapsed(r) PROVE Goal
  BY <1>16 DEF HasLapsed
<1>17. ASSUME NEW r \in Run, IsHandedBack(r) PROVE Goal
  BY <1>17 DEF IsHandedBack
<1>18. ASSUME NEW r \in Run, IsResumed(r) PROVE Goal
  BY <1>18 DEF IsResumed
<1>19. ASSUME NEW r \in Run, NEW q \in Key, Renewing(r, q) PROVE Goal
  BY <1>19 DEF Renewing
<1>20. ASSUME NEW r \in Run, NEW q \in Key, Retaking(r, q) PROVE Goal
  BY <1>20 DEF Retaking
<1>21. ASSUME NEW r \in Run, HasLeft(r) PROVE Goal
  BY <1>21 DEF HasLeft
<1>22. ASSUME NEW r \in Run, HasMoved(r) PROVE Goal
  BY <1>22 DEF HasMoved
<1>23. ASSUME NEW r \in Run, IsCancelled(r) PROVE Goal
  BY <1>23 DEF IsCancelled
<1>24. ASSUME NEW r \in Run, HasAsked(r) PROVE Goal
  BY <1>24 DEF HasAsked
<1>25. ASSUME NEW r \in Run, HasSettled(r) PROVE Goal
  BY <1>25 DEF HasSettled
<1>26. ASSUME NEW r \in Run, HasEntrusted(r) PROVE Goal
  BY <1>26 DEF HasEntrusted
<1>27. ASSUME NEW r \in Run, HasExpired(r) PROVE Goal
  BY <1>27 DEF HasExpired
<1>28. ASSUME NEW q \in Key, HasRunOut(q) PROVE Goal
  BY <1>28 DEF HasRunOut
<1>29. ASSUME NEW q \in Key, IsRenewed(q) PROVE Goal
  BY <1>29 DEF IsRenewed
<1>30. ASSUME Same PROVE Goal
  BY <1>30 DEF Same
<1> QED
  BY <1>1, <1>2, <1>3, <1>4, <1>5, <1>6, <1>7, <1>8, <1>9, <1>10, <1>11, <1>12, <1>13, <1>14,
     <1>15, <1>16, <1>17, <1>18, <1>19, <1>20, <1>21, <1>22, <1>23, <1>24, <1>25, <1>26, <1>27,
     <1>28, <1>29, <1>30 DEF Effect

(* No claim is refused by a lock its own run holds or is taking. *)
LEMMA SiblingsShare ==
  ASSUME Typed, Keyed, TargetsInStep, ClaimsInStep, FreeLocks, Effect
  PROVE  \A v \in Target :
           pc[v] = "asking" /\ pc'[v] = "refused" /\ decl[v].holdForRun =>
             LET k == key(v) z == RunOf[v] IN
             /\ locks[k].token # held[z][k]
             /\ \A u \in TargetsOf(z) :
                  decl[u].holdForRun /\ key(u) = k => token[u] # locks[k].token
<1> DEFINE Goal == \A v \in Target :
             pc[v] = "asking" /\ pc'[v] = "refused" /\ decl[v].holdForRun =>
               LET k == key(v) z == RunOf[v] IN
               /\ locks[k].token # held[z][k]
               /\ \A u \in TargetsOf(z) :
                    decl[u].holdForRun /\ key(u) = k => token[u] # locks[k].token
<1> USE KeyOf, NoneAssumption DEF FreeLocks, TargetsInStep, ClaimsInStep, InFlight, Asking,
   Claiming, Others, OtherTargets, NoClaimLeft, HasEnded, Settles, Entrusts, TargetsOf, key,
   Advances, Uncancels
<1>1. ASSUME NEW t \in Target, HasReached(t) PROVE Goal
  BY <1>1 DEF HasReached
<1>2. ASSUME NEW t \in Target, IsCovered(t) PROVE Goal
  BY <1>2 DEF IsCovered
<1>3. ASSUME NEW t \in Target, Asks(t) PROVE Goal
  BY <1>3 DEF Asks
<1>4. ASSUME NEW t \in Target, Takes(t) PROVE Goal
  BY <1>4 DEF Takes
<1>5. ASSUME NEW t \in Target, IsRefused(t) PROVE Goal
  BY <1>5 DEF IsRefused
<1>6. ASSUME NEW t \in Target, HasRetried(t) PROVE Goal
  BY <1>6 DEF HasRetried
<1>7. ASSUME NEW t \in Target, GivesUp(t) PROVE Goal
  BY <1>7 DEF GivesUp
<1>8. ASSUME NEW t \in Target, IsRecorded(t) PROVE Goal
  BY <1>8 DEF IsRecorded
<1>9. ASSUME NEW t \in Target, IsUnrecorded(t) PROVE Goal
  BY <1>9 DEF IsUnrecorded
<1>10. ASSUME NEW t \in Target, IsOver(t) PROVE Goal
  BY <1>10 DEF IsOver
<1>11. ASSUME NEW r \in Run, HasSuspended(r) PROVE Goal
  BY <1>11 DEF HasSuspended
<1>12. ASSUME NEW r \in Run, HasFinished(r) PROVE Goal
  BY <1>12 DEF HasFinished
<1>13. ASSUME NEW r \in Run, HasParked(r) PROVE Goal
  BY <1>13 DEF HasParked
<1>14. ASSUME NEW r \in Run, HasReleased(r) PROVE Goal
  BY <1>14 DEF HasReleased
<1>15. ASSUME NEW r \in Run, HasDied(r) PROVE Goal
  BY <1>15 DEF HasDied
<1>16. ASSUME NEW r \in Run, HasLapsed(r) PROVE Goal
  BY <1>16 DEF HasLapsed
<1>17. ASSUME NEW r \in Run, IsHandedBack(r) PROVE Goal
  BY <1>17 DEF IsHandedBack
<1>18. ASSUME NEW r \in Run, IsResumed(r) PROVE Goal
  BY <1>18 DEF IsResumed
<1>19. ASSUME NEW r \in Run, NEW q \in Key, Renewing(r, q) PROVE Goal
  BY <1>19 DEF Renewing
<1>20. ASSUME NEW r \in Run, NEW q \in Key, Retaking(r, q) PROVE Goal
  BY <1>20 DEF Retaking
<1>21. ASSUME NEW r \in Run, HasLeft(r) PROVE Goal
  BY <1>21 DEF HasLeft
<1>22. ASSUME NEW r \in Run, HasMoved(r) PROVE Goal
  BY <1>22 DEF HasMoved
<1>23. ASSUME NEW r \in Run, IsCancelled(r) PROVE Goal
  BY <1>23 DEF IsCancelled
<1>24. ASSUME NEW r \in Run, HasAsked(r) PROVE Goal
  BY <1>24 DEF HasAsked
<1>25. ASSUME NEW r \in Run, HasSettled(r) PROVE Goal
  BY <1>25 DEF HasSettled
<1>26. ASSUME NEW r \in Run, HasEntrusted(r) PROVE Goal
  BY <1>26 DEF HasEntrusted
<1>27. ASSUME NEW r \in Run, HasExpired(r) PROVE Goal
  BY <1>27 DEF HasExpired
<1>28. ASSUME NEW q \in Key, HasRunOut(q) PROVE Goal
  BY <1>28 DEF HasRunOut
<1>29. ASSUME NEW q \in Key, IsRenewed(q) PROVE Goal
  BY <1>29 DEF IsRenewed
<1>30. ASSUME Same PROVE Goal
  BY <1>30 DEF Same
<1> QED
  BY <1>1, <1>2, <1>3, <1>4, <1>5, <1>6, <1>7, <1>8, <1>9, <1>10, <1>11, <1>12, <1>13, <1>14,
     <1>15, <1>16, <1>17, <1>18, <1>19, <1>20, <1>21, <1>22, <1>23, <1>24, <1>25, <1>26, <1>27,
     <1>28, <1>29, <1>30 DEF Effect

(* What a run holds for itself serves the whole run: the record lists it,    *)
(* what it lists of a parked run stays in the store, and siblings that claim *)
(* one key share it.                                                         *)
THEOREM RunsShareTheirLocks == Spec => RunHeldLocksServeTheRun
<1>1. Inv /\ Inv' /\ [Next]_vars => [RunHeldLocksServe]_vars
  <2> SUFFICES ASSUME Inv, Inv', [Next]_vars PROVE RunHeldLocksServe
    OBVIOUS
  <2> USE DEF Inv, Grounds, Ownership, Safety
  <2>1. Effect
    BY StepsHaveEffects
  <2>2. RecordKeepsRunLocks'
    BY DEF ListedAreHeld, RecordKeepsRunLocks
  <2> QED
    BY <2>1, <2>2, ParkedLocksStay, SiblingsShare DEF RunHeldLocksServe
<1> QED
  BY <1>1, Inductive, PTL DEF Spec, RunHeldLocksServeTheRun
====
