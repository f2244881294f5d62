-------------------- MODULE CompanionLinkFailsafe_proofs --------------------
(***************************************************************************)
(* The failsafe check decides as the policy demands, for all numbers an    *)
(* autopilot may report.                                                   *)
(***************************************************************************)
EXTENDS CompanionLinkFailsafe, TLAPS

Reported == [finite : BOOLEAN, halves : Int]

\* A number that is finite is known by its halves.
LEMMA FiniteNumber ==
    ASSUME NEW x \in Reported, NEW h \in Int
    PROVE  (x.finite /\ x.halves = h) <=> x = [finite |-> TRUE, halves |-> h]
  BY DEF Reported

LEMMA WholeNumber ==
    ASSUME NEW x \in Reported, NEW maximum \in Nat, NEW n \in Nat
    PROVE  ExactInteger(x, maximum) = n <=> n <= maximum /\ x = Number(n)
  <1>1. 2 * n \in Int
    OBVIOUS
  <1>2. x = Number(n) <=> x.finite /\ x.halves = 2 * n
    BY <1>1, FiniteNumber DEF Number
  <1>3. x.halves \in Int
    BY DEF Reported
  <1>4. CASE x.finite /\ x.halves \in 0 .. 2 * maximum /\ x.halves % 2 = 0
    <2>1. ExactInteger(x, maximum) = x.halves \div 2
      BY <1>4 DEF ExactInteger
    <2>2. x.halves \div 2 = n <=> x.halves = 2 * n
      BY <1>3, <1>4
    <2> QED
      BY <1>2, <1>3, <1>4, <2>1, <2>2
  <1>5. CASE ~(x.finite /\ x.halves \in 0 .. 2 * maximum /\ x.halves % 2 = 0)
    <2>1. ExactInteger(x, maximum) = -1
      BY <1>5 DEF ExactInteger
    <2>2. ~(n <= maximum /\ x.finite /\ x.halves = 2 * n)
      BY <1>5
    <2> QED
      BY <1>2, <2>1, <2>2
  <1> QED
    BY <1>4, <1>5

\* An integer in range, or -1.
LEMMA ExactIntegerRange ==
    ASSUME NEW x \in Reported, NEW maximum \in Nat
    PROVE  ExactInteger(x, maximum) \in Nat \cup {-1}
  BY DEF ExactInteger, Reported

\* The bits of weight 2 and 16 are clear exactly in the numbers made of the
\* other bits.
LEMMA ClearBits ==
    ASSUME NEW options \in Nat
    PROVE  (Clear(options, 2) /\ Clear(options, 16)) <=>
             \E low \in {0, 1}, middle \in 0 .. 3, high \in Nat :
                 options = low + 4 * middle + 32 * high
  <1>1. ASSUME Clear(options, 2), Clear(options, 16)
        PROVE  \E low \in {0, 1}, middle \in 0 .. 3, high \in Nat :
                   options = low + 4 * middle + 32 * high
    <2> DEFINE low    == options % 2
               middle == (options \div 4) % 4
               high   == options \div 32
    <2>1. low \in {0, 1} /\ middle \in 0 .. 3 /\ high \in Nat
      OBVIOUS
    <2>2. (options \div 2) % 2 = 0 /\ (options \div 16) % 2 = 0
      BY <1>1 DEF Clear
    <2>3. options = low + 4 * middle + 32 * high
      BY <2>2
    <2> QED
      BY <2>1, <2>3
  <1>2. ASSUME NEW low \in {0, 1}, NEW middle \in 0 .. 3, NEW high \in Nat,
               options = low + 4 * middle + 32 * high
        PROVE  Clear(options, 2) /\ Clear(options, 16)
    <2>1. (options \div 2) % 2 = 0
      BY <1>2
    <2>2. (options \div 16) % 2 = 0
      BY <1>2
    <2> QED
      BY <2>1, <2>2 DEF Clear
  <1> QED
    BY <1>1, <1>2

(***************************************************************************)
(* The checks of validate() accept what the policy allows, and only that.  *)
(***************************************************************************)
LEMMA OptionsFollowPolicy ==
    ASSUME NEW x \in Reported, MaxOptions \in Nat
    PROVE  (LET options == ExactInteger(x, MaxOptions)
            IN  options >= 0 /\ Clear(options, 2) /\ Clear(options, 16))
             <=> \E low \in {0, 1}, middle \in 0 .. 3, high \in 0 .. MaxOptions \div 32 :
                   LET options == low + 4 * middle + 32 * high
                   IN  options <= MaxOptions /\ x = Number(options)
  <1> DEFINE options == ExactInteger(x, MaxOptions)
             Allowed(low, middle, high) == low + 4 * middle + 32 * high
  <1>1. options \in Nat \cup {-1}
    BY ExactIntegerRange
  <1>2. ASSUME options >= 0, Clear(options, 2), Clear(options, 16)
        PROVE  \E low \in {0, 1}, middle \in 0 .. 3, high \in 0 .. MaxOptions \div 32 :
                 Allowed(low, middle, high) <= MaxOptions
                 /\ x = Number(Allowed(low, middle, high))
    <2>1. options \in Nat
      BY <1>1, <1>2
    <2>2. options <= MaxOptions /\ x = Number(options)
      BY <2>1, WholeNumber
    <2> HIDE DEF options
    <2>3. PICK low \in {0, 1}, middle \in 0 .. 3, high \in Nat :
                 options = Allowed(low, middle, high)
      BY <1>2, <2>1, ClearBits
    <2>4. high \in 0 .. MaxOptions \div 32
      BY <2>2, <2>3
    <2> QED
      BY <2>2, <2>3, <2>4
  <1>3. ASSUME NEW low \in {0, 1}, NEW middle \in 0 .. 3,
               NEW high \in 0 .. MaxOptions \div 32,
               Allowed(low, middle, high) <= MaxOptions,
               x = Number(Allowed(low, middle, high))
        PROVE  options >= 0 /\ Clear(options, 2) /\ Clear(options, 16)
    <2>1. high \in Nat /\ Allowed(low, middle, high) \in Nat
      OBVIOUS
    <2>2. options = Allowed(low, middle, high)
      BY <1>3, <2>1, WholeNumber
    <2>3. options \in Nat
      BY <2>1, <2>2
    <2> HIDE DEF options
    <2> QED
      BY <2>1, <2>2, <2>3, ClearBits
  <1> QED
    BY <1>2, <1>3

LEMMA ChecksFollowPolicy ==
    ASSUME NEW r \in [Names -> Reported], NEW v \in 0 .. 255
    PROVE  (/\ ActionLands(r) /\ TimeoutInRange(r)
            /\ OptionsEnforce(r) /\ GcsIdMatches(r, v)) <=> SafePolicy(r, v)
  <1>1. ActionLands(r)
          <=> ("FS_GCS_ENABLE" \in Names => r["FS_GCS_ENABLE"] = Number(5))
    <2> SUFFICES ASSUME "FS_GCS_ENABLE" \in Names
                 PROVE  ExactInteger(r["FS_GCS_ENABLE"], 255) = 5
                          <=> r["FS_GCS_ENABLE"] = Number(5)
      BY DEF ActionLands
    <2>1. r["FS_GCS_ENABLE"] \in Reported
      OBVIOUS
    <2> QED
      BY <2>1, WholeNumber
  <1>2. TimeoutInRange(r)
          <=> ("FS_GCS_TIMEOUT" \in Names =>
                 \E h \in 4 .. 20 :
                   r["FS_GCS_TIMEOUT"] = [finite |-> TRUE, halves |-> h])
    <2> SUFFICES ASSUME "FS_GCS_TIMEOUT" \in Names
                 PROVE  (/\ r["FS_GCS_TIMEOUT"].finite
                         /\ r["FS_GCS_TIMEOUT"].halves \in 4 .. 20)
                          <=> \E h \in 4 .. 20 :
                                r["FS_GCS_TIMEOUT"] = [finite |-> TRUE, halves |-> h]
      BY DEF TimeoutInRange
    <2>1. r["FS_GCS_TIMEOUT"] \in Reported
      OBVIOUS
    <2>2. \A h \in 4 .. 20 :
            (r["FS_GCS_TIMEOUT"].finite /\ r["FS_GCS_TIMEOUT"].halves = h)
              <=> r["FS_GCS_TIMEOUT"] = [finite |-> TRUE, halves |-> h]
      BY <2>1, FiniteNumber
    <2> QED
      BY <2>2
  <1>3. OptionsEnforce(r)
          <=> ("FS_OPTIONS" \in Names =>
                 \E low \in {0, 1}, middle \in 0 .. 3, high \in 0 .. MaxOptions \div 32 :
                   LET options == low + 4 * middle + 32 * high
                   IN  options <= MaxOptions /\ r["FS_OPTIONS"] = Number(options))
    <2>1. CASE "FS_OPTIONS" \in Names
      <3>1. r["FS_OPTIONS"] \in Reported /\ MaxOptions \in Nat
        BY <2>1, FailsafeAssumption
      <3> QED
        BY <2>1, <3>1, OptionsFollowPolicy DEF OptionsEnforce
    <2>2. CASE "FS_OPTIONS" \notin Names
      BY <2>2 DEF OptionsEnforce
    <2> QED
      BY <2>1, <2>2
  <1>4. GcsIdMatches(r, v)
          <=> ("SYSID_MYGCS" \in Names => v # 0 /\ r["SYSID_MYGCS"] = Number(v))
    <2> SUFFICES ASSUME "SYSID_MYGCS" \in Names
                 PROVE  (/\ ExactInteger(r["SYSID_MYGCS"], 255) >= 1
                         /\ ExactInteger(r["SYSID_MYGCS"], 255) = v)
                          <=> v # 0 /\ r["SYSID_MYGCS"] = Number(v)
      BY DEF GcsIdMatches
    <2>1. r["SYSID_MYGCS"] \in Reported
      OBVIOUS
    <2>2. ExactInteger(r["SYSID_MYGCS"], 255) = v <=> r["SYSID_MYGCS"] = Number(v)
      BY <2>1, WholeNumber
    <2> QED
      BY <2>2
  <1> QED
    BY <1>1, <1>2, <1>3, <1>4 DEF SafePolicy

(***************************************************************************)
(* The inductive invariant: the phase is the verdict on the evidence.      *)
(***************************************************************************)
Judged ==
    failsafePhase = IF heartbeatSystemId = NoVehicle
                    THEN "waiting_for_vehicle"
                    ELSE Verdict(raw, heartbeatSystemId)

FailsafeInv ==
    /\ heartbeatSystemId \in Vehicles \cup {NoVehicle}
    /\ raw \in [Names -> Values \cup {NoValue}]
    /\ heartbeatSystemId = NoVehicle => raw = NothingRead
    /\ Judged

LEMMA NothingReadYet ==
    ASSUME NEW v
    PROVE  /\ NothingRead \in [Names -> Values \cup {NoValue}]
           /\ Verdict(NothingRead, v) = "reading_parameters"
  <1>1. ~Complete(NothingRead)
    BY FailsafeAssumption DEF Complete, NothingRead
  <1> QED
    BY <1>1 DEF NothingRead, Verdict

LEMMA FailsafeInitially == FailsafeInit => FailsafeInv
  BY NothingReadYet DEF FailsafeInit, FailsafeInv, Judged

LEMMA FailsafeStep == FailsafeInv /\ [FailsafeNext]_failsafeVars => FailsafeInv'
  <1> SUFFICES ASSUME FailsafeInv, [FailsafeNext]_failsafeVars
               PROVE  FailsafeInv'
    OBVIOUS
  <1>1. ASSUME NEW v \in Vehicles \cup {NoVehicle}, ObserveVehicle(v)
        PROVE  FailsafeInv'
    <2>1. CASE v # heartbeatSystemId
      <3>1. ResetFor(v)
        BY <1>1, <2>1 DEF ObserveVehicle
      <3> QED
        BY <3>1, NothingReadYet DEF ResetFor, FailsafeInv, Judged
    <2>2. CASE v = heartbeatSystemId
      BY <1>1, <2>2 DEF ObserveVehicle, failsafeVars, FailsafeInv, Judged
    <2> QED
      BY <2>1, <2>2
  <1>2. ASSUME NEW v \in Vehicles, NEW component, NEW name, NEW value \in Values,
               OnParameter(v, component, name, value)
        PROVE  FailsafeInv'
    <2>1. CASE FromObserved(v, component) /\ name \in Names
      <3>1. /\ raw' = [raw EXCEPT ![name] = value]
            /\ failsafePhase' = Verdict(raw', heartbeatSystemId)
            /\ heartbeatSystemId' = heartbeatSystemId
            /\ heartbeatSystemId # NoVehicle
        BY <1>2, <2>1 DEF OnParameter, FromObserved
      <3> QED
        BY <2>1, <3>1 DEF FailsafeInv, Judged
    <2>2. CASE ~(FromObserved(v, component) /\ name \in Names)
      BY <1>2, <2>2 DEF OnParameter, failsafeVars, FailsafeInv, Judged
    <2> QED
      BY <2>1, <2>2
  <1>3. CASE UNCHANGED failsafeVars
    BY <1>3 DEF failsafeVars, FailsafeInv, Judged
  <1> QED
    BY <1>1, <1>2, <1>3 DEF FailsafeNext

LEMMA FailsafeInvSuffices == FailsafeInv => PhaseFitsEvidence
  <1> SUFFICES ASSUME FailsafeInv
               PROVE  PhaseFitsEvidence
    OBVIOUS
  <1>1. CASE heartbeatSystemId = NoVehicle
    BY <1>1 DEF FailsafeInv, Judged, PhaseFitsEvidence
  <1>2. CASE heartbeatSystemId # NoVehicle
    <2>1. failsafePhase = Verdict(raw, heartbeatSystemId)
      BY <1>2 DEF FailsafeInv, Judged
    <2>2. heartbeatSystemId \in 0 .. 255 /\ raw \in [Names -> Values \cup {NoValue}]
      BY <1>2, FailsafeAssumption DEF FailsafeInv
    <2>3. CASE ~Complete(raw)
      <3>1. failsafePhase = "reading_parameters"
        BY <2>1, <2>3 DEF Verdict
      <3> QED
        BY <1>2, <2>3, <3>1 DEF PhaseFitsEvidence, Complete
    <2>4. CASE Complete(raw)
      <3>1. raw \in [Names -> Reported]
        BY <2>2, <2>4, FailsafeAssumption DEF Complete, Reported
      <3>2. Accepts(raw, heartbeatSystemId) <=> SafePolicy(raw, heartbeatSystemId)
        BY <2>2, <2>4, <3>1, ChecksFollowPolicy DEF Accepts
      <3>3. failsafePhase = IF Accepts(raw, heartbeatSystemId)
                            THEN "accepted" ELSE "rejected"
        BY <2>1, <2>4 DEF Verdict
      <3> QED
        BY <1>2, <2>4, <3>2, <3>3 DEF PhaseFitsEvidence, Complete
    <2> QED
      BY <2>3, <2>4
  <1> QED
    BY <1>1, <1>2

\* For all numbers an autopilot may report and all orders in which values and
\* vehicles come and go, the check has accepted exactly the complete evidence
\* that the policy allows.
THEOREM VerdictFollowsPolicy == FailsafeSpec => []PhaseFitsEvidence
  <1>1. FailsafeInit => FailsafeInv
    BY FailsafeInitially
  <1>2. FailsafeInv /\ [FailsafeNext]_failsafeVars => FailsafeInv'
    BY FailsafeStep
  <1>3. FailsafeInv => PhaseFitsEvidence
    BY FailsafeInvSuffices
  <1> QED
    BY <1>1, <1>2, <1>3, PTL DEF FailsafeSpec
==============================================================================
