------------------------------- MODULE LrzProofs -------------------------------
(***************************************************************************)
(* Theorems about LrzSession and LrzJob, for every set of sessions, jobs   *)
(* and resources, whatever their sites, gates and couplings are.           *)
(***************************************************************************)
EXTENDS LrzJob, SequenceTheorems, TLAPS

--------------------------------------------------------------------------------
(* The lists of a session.                                                 *)

(* setSites appends one site per qubit.                                    *)
LEMMA NewSitesType ==
  ASSUME NEW r \in Resource
  PROVE  /\ NewSites(r) \in Seq(Index)
         /\ Len(NewSites(r)) = Qubits[r]
  <1>1. Qubits[r] \in Nat
    BY LrzAssumption
  <1>2. \A i \in 1 .. Qubits[r] : i - 1 \in Index
    BY <1>1 DEF Index
  <1>3. QED
    BY <1>1, <1>2 DEF NewSites

(* sites.at() finds a site for every qubit of the resource: setSites has   *)
(* appended at least as many sites as the resource has qubits.             *)
LEMMA SitesAtType ==
  ASSUME NEW r \in Resource, NEW list \in Seq(Index), Qubits[r] <= Len(list),
         NEW qubits \in Seq(0 .. Qubits[r] - 1)
  PROVE  SitesAt(list, qubits) \in Seq(Index)
  <1>1. Qubits[r] \in Nat /\ Len(list) \in Nat /\ Len(qubits) \in Nat
    BY LrzAssumption, LenProperties
  <1>2. DOMAIN qubits = 1 .. Len(qubits)
    BY LenProperties
  <1>3. ASSUME NEW i \in 1 .. Len(qubits) PROVE list[qubits[i] + 1] \in Index
    <2>1. qubits[i] \in 0 .. Qubits[r] - 1
      BY ElementOfSeq
    <2>2. qubits[i] + 1 \in 1 .. Len(list)
      BY <1>1, <2>1
    <2>3. QED
      BY <2>2, ElementOfSeq
  <1>4. SitesAt(list, qubits) \in [1 .. Len(qubits) -> Index]
    BY <1>2, <1>3 DEF SitesAt
  <1>5. QED
    BY <1>1, <1>4

LEMMA DescribeTypes ==
  ASSUME SessionTypeOK, NEW s \in Session, NEW r \in Resource, Describe(s, r)
  PROVE  /\ resources' \in [Session -> Seq(Resource)]
         /\ sites' \in [Session -> Seq(Index)]
         /\ operations' \in [Session -> Seq(Index)]
         /\ couplingMap' \in [Session -> Seq(Index)]
  <1> DEFINE list == sites[s] \o NewSites(r)
  <1> USE DEF SessionTypeOK
  <1>1. sites[s] \in Seq(Index) /\ NewSites(r) \in Seq(Index)
    BY NewSitesType
  <1>2. list \in Seq(Index) /\ Qubits[r] <= Len(list)
    <2>1. Len(list) = Len(sites[s]) + Len(NewSites(r)) /\ list \in Seq(Index)
      BY <1>1, ConcatProperties
    <2>2. Len(sites[s]) \in Nat /\ Qubits[r] \in Nat
      BY <1>1, LenProperties, LrzAssumption
    <2>3. QED
      BY <2>1, <2>2, NewSitesType
  <1>3. SitesAt(list, Gate[r]) \in Seq(Index)
        /\ SitesAt(list, Coupling[r]) \in Seq(Index)
    BY <1>2, SitesAtType, LrzAssumption
  <1>4. /\ operations[s] \o SitesAt(list, Gate[r]) \in Seq(Index)
        /\ couplingMap[s] \o SitesAt(list, Coupling[r]) \in Seq(Index)
        /\ Append(resources[s], r) \in Seq(Resource)
    BY <1>3, ConcatProperties
  <1>5. QED
    BY <1>2, <1>4 DEF Describe

--------------------------------------------------------------------------------
(* Types.                                                                  *)

(* A job is unsubmitted for the client as long as it is for the portal, and *)
(* the portal knows no job that was not created.                           *)
PortalKnows ==
  \A j \in Job :
    /\ status[j] = "created" <=> portal[j] = "none"
    /\ held[j] = "none" => portal[j] = "none"

TypeInv == TypeOK /\ PortalKnows

LEMMA TypeInit == Init => TypeInv
  <1>1. \A S : <<>> \in Seq(S)
    BY EmptySeq
  <1>2. SessionInit => SessionTypeOK
    BY <1>1, LrzAssumption DEF SessionInit, SessionTypeOK
  <1>3. QED
    BY <1>2, JobAssumption DEF Init, TypeInv, TypeOK, PortalKnows, InPortal, Ended

LEMMA TypeSession ==
  ASSUME SessionTypeOK, NEW s \in Session, SessionCall(s) PROVE SessionTypeOK'
  <1> USE DEF SessionTypeOK
  <1>1. CASE SessionAlloc(s) \/ FreeUnusedSession(s) \/ \E u \in Url : SetUrl(s, u)
    BY <1>1 DEF SessionAlloc, FreeUnusedSession, SessionFree, SetUrl
  <1>2. CASE SessionInitialize(s)
    <2>1. Describe(s, DefaultResource)
      BY <1>2 DEF SessionInitialize
    <2>2. QED
      BY <1>2, <2>1, DescribeTypes, LrzAssumption DEF SessionInitialize
  <1>3. ASSUME NEW r \in Resource, SetResource(s, r) PROVE SessionTypeOK'
    BY <1>3, DescribeTypes DEF SetResource
  <1>4. QED
    BY <1>1, <1>2, <1>3 DEF SessionCall

(* What check tells of a submitted job is a status.                        *)
LEMMA ToldType ==
  ASSUME NEW word \in InPortal
  PROVE  Told(word) \in {"submitted", "queued"} \cup Ended
  BY DEF Told, InPortal, Ended

(* The portal, and a cancel, move a job that has not ended, and no other    *)
(* field of it.                                                            *)
LEMMA PortalEffect ==
  ASSUME NEW j \in Job, PortalStep(j) \/ Cancel(j)
  PROVE  /\ portal[j] \in {"PENDING", "WAITING"}
         /\ \E word \in InPortal \ {"PENDING"} : portal' = [portal EXCEPT ![j] = word]
         /\ UNCHANGED <<lrzSessionVars, device, owner, held, status, ready, result,
                        histogram>>
  BY DEF PortalStep, Cancel, JobOnly, InPortal

(* A fetch counts one more copy of a completed job's counts.               *)
LEMMA FetchTypes ==
  ASSUME TypeOK, NEW j \in Job, Fetch(j)
  PROVE  /\ result' \in [Job -> {"null", "got"}]
         /\ histogram' \in [Job -> 0 .. MaxFetches]
  <1>1. histogram[j] + 1 \in 0 .. MaxFetches
    BY JobAssumption DEF TypeOK, Fetch
  <1>2. QED
    BY <1>1 DEF TypeOK, Fetch

LEMMA TypeJob ==
  ASSUME TypeInv, NEW j \in Job, JobCall(j) \/ PortalStep(j) PROVE TypeInv'
  <1> USE DEF TypeInv, TypeOK, SessionTypeOK, PortalKnows, InPortal, Ended
  <1>1. CASE \E s \in Session : CreateJob(s, j)
    BY <1>1 DEF CreateJob, lrzSessionVars
  <1>2. CASE SetJobParameters(j) \/ FreeJob(j)
    BY <1>2 DEF SetJobParameters, FreeJob, JobOnly, lrzSessionVars
  <1>3. CASE Submit(j)
    BY <1>3 DEF Submit, JobOnly, lrzSessionVars
  <1>4. CASE Check(j)
    <2>1. portal[j] \in InPortal
      BY <1>4 DEF Check
    <2>2. Told(portal[j]) \in {"submitted", "queued"} \cup Ended
      BY <2>1, ToldType
    <2>3. QED
      BY <1>4, <2>2 DEF Check, JobOnly, lrzSessionVars
  <1>5. CASE Wait(j) \/ GetResults(j)
    BY <1>5, FetchTypes DEF Wait, GetResults, JobOnly, lrzSessionVars
  <1>6. CASE WaitInVain(j)
    BY <1>6 DEF WaitInVain, JobOnly, lrzSessionVars
  <1>7. CASE PortalStep(j) \/ Cancel(j)
    <2>1. PICK word \in InPortal : portal' = [portal EXCEPT ![j] = word]
      BY <1>7, PortalEffect
    <2>2. UNCHANGED <<lrzSessionVars, device, owner, held, status, ready, result,
                      histogram>>
      BY <1>7, PortalEffect
    <2>3. portal[j] # "none"
      BY <1>7, PortalEffect
    <2>4. SessionTypeOK'
      BY <2>2 DEF lrzSessionVars
    <2>5. portal' \in [Job -> InPortal \cup {"none"}]
      BY <2>1
    <2>6. PortalKnows'
      BY <2>1, <2>2, <2>3
    <2>7. QED
      BY <2>2, <2>4, <2>5, <2>6
  <1>8. QED
    BY <1>1, <1>2, <1>3, <1>4, <1>5, <1>6, <1>7 DEF JobCall

LEMMA TypeInvariant == Spec => []TypeInv
  <1>1. TypeInv /\ [Next]_vars => TypeInv'
    <2> SUFFICES ASSUME TypeInv, [Next]_vars PROVE TypeInv'
      OBVIOUS
    <2>1. CASE UNCHANGED vars
      BY <2>1 DEF vars, lrzSessionVars, jobVars, TypeInv, TypeOK, SessionTypeOK,
         PortalKnows
    <2>2. CASE DeviceCall
      BY <2>2 DEF DeviceCall, DeviceInitialize, DeviceFinalize, lrzSessionVars,
         jobVars, TypeInv, TypeOK, SessionTypeOK, PortalKnows
    <2>3. ASSUME NEW s \in Session, SessionCall(s) PROVE TypeInv'
      <3>1. SessionTypeOK' /\ UNCHANGED jobVars
        BY <2>3, TypeSession DEF SessionCall, TypeInv, TypeOK
      <3>2. QED
        BY <3>1 DEF jobVars, TypeInv, TypeOK, PortalKnows
    <2>4. QED
      BY <2>1, <2>2, <2>3, TypeJob DEF Next
  <1>2. QED
    BY TypeInit, <1>1, PTL DEF Spec

(* Every variable always has its type: in particular sites.at() never      *)
(* misses, and check is never told a word it has no status for.            *)
THEOREM TypeCorrect == Spec => []TypeOK
  <1>1. TypeInv => TypeOK
    BY DEF TypeInv
  <1>2. QED
    BY <1>1, TypeInvariant, PTL

--------------------------------------------------------------------------------
(* What check tells, and what the flag says.                               *)

(* Only the calls of jobs and the portal touch a job.                      *)
LEMMA JobsUntouched ==
  ASSUME DeviceCall \/ (\E s \in Session : SessionCall(s)) \/ UNCHANGED vars
  PROVE  UNCHANGED jobVars /\ (device' = "busy" => device = "busy")
  BY DEF DeviceCall, DeviceInitialize, DeviceFinalize, SessionCall, SessionAlloc,
     SessionInitialize, FreeUnusedSession, SessionFree, SetUrl, SetResource, vars

(* The end of a job is final in the portal, and check converts it.         *)
LEMMA ToldEnd ==
  ASSUME NEW word \in InPortal
  PROVE  Told(word) \in Ended <=> word \notin {"PENDING", "WAITING"}
  BY DEF Told, InPortal, Ended

(* Ends that were told are real: the portal never leaves an end, and a job *)
(* is submitted before the portal or check can say anything of it.         *)
THEOREM ToldEndsAreReal == Spec => []EndsAreReal
  <1>1. Init => EndsAreReal
    BY DEF Init, EndsAreReal, Ended
  <1>2. TypeInv /\ EndsAreReal /\ [Next]_vars => EndsAreReal'
    <2> SUFFICES ASSUME TypeInv, EndsAreReal, [Next]_vars
                 PROVE  EndsAreReal'
      OBVIOUS
    <2> USE DEF TypeInv, TypeOK, PortalKnows, EndsAreReal
    <2>1. CASE DeviceCall \/ (\E s \in Session : SessionCall(s)) \/ UNCHANGED vars
      BY <2>1, JobsUntouched DEF jobVars
    <2>2. ASSUME NEW j \in Job, PortalStep(j) \/ Cancel(j) PROVE EndsAreReal'
      <3>1. PICK word \in InPortal : portal' = [portal EXCEPT ![j] = word]
        BY <2>2, PortalEffect
      <3>2. portal[j] \in {"PENDING", "WAITING"} /\ UNCHANGED <<status, histogram>>
        BY <2>2, PortalEffect
      <3>3. status[j] \notin Ended
        BY <3>2, ToldEnd DEF InPortal
      <3>4. histogram[j] = 0
        BY <3>2, JobAssumption
      <3>5. QED
        BY <3>1, <3>2, <3>3, <3>4
    <2>3. ASSUME NEW j \in Job, Check(j) PROVE EndsAreReal'
      BY <2>3 DEF Check
    <2>4. ASSUME NEW j \in Job, Submit(j) PROVE EndsAreReal'
      <3>1. histogram[j] = 0
        BY <2>4, JobAssumption DEF Submit
      <3>2. QED
        BY <2>4, <3>1 DEF Submit, Ended
    <2>5. ASSUME NEW j \in Job, Wait(j) \/ GetResults(j) PROVE EndsAreReal'
      BY <2>5, JobAssumption DEF Wait, GetResults, Fetch
    <2>6. ASSUME NEW j \in Job, \/ \E s \in Session : CreateJob(s, j)
                                \/ SetJobParameters(j) \/ WaitInVain(j) \/ FreeJob(j)
          PROVE  UNCHANGED <<status, portal, histogram>>
      BY <2>6 DEF CreateJob, SetJobParameters, WaitInVain, FreeJob
    <2>7. QED
      BY <2>1, <2>2, <2>3, <2>4, <2>5, <2>6 DEF Next, JobCall
  <1>3. QED
    BY <1>1, <1>2, TypeInvariant, PTL DEF Spec

(* The device is BUSY only as long as an end is not reported, whatever the *)
(* order in which the jobs are submitted, polled, waited for and freed.    *)
THEOREM BusyForAReason == Spec => []BusyIsOwed
  <1>1. Init => BusyIsOwed
    BY DEF Init, SessionInit, BusyIsOwed
  <1>2. TypeInv /\ BusyIsOwed /\ [Next]_vars => BusyIsOwed'
    <2> SUFFICES ASSUME TypeInv, BusyIsOwed, [Next]_vars, device' = "busy"
                 PROVE  \E j \in Job : portal'[j] # "none" /\ status'[j] \notin Ended
      BY DEF BusyIsOwed
    <2> USE DEF TypeInv, TypeOK, PortalKnows, BusyIsOwed
    <2>1. CASE DeviceCall \/ (\E s \in Session : SessionCall(s)) \/ UNCHANGED vars
      BY <2>1, JobsUntouched DEF jobVars
    <2>2. ASSUME NEW i \in Job, PortalStep(i) \/ Cancel(i)
          PROVE  \E j \in Job : portal'[j] # "none" /\ status'[j] \notin Ended
      <3>1. PICK word \in InPortal : portal' = [portal EXCEPT ![i] = word]
        BY <2>2, PortalEffect
      <3>2. UNCHANGED <<device, status>> /\ "none" \notin InPortal
        BY <2>2, PortalEffect DEF InPortal
      <3>3. PICK j \in Job : portal[j] # "none" /\ status[j] \notin Ended
        BY <3>2
      <3>4. portal'[j] # "none" /\ status'[j] \notin Ended
        BY <3>1, <3>2, <3>3
      <3>5. QED
        BY <3>4
    <2>3. ASSUME NEW i \in Job, Check(i)
          PROVE  portal'[i] # "none" /\ status'[i] \notin Ended
      BY <2>3 DEF Check
    <2>4. ASSUME NEW i \in Job, Submit(i)
          PROVE  portal'[i] # "none" /\ status'[i] \notin Ended
      BY <2>4 DEF Submit, Ended
    <2>5. ASSUME NEW i \in Job, Wait(i) PROVE FALSE
      BY <2>5 DEF Wait
    <2>6. ASSUME NEW i \in Job, \/ \E s \in Session : CreateJob(s, i)
                                \/ SetJobParameters(i) \/ WaitInVain(i)
                                \/ GetResults(i) \/ FreeJob(i)
          PROVE  UNCHANGED <<device, status, portal>>
      BY <2>6 DEF CreateJob, SetJobParameters, WaitInVain, GetResults, FreeJob
    <2>7. QED
      BY <2>1, <2>2, <2>3, <2>4, <2>5, <2>6 DEF Next, JobCall
  <1>3. QED
    BY <1>1, <1>2, TypeInvariant, PTL DEF Spec

(* A histogram that is read once is kept, so that get_results does not     *)
(* fetch it again: only a wait can drop the result.                        *)
HistogramKept == \A j \in Job : histogram[j] <= 1 /\ (histogram[j] = 1 => result[j] = "got")

(* The counts are appended once, for a client that does not wait again.    *)
THEOREM CountsReadOnce == ASSUME ~WaitAgain PROVE Spec => []HistogramOnce
  <1>1. Init => HistogramKept
    BY DEF Init, HistogramKept
  <1>2. TypeInv /\ HistogramKept /\ [Next]_vars => HistogramKept'
    <2> SUFFICES ASSUME TypeInv, HistogramKept, [Next]_vars PROVE HistogramKept'
      OBVIOUS
    <2> USE DEF TypeInv, TypeOK, HistogramKept
    <2>1. CASE DeviceCall \/ (\E s \in Session : SessionCall(s)) \/ UNCHANGED vars
      BY <2>1, JobsUntouched DEF jobVars
    <2>2. ASSUME NEW j \in Job, PortalStep(j) \/ Cancel(j)
          PROVE  UNCHANGED <<result, histogram>>
      BY <2>2, PortalEffect
    <2>3. ASSUME NEW j \in Job, Wait(j) \/ GetResults(j) PROVE HistogramKept'
      <3>1. histogram[j] = 0
        BY <2>3, JobAssumption DEF Wait, GetResults
      <3>2. QED
        BY <2>3, <3>1 DEF Wait, GetResults, Fetch
    <2>4. ASSUME NEW j \in Job, WaitInVain(j) PROVE HistogramKept'
      BY <2>4 DEF WaitInVain
    <2>5. ASSUME NEW j \in Job, \/ \E s \in Session : CreateJob(s, j)
                                \/ SetJobParameters(j) \/ Submit(j) \/ Check(j)
                                \/ FreeJob(j)
          PROVE  UNCHANGED <<result, histogram>>
      BY <2>5 DEF CreateJob, SetJobParameters, Submit, Check, FreeJob
    <2>6. QED
      BY <2>1, <2>2, <2>3, <2>4, <2>5 DEF Next, JobCall
  <1>3. HistogramKept => HistogramOnce
    BY DEF HistogramKept, HistogramOnce
  <1>4. QED
    BY <1>1, <1>2, <1>3, TypeInvariant, PTL DEF Spec

--------------------------------------------------------------------------------
(* The lists of a session that was given one resource.                     *)

(* sites.at(qubit) of the sites setSites makes is the site of that qubit.  *)
LEMMA SitesAtNewSites ==
  ASSUME NEW r \in Resource, NEW qubits \in Seq(0 .. Qubits[r] - 1)
  PROVE  SitesAt(NewSites(r), qubits) = qubits
  <1>1. Qubits[r] \in Nat /\ Len(qubits) \in Nat
    BY LrzAssumption, LenProperties
  <1>2. qubits \in [1 .. Len(qubits) -> 0 .. Qubits[r] - 1]
    BY LenProperties
  <1>3. ASSUME NEW i \in 1 .. Len(qubits)
        PROVE  NewSites(r)[qubits[i] + 1] = qubits[i]
    <2>1. qubits[i] \in 0 .. Qubits[r] - 1
      BY <1>2, <1>3
    <2>2. qubits[i] + 1 \in 1 .. Qubits[r]
      BY <1>1, <2>1
    <2>3. QED
      BY <2>1, <2>2 DEF NewSites
  <1>4. SitesAt(NewSites(r), qubits) = [i \in 1 .. Len(qubits) |-> qubits[i]]
    BY <1>2, <1>3 DEF SitesAt
  <1>5. QED
    BY <1>2, <1>4

(* A session without a resource has empty lists: that setResource appends  *)
(* to them does not show with the first resource.                          *)
EmptyWithoutResource ==
  \A s \in Session : resources[s] = <<>> =>
    sites[s] = <<>> /\ operations[s] = <<>> /\ couplingMap[s] = <<>>

ListsInv == EmptyWithoutResource /\ OneResourceExact

LEMMA AppendLength ==
  ASSUME NEW S, NEW seq \in Seq(S), NEW x \in S
  PROVE  Append(seq, x) # <<>> /\ Len(Append(seq, x)) = Len(seq) + 1
  BY AppendProperties

LEMMA ListsDescribe ==
  ASSUME SessionTypeOK, ListsInv, NEW s \in Session, NEW r \in Resource,
         Describe(s, r)
  PROVE  ListsInv'
  <1> USE DEF SessionTypeOK
  <1>1. /\ resources[s] \in Seq(Resource) /\ Len(resources[s]) \in Nat
        /\ resources' = [resources EXCEPT ![s] = Append(resources[s], r)]
    BY LenProperties DEF Describe
  <1>2. resources'[s] # <<>> /\ Len(resources'[s]) = Len(resources[s]) + 1
    <2>1. resources'[s] = Append(resources[s], r)
      BY <1>1
    <2>2. /\ Append(resources[s], r) # <<>>
          /\ Len(Append(resources[s], r)) = Len(resources[s]) + 1
      BY <1>1, AppendLength
    <2>3. QED
      BY <2>1, <2>2, Zenon
  <1>3. ASSUME NEW t \in Session, t # s
        PROVE  /\ resources'[t] = resources[t]
               /\ sites'[t] = sites[t]
               /\ operations'[t] = operations[t]
               /\ couplingMap'[t] = couplingMap[t]
    BY <1>3 DEF Describe
  <1>4. ASSUME resources[s] = <<>>
        PROVE  Len(resources'[s]) = 1 /\ (Describes(s, resources[s][1]))'
    <2>1. sites[s] = <<>> /\ operations[s] = <<>> /\ couplingMap[s] = <<>>
      BY <1>4 DEF ListsInv, EmptyWithoutResource
    <2>2. <<>> \o NewSites(r) = NewSites(r)
      BY NewSitesType, ConcatEmptySeq
    <2>3. /\ sites'[s] = NewSites(r)
          /\ operations'[s] = <<>> \o SitesAt(NewSites(r), Gate[r])
          /\ couplingMap'[s] = <<>> \o SitesAt(NewSites(r), Coupling[r])
      BY <2>1, <2>2 DEF Describe
    <2>4. /\ Gate[r] \in Seq(0 .. Qubits[r] - 1)
          /\ Coupling[r] \in Seq(0 .. Qubits[r] - 1)
      BY LrzAssumption
    <2>5. operations'[s] = Gate[r] /\ couplingMap'[s] = Coupling[r]
      BY <2>3, <2>4, SitesAtNewSites, ConcatEmptySeq
    <2>6. resources'[s][1] = r /\ Len(resources'[s]) = 1
      BY <1>1, <1>2, <1>4, EmptySeq
    <2>7. QED
      BY <2>3, <2>5, <2>6 DEF Describes, NewSites
  <1>5. ASSUME resources[s] # <<>> PROVE Len(resources'[s]) # 1
    BY <1>1, <1>2, <1>5, EmptySeq
  <1>6. EmptyWithoutResource'
    BY <1>2, <1>3 DEF ListsInv, EmptyWithoutResource
  <1>7. OneResourceExact'
    <2> SUFFICES ASSUME NEW t \in Session, Len(resources'[t]) = 1
                 PROVE  (Describes(t, resources[t][1]))'
      BY DEF OneResourceExact
    <2>1. CASE t = s
      BY <1>4, <1>5, <2>1
    <2>2. CASE t # s
      BY <1>3, <2>2 DEF ListsInv, OneResourceExact, Describes
    <2>3. QED
      BY <2>1, <2>2
  <1>8. QED
    BY <1>6, <1>7 DEF ListsInv

(* A session that was given one resource describes that one, for every     *)
(* number of qubits, every gate and every coupling map.                    *)
THEOREM FirstResourceDescribed == Spec => []OneResourceExact
  <1>1. Init => ListsInv
    BY EmptySeq DEF Init, SessionInit, ListsInv, EmptyWithoutResource, OneResourceExact
  <1>2. TypeInv /\ ListsInv /\ [Next]_vars => ListsInv'
    <2> SUFFICES ASSUME TypeInv, ListsInv, [Next]_vars PROVE ListsInv'
      OBVIOUS
    <2> DEFINE lists == <<resources, sites, operations, couplingMap>>
    <2>1. SessionTypeOK
      BY DEF TypeInv, TypeOK
    <2>2. CASE UNCHANGED lists
      BY <2>2 DEF ListsInv, EmptyWithoutResource, OneResourceExact, Describes
    <2>3. ASSUME NEW s \in Session, SessionCall(s)
          PROVE  UNCHANGED lists \/ \E r \in Resource : Describe(s, r)
      BY <2>3, LrzAssumption
      DEF SessionCall, SessionAlloc, SessionInitialize, FreeUnusedSession,
          SessionFree, SetUrl, SetResource
    <2>4. ASSUME NEW j \in Job, JobCall(j) \/ PortalStep(j) PROVE UNCHANGED lists
      BY <2>4
      DEF JobCall, CreateJob, SetJobParameters, Submit, Cancel, Check, Wait,
          WaitInVain, GetResults, FreeJob, PortalStep, JobOnly, lrzSessionVars
    <2>5. CASE DeviceCall \/ UNCHANGED vars
      BY <2>2, <2>5
      DEF DeviceCall, DeviceInitialize, DeviceFinalize, vars, lrzSessionVars
    <2>6. QED
      BY <2>1, <2>2, <2>3, <2>4, <2>5, ListsDescribe DEF Next
  <1>3. ListsInv => OneResourceExact
    BY DEF ListsInv
  <1>4. TypeInv => SessionTypeOK
    BY DEF TypeInv, TypeOK
  <1>5. QED
    BY <1>1, <1>2, <1>3, TypeInvariant, PTL DEF Spec

--------------------------------------------------------------------------------
(* An LRZ job is a QDMI job: the safety part of JobsAsPromised.            *)

(* Where a held job stands is what the portal says of it; what its client  *)
(* was told is what check wrote, and it is the portal's end.               *)
Mapped ==
  \A j \in Job :
    /\ held[j] = "live" => stage[j] = StageOf(portal[j])
    /\ held[j] # "live" => stage[j] = held[j] /\ told[j] = "open"
    /\ held[j] = "live" =>
         told[j] = IF status[j] \in Ended THEN StageOf(portal[j]) ELSE "open"

LEMMA StageTold == TypeInv /\ EndsAreReal => Mapped
  <1> SUFFICES ASSUME TypeInv, EndsAreReal, NEW j \in Job
               PROVE  /\ held[j] = "live" => stage[j] = StageOf(portal[j])
                      /\ held[j] # "live" => stage[j] = held[j] /\ told[j] = "open"
                      /\ held[j] = "live" => told[j] =
                           IF status[j] \in Ended THEN StageOf(portal[j]) ELSE "open"
    BY DEF Mapped
  <1> USE DEF TypeInv, TypeOK, PortalKnows
  <1>1. stage[j] = IF held[j] = "live" THEN StageOf(portal[j]) ELSE held[j]
    BY DEF stage
  <1>2. told[j] = CASE held[j] = "live" /\ status[j] = "done" -> "succeeded"
                    [] held[j] = "live" /\ status[j] \in {"failed", "canceled"} -> "failed"
                    [] OTHER -> "open"
    BY DEF told
  <1>3. CASE status[j] \in Ended
    <2>1. status[j] = Told(portal[j]) /\ portal[j] \in InPortal
      BY <1>3 DEF EndsAreReal, Ended
    <2>2. StageOf(portal[j]) = IF status[j] = "done" THEN "succeeded" ELSE "failed"
      BY <1>3, <2>1 DEF Told, StageOf, InPortal, Ended
    <2>3. QED
      BY <1>1, <1>2, <1>3, <2>2 DEF Ended
  <1>4. CASE status[j] \notin Ended
    BY <1>1, <1>2, <1>4 DEF Ended
  <1>5. QED
    BY <1>3, <1>4

(* A step that changes one job changes the mapping at that job only.       *)
LEMMA MappingElsewhere ==
  ASSUME NEW j \in Job,
         \A i \in Job \ {j} : /\ held'[i] = held[i] /\ status'[i] = status[i]
                              /\ portal'[i] = portal[i]
  PROVE  /\ stage' = [stage EXCEPT ![j] = stage'[j]]
         /\ told' = [told EXCEPT ![j] = told'[j]]
  BY DEF stage, told

LEMMA StageOfWord ==
  /\ StageOf("none") = "created"
  /\ \A word \in {"PENDING", "WAITING"} : StageOf(word) = "submitted"
  /\ \A word \in {"COMPLETED", "FAILED", "CANCELLED"} : StageOf(word) \in Promise!End
  BY DEF StageOf, Promise!End

(* A call of a job, or a step of the portal on it, is a step of a QDMI job *)
(* or leaves what the client can see of the job alone.                     *)
LEMMA JobImplements ==
  ASSUME TypeInv, EndsAreReal, EndsAreReal', Mapped, Mapped',
         NEW j \in Job, JobCall(j) \/ PortalStep(j)
  PROVE  Promise!Next \/ UNCHANGED Promise!jobPromiseVars
  <1>1. ASSUME \A i \in Job \ {j} : /\ held'[i] = held[i] /\ status'[i] = status[i]
                                    /\ portal'[i] = portal[i]
        PROVE  /\ stage' = [stage EXCEPT ![j] = stage'[j]]
               /\ told' = [told EXCEPT ![j] = told'[j]]
    BY <1>1, MappingElsewhere
  <1>2. stage = [stage EXCEPT ![j] = stage[j]] /\ told = [told EXCEPT ![j] = told[j]]
    BY DEF stage, told
  <1>3. CASE \E s \in Session : CreateJob(s, j)
    <2>1. /\ held[j] = "none" /\ held'[j] = "live" /\ portal'[j] = "none"
          /\ status'[j] \notin Ended
      BY <1>3 DEF CreateJob, TypeInv, TypeOK, PortalKnows, Ended
    <2>2. stage[j] = "none" /\ stage'[j] = "created" /\ told[j] = "open" /\ told'[j] = "open"
      BY <2>1, StageOfWord DEF Mapped
    <2>3. Promise!Create(j)
      BY <1>1, <1>2, <1>3, <2>2 DEF CreateJob, Promise!Create
    <2>4. QED
      BY <2>3 DEF Promise!Next
  <1>4. CASE SetJobParameters(j) \/ Wait(j) \/ WaitInVain(j) \/ GetResults(j)
    <2>1. UNCHANGED <<held, status, portal>>
      BY <1>4 DEF SetJobParameters, Wait, WaitInVain, GetResults
    <2>2. QED
      BY <2>1 DEF stage, told, Promise!jobPromiseVars
  <1>5. CASE Submit(j)
    <2>1. /\ held[j] = "live" /\ held'[j] = "live"
          /\ status[j] = "created" /\ status'[j] = "submitted"
          /\ portal[j] = "none" /\ portal'[j] = "PENDING"
      BY <1>5 DEF Submit, JobOnly, TypeInv, TypeOK, PortalKnows
    <2>2. /\ stage[j] = "created" /\ stage'[j] = "submitted"
          /\ told[j] = "open" /\ told'[j] = "open"
      BY <2>1, StageOfWord DEF Mapped, Ended
    <2>3. Promise!Submit(j)
      BY <1>1, <1>2, <1>5, <2>2 DEF Submit, Promise!Submit
    <2>4. QED
      BY <2>3 DEF Promise!Next
  <1>6. CASE Check(j)
    <2>1. /\ held[j] = "live" /\ held' = held /\ portal' = portal
          /\ portal[j] \in InPortal
          /\ status'[j] = Told(portal[j])
          /\ \A i \in Job \ {j} : status'[i] = status[i]
      BY <1>6 DEF Check, JobOnly, TypeInv, TypeOK, PortalKnows, InPortal
    <2>2. stage'[j] = stage[j] /\ stage[j] = StageOf(portal[j])
      BY <2>1 DEF Mapped
    <2>3. stage' = stage
      BY <1>1, <1>2, <2>1, <2>2
    <2>4. CASE status[j] \in Ended
      <3>1. status'[j] = status[j]
        BY <2>1, <2>4 DEF EndsAreReal
      <3>2. told'[j] = told[j]
        BY <2>1, <3>1 DEF Mapped
      <3>3. told' = told
        BY <1>1, <1>2, <2>1, <3>2
      <3>4. QED
        BY <2>3, <3>3 DEF Promise!jobPromiseVars
    <2>5. CASE status[j] \notin Ended /\ status'[j] \in Ended
      <3>1. portal[j] \in {"COMPLETED", "FAILED", "CANCELLED"}
        BY <2>1, <2>5, ToldEnd DEF InPortal
      <3>2. stage[j] \in Promise!End
        BY <2>2, <3>1, StageOfWord
      <3>3. told[j] = "open" /\ told'[j] = stage[j]
        BY <2>1, <2>2, <2>5 DEF Mapped
      <3>4. Promise!Tell(j)
        BY <1>1, <2>1, <2>3, <3>2, <3>3 DEF Promise!Tell
      <3>5. QED
        BY <3>4 DEF Promise!Next
    <2>6. CASE status[j] \notin Ended /\ status'[j] \notin Ended
      <3>1. told'[j] = told[j]
        BY <2>1, <2>6 DEF Mapped
      <3>2. told' = told
        BY <1>1, <1>2, <2>1, <3>1
      <3>3. QED
        BY <2>3, <3>2 DEF Promise!jobPromiseVars
    <2>7. QED
      BY <2>4, <2>5, <2>6
  <1>7. CASE PortalStep(j) \/ Cancel(j)
    <2>1. /\ portal[j] \in {"PENDING", "WAITING"}
          /\ UNCHANGED <<held, status>>
      BY <1>7, PortalEffect
    <2>2. PICK word \in InPortal \ {"PENDING"} : portal' = [portal EXCEPT ![j] = word]
      BY <1>7, PortalEffect
    <2>3. portal'[j] = word /\ \A i \in Job \ {j} : portal'[i] = portal[i]
      BY <2>2 DEF TypeInv, TypeOK
    <2>4. status[j] \notin Ended
      BY <2>1, ToldEnd DEF EndsAreReal, InPortal
    <2>5. told'[j] = "open" /\ told[j] = "open"
      BY <2>1, <2>4 DEF Mapped
    <2>6. told' = told
      BY <1>1, <1>2, <2>1, <2>3, <2>5
    <2>7. CASE held[j] # "live" \/ word = "WAITING"
      <3>1. stage'[j] = stage[j]
        BY <2>1, <2>3, <2>7, StageOfWord DEF Mapped
      <3>2. stage' = stage
        BY <1>1, <1>2, <2>1, <2>3, <3>1
      <3>3. QED
        BY <2>6, <3>2 DEF Promise!jobPromiseVars
    <2>8. CASE held[j] = "live" /\ word # "WAITING"
      <3>1. word \in {"COMPLETED", "FAILED", "CANCELLED"}
        BY <2>8 DEF InPortal
      <3>2. stage[j] = "submitted" /\ stage'[j] \in Promise!End
        BY <2>1, <2>3, <2>8, <3>1, StageOfWord DEF Mapped
      <3>3. stage' = [stage EXCEPT ![j] = stage'[j]]
        BY <1>1, <2>1, <2>3
      <3>4. Promise!Finish(j)
        BY <2>6, <3>2, <3>3 DEF Promise!Finish
      <3>5. QED
        BY <3>4 DEF Promise!Next
    <2>9. QED
      BY <2>7, <2>8
  <1>8. CASE FreeJob(j)
    <2>1. /\ held[j] = "live" /\ held'[j] = "freed"
          /\ \A i \in Job \ {j} : held'[i] = held[i]
          /\ UNCHANGED <<status, portal>>
      BY <1>8 DEF FreeJob, JobOnly, TypeInv, TypeOK
    <2>2. portal[j] \in {"none"} \cup InPortal
      BY DEF TypeInv, TypeOK
    <2>3. stage[j] \notin {"none", "freed"}
      BY <2>1, <2>2, StageOfWord DEF Mapped, InPortal, Promise!End
    <2>4. stage'[j] = "freed" /\ told'[j] = "open"
      BY <2>1 DEF Mapped
    <2>5. Promise!Free(j)
      BY <1>1, <2>1, <2>3, <2>4 DEF Promise!Free
    <2>6. QED
      BY <2>5 DEF Promise!Next
  <1>9. QED
    BY <1>3, <1>4, <1>5, <1>6, <1>7, <1>8 DEF JobCall

(* The LRZ device does for its jobs what QdmiJob promises: whatever the    *)
(* sessions do and however check, wait, cancel and the portal interleave,  *)
(* a job is submitted once, ends in one way, and its client is told that   *)
(* end and no other.                                                       *)
THEOREM JobsImplementQdmiJob == Spec => Promise!Spec
  <1>1. Init => Promise!Init
    BY StageOfWord DEF Init, Promise!Init, stage, told
  <1>2. /\ TypeInv /\ EndsAreReal /\ EndsAreReal' /\ Mapped /\ Mapped'
        /\ [Next]_vars
        => [Promise!Next]_Promise!jobPromiseVars
    <2> SUFFICES ASSUME TypeInv, EndsAreReal, EndsAreReal', Mapped, Mapped',
                        [Next]_vars
                 PROVE  Promise!Next \/ UNCHANGED Promise!jobPromiseVars
      OBVIOUS
    <2>1. CASE DeviceCall \/ (\E s \in Session : SessionCall(s)) \/ UNCHANGED vars
      <3>1. UNCHANGED <<held, status, portal>>
        BY <2>1, JobsUntouched DEF jobVars
      <3>2. QED
        BY <3>1 DEF stage, told, Promise!jobPromiseVars
    <2>2. QED
      BY <2>1, JobImplements DEF Next
  <1>3. QED
    BY <1>1, <1>2, TypeInvariant, ToldEndsAreReal, StageTold, PTL
    DEF Spec, Promise!Spec
================================================================================
