---------------------------- MODULE DcdbSessionProofs ----------------------------
(***************************************************************************)
(* Theorems about DcdbSession, for every set of sessions, hosts, ports and *)
(* names, and the lemmas about its steps that DcdbQuery's proofs cite.     *)
(***************************************************************************)
EXTENDS DcdbSession, TLAPS

(* A step on the sessions: every step of the module that is not QueryOnly  *)
(* is one of these, or leaves the sessions alone but for crash.            *)
SessionStep(s) == SessionAlloc(s) \/ SetParameter(s) \/ SessionInitialize(s)

--------------------------------------------------------------------------------
(* Types.                                                                  *)

LEMMA PortsType == Ports \in Nat /\ Ports > 0 /\ DefaultPort \in 0 .. Ports - 1
  BY DEF Ports, DefaultPort

(* The port of a session fits into its uint16_t.                           *)
LEMMA ToPortType == ASSUME NEW n \in Nat PROVE ToPort(n) \in Port
  BY PortsType DEF ToPort, Port

(* Setting any value is a Configure with a well-typed configuration.       *)
LEMMA SetParameterConfigures ==
  ASSUME SessionTypeOK, NEW s \in Session, SetParameter(s), ~SetNullValue(s)
  PROVE  \E c \in Config : Configure(s, c)
  <1> config[s] \in Config
    BY DEF SessionTypeOK
  <1>1. ASSUME NEW h \in Host, SetHostname(s, h)
        PROVE  \E c \in Config : Configure(s, c)
    BY <1>1 DEF SetHostname, Config
  <1>2. ASSUME NEW h \in Host, NEW n \in PortText, SetHostnameAndPort(s, h, n)
        PROVE  \E c \in Config : Configure(s, c)
    <2>1. ToPort(n) \in Port
      BY ToPortType, SessionAssumption
    <2>2. [config[s] EXCEPT !.host = h, !.port = ToPort(n)] \in Config
      BY <2>1 DEF Config
    <2>3. QED
      BY <1>2, <2>2 DEF SetHostnameAndPort
  <1>3. ASSUME NEW u \in Name, SetUsername(s, u)
        PROVE  \E c \in Config : Configure(s, c)
    BY <1>3 DEF SetUsername, Config
  <1>4. ASSUME NEW p \in Name, SetPassword(s, p)
        PROVE  \E c \in Config : Configure(s, c)
    BY <1>4 DEF SetPassword, Config
  <1>5. QED
    BY <1>1, <1>2, <1>3, <1>4 DEF SetParameter

LEMMA SessionTypeInit == SessionInit => SessionTypeOK
  <1>1. DefaultConfig \in Config
    BY SessionAssumption, PortsType DEF DefaultConfig, Config, Port
  <1>2. QED
    BY <1>1 DEF SessionInit, SessionTypeOK, SessionStatus, Unchecked

LEMMA SessionTypeStep ==
  ASSUME SessionTypeOK, NEW s \in Session, SessionStep(s) \/ SessionFree(s)
  PROVE  SessionTypeOK'
  <1> USE DEF SessionTypeOK, SessionStatus
  <1>1. CASE SessionAlloc(s)
    BY <1>1 DEF SessionAlloc
  <1>2. CASE SetParameter(s)
    <2>1. CASE SetNullValue(s)
      BY <2>1 DEF SetNullValue, Unchecked
    <2>2. CASE ~SetNullValue(s)
      <3>1. PICK c \in Config : Configure(s, c)
        BY <1>2, <2>2, SetParameterConfigures
      <3>2. QED
        BY <3>1 DEF Configure
    <2>3. QED
      BY <2>1, <2>2
  <1>3. CASE SessionInitialize(s)
    BY <1>3 DEF SessionInitialize, Dial
  <1>4. CASE SessionFree(s)
    BY <1>4 DEF SessionFree, Unchecked
  <1>5. QED
    BY <1>1, <1>2, <1>3, <1>4 DEF SessionStep

LEMMA DeviceTypeStep ==
  ASSUME SessionTypeOK, DeviceInitialize \/ DeviceFinalize
  PROVE  SessionTypeOK'
  BY DEF SessionTypeOK, DeviceInitialize, DeviceFinalize

--------------------------------------------------------------------------------
(* The steps, with what they keep of the connections.                      *)

(* A session is initialized by the step that connects it, and no parameter *)
(* is accepted afterwards.                                                 *)
LEMMA ConnectedStep ==
  ASSUME SessionTypeOK, ConnectedAsConfigured, NEW s \in Session,
         SessionStep(s) \/ SessionFree(s)
  PROVE  ConnectedAsConfigured'
  <1> USE DEF SessionTypeOK, ConnectedAsConfigured
  <1>1. CASE SessionAlloc(s)
    BY <1>1 DEF SessionAlloc
  <1>2. CASE SetParameter(s)
    <2>1. CASE SetNullValue(s)
      BY <2>1 DEF SetNullValue, Unchecked
    <2>2. CASE ~SetNullValue(s)
      <3>1. PICK c \in Config : Configure(s, c)
        BY <1>2, <2>2, SetParameterConfigures
      <3>2. QED
        BY <3>1 DEF Configure
    <2>3. QED
      BY <2>1, <2>2
  <1>3. CASE SessionInitialize(s)
    BY <1>3 DEF SessionInitialize, Dial
  <1>4. CASE SessionFree(s)
    BY <1>4 DEF SessionFree
  <1>5. QED
    BY <1>1, <1>2, <1>3, <1>4 DEF SessionStep

--------------------------------------------------------------------------------

(* Every variable keeps its type: in particular a port fits into the 16    *)
(* bits of its field, whatever number the base url has.                    *)
THEOREM SessionTypeCorrect == SessionSpec => []SessionTypeOK
  <1>1. SessionTypeOK /\ [SessionNext]_sessionVars => SessionTypeOK'
    <2> SUFFICES ASSUME SessionTypeOK, [SessionNext]_sessionVars
                 PROVE  SessionTypeOK'
      OBVIOUS
    <2>1. CASE UNCHANGED sessionVars
      BY <2>1 DEF sessionVars, SessionTypeOK
    <2>2. QED
      BY <2>1, SessionTypeStep, DeviceTypeStep DEF SessionNext, SessionStep
  <1>2. QED
    BY <1>1, SessionTypeInit, PTL DEF SessionSpec

(* An initialized session is connected, and as it was configured, in every *)
(* order of parameters, refused and accepted connections, and frees.       *)
THEOREM SessionConnected == SessionSpec => []ConnectedAsConfigured
  <1>1. SessionInit => ConnectedAsConfigured
    BY DEF SessionInit, ConnectedAsConfigured
  <1>2. SessionTypeOK /\ ConnectedAsConfigured /\ [SessionNext]_sessionVars
          => ConnectedAsConfigured'
    <2> SUFFICES ASSUME SessionTypeOK, ConnectedAsConfigured,
                        [SessionNext]_sessionVars
                 PROVE  ConnectedAsConfigured'
      OBVIOUS
    <2>1. CASE UNCHANGED sessionVars \/ DeviceInitialize \/ DeviceFinalize
      BY <2>1
      DEF sessionVars, DeviceInitialize, DeviceFinalize, ConnectedAsConfigured
    <2>2. QED
      BY <2>1, ConnectedStep DEF SessionNext, SessionStep
  <1>3. QED
    BY <1>1, <1>2, SessionTypeCorrect, PTL DEF SessionSpec
================================================================================
