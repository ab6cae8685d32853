------------------------------ MODULE DcdbSession ------------------------------
(***************************************************************************)
(* The DCDB device (src/src/databases/dcdb): the device status and the     *)
(* sessions a client opens on it.  A session handle is allocated,          *)
(* configured, connected to the DCDB host by session_init, and freed.      *)
(***************************************************************************)
EXTENDS Naturals

CONSTANTS
  Session,         \* session handles; alloc returns each of them at most once
  Host,            \* host names a client may configure
  DefaultHost,     \* the host of a new session ("stor")
  PortText,        \* numbers a client may write after the ':' of a base url
  Name,            \* user names and passwords
  DefaultName,     \* the empty user name and password of a new session
  UncheckedCalls   \* the calls of Unchecked that the client makes

\* Calls the device neither refuses nor survives: free of a session without a
\* connection, wait on a query without a future, set_parameter with a value
\* that is NULL.
Unchecked == {"free_uninitialized", "wait_unsubmitted", "null_value"}

ASSUME SessionAssumption ==
  /\ DefaultHost \in Host
  /\ DefaultName \in Name
  /\ PortText \subseteq Nat
  /\ UncheckedCalls \subseteq Unchecked

Ports == 65536               \* the values of a uint16_t
Port == 0 .. Ports - 1
DefaultPort == 9042
ToPortWide(n) == n           \* mutant: the number as written
ToPort(n) == n % Ports       \* setPort(stoi(port)): an int narrowed to uint16_t

Config == [host: Host, port: Port, user: Name, password: Name]
DefaultConfig == [host |-> DefaultHost, port |-> DefaultPort,
                  user |-> DefaultName, password |-> DefaultName]

VARIABLES
  device,         \* the static device status
  sessionStatus,  \* status of each handle; "none" and "freed" are no object
  config,         \* hostname, port, username, password of each session
  link,           \* the session's DCDB::Connection: "null" is nullptr
  dialed,         \* the configuration that connection was created with
  crash           \* the calls that ended the process

sessionVars == <<device, sessionStatus, config, link, dialed, crash>>

SessionStatus == {"none", "allocated", "initialized", "freed"}

SessionTypeOK ==
  /\ device \in {"offline", "idle"}
  /\ sessionStatus \in [Session -> SessionStatus]
  /\ config \in [Session -> Config]
  /\ link \in [Session -> {"null", "refused", "open", "closed"}]
  /\ dialed \in [Session -> Config]
  /\ crash \subseteq Unchecked

SessionInit ==
  /\ device = "offline"
  /\ sessionStatus = [s \in Session |-> "none"]
  /\ config = [s \in Session |-> DefaultConfig]
  /\ link = [s \in Session |-> "null"]
  /\ dialed = [s \in Session |-> DefaultConfig]
  /\ crash = {}

Up == crash = {}    \* the process has not ended

--------------------------------------------------------------------------------
(* Device control: nothing else reads or writes the device status.         *)

DeviceInitialize ==
  /\ Up
  /\ device' = "idle"
  /\ UNCHANGED <<sessionStatus, config, link, dialed, crash>>

DeviceFinalize ==
  /\ Up
  /\ device' = "offline"
  /\ UNCHANGED <<sessionStatus, config, link, dialed, crash>>

--------------------------------------------------------------------------------
(* Sessions.                                                               *)

SessionAlloc(s) ==
  /\ Up
  /\ sessionStatus[s] = "none"
  /\ sessionStatus' = [sessionStatus EXCEPT ![s] = "allocated"]
  /\ UNCHANGED <<device, config, link, dialed, crash>>

ConfigureAlways(s, c) ==   \* mutant: no BADSTATE test
  /\ Up
  /\ sessionStatus[s] \in {"allocated", "initialized"}
  /\ config' = [config EXCEPT ![s] = c]
  /\ UNCHANGED <<device, sessionStatus, link, dialed, crash>>

\* set_parameter is refused (BADSTATE) unless the session is ALLOCATED.
Configure(s, c) ==
  /\ Up
  /\ sessionStatus[s] = "allocated"
  /\ config' = [config EXCEPT ![s] = c]
  /\ UNCHANGED <<device, sessionStatus, link, dialed, crash>>

\* BASEURL without a ':' replaces the host and keeps the port.
SetHostname(s, h) == Configure(s, [config[s] EXCEPT !.host = h])

\* BASEURL with a ':' replaces both.
SetHostnameAndPort(s, h, n) ==
  Configure(s, [config[s] EXCEPT !.host = h, !.port = ToPort(n)])

SetUsername(s, u) == Configure(s, [config[s] EXCEPT !.user = u])
SetPassword(s, p) == Configure(s, [config[s] EXCEPT !.password = p])

\* The value NULL passes the argument test, is to be ignored by the
\* documentation, and is read as a string.
SetNullValue(s) ==
  /\ Up
  /\ sessionStatus[s] = "allocated"
  /\ "null_value" \in UncheckedCalls
  /\ crash' = crash \cup {"null_value"}
  /\ UNCHANGED <<device, sessionStatus, config, link, dialed>>

SetParameter(s) ==
  \/ SetNullValue(s)
  \/ \E h \in Host : SetHostname(s, h)
  \/ \E h \in Host, n \in PortText : SetHostnameAndPort(s, h, n)
  \/ \E u \in Name : SetUsername(s, u)
  \/ \E p \in Name : SetPassword(s, p)

\* A new connection dials the host; a refused attempt leaves the connection
\* object in place and the status ALLOCATED.
Dial(s) ==
  /\ Up
  /\ dialed' = [dialed EXCEPT ![s] = config[s]]
  /\ \/ /\ link' = [link EXCEPT ![s] = "open"]
        /\ sessionStatus' = [sessionStatus EXCEPT ![s] = "initialized"]
     \/ /\ link' = [link EXCEPT ![s] = "refused"]
        /\ UNCHANGED sessionStatus
  /\ UNCHANGED <<device, config, crash>>

\* session_init: FATAL when there is a connection already, even a refused one.
SessionInitialize(s) ==
  /\ sessionStatus[s] \in {"allocated", "initialized"}
  /\ link[s] = "null"
  /\ Dial(s)

\* session_free: the destructor calls disconnect() on the connection, whatever
\* it is; a session that was never initialized has none, although it must be
\* freed too, and the process ends.
SessionFree(s) ==
  /\ Up
  /\ sessionStatus[s] \in {"allocated", "initialized"}
  /\ \/ /\ link[s] # "null"
        /\ link' = [link EXCEPT ![s] = "closed"]
        /\ sessionStatus' = [sessionStatus EXCEPT ![s] = "freed"]
        /\ UNCHANGED crash
     \/ /\ link[s] = "null"
        /\ "free_uninitialized" \in UncheckedCalls
        /\ crash' = crash \cup {"free_uninitialized"}
        /\ UNCHANGED <<link, sessionStatus>>
  /\ UNCHANGED <<device, config, dialed>>

--------------------------------------------------------------------------------

SessionNext ==
  \/ DeviceInitialize \/ DeviceFinalize
  \/ \E s \in Session : \/ SessionAlloc(s) \/ SetParameter(s)
                       \/ SessionInitialize(s) \/ SessionFree(s)

SessionSpec == SessionInit /\ [][SessionNext]_sessionVars

--------------------------------------------------------------------------------
(* An initialized session is connected, and connected as the client        *)
(* configured it: parameters set too late, and second attempts after a     *)
(* refused one, never leave the session and its connection in disagreement *)
(* (set_parameter, connect).                                               *)
ConnectedAsConfigured ==
  \A s \in Session : sessionStatus[s] = "initialized" =>
    link[s] = "open" /\ dialed[s] = config[s]
================================================================================
