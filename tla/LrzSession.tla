------------------------------- MODULE LrzSession -------------------------------
(***************************************************************************)
(* The LRZ device (src/src/datacenters/lrz): the device status and the     *)
(* sessions.  A session talks to the quantum portal through an MQSS client *)
(* and describes one of the portal's resources: its sites, its operations  *)
(* and its coupling map are lists the session fills from the resource.     *)
(* A client sets no empty url and asks for resources the portal knows; the *)
(* value it passes is not NULL, which set_parameter makes a string of      *)
(* without a test.                                                         *)
(***************************************************************************)
EXTENDS Naturals, Sequences

CONSTANTS
  Session,          \* session handles; alloc returns each of them at most once
  Url,              \* base urls; client and environment choose among them
  PortalUrl,        \* the url of the environment variable, or its default
  NoUrl,            \* the url of a session whose client is not connected
  Resource,         \* names of the portal's resources
  DefaultResource,  \* the resource of the environment variable, or its default
  Qubits,           \* the number of qubits of each resource
  Gate,             \* the qubits the native gate of each resource supports
  Coupling,         \* the qubits of its coupling map, pair after pair
  MaxResources      \* bound: how often the resource of a session is set

ASSUME LrzAssumption ==
  /\ PortalUrl \in Url
  /\ NoUrl \notin Url
  /\ DefaultResource \in Resource
  /\ Qubits \in [Resource -> Nat]
  /\ \A r \in Resource : /\ Gate[r] \in Seq(0 .. Qubits[r] - 1)
                         /\ Coupling[r] \in Seq(0 .. Qubits[r] - 1)
  /\ MaxResources \in Nat

VARIABLES
  device,      \* the static device status
  live,        \* "none", "live" or "freed"
  url,         \* the base url of each session
  client,      \* the url its MQSS client was created with
  resources,   \* the resources it was given, the last one is its resource
  sites,       \* the qubit index of each of its sites
  operations,  \* the qubit index of each site its operations are defined on
  couplingMap  \* the qubit index of each site of its coupling map

lrzSessionVars == <<live, url, client, resources, sites, operations, couplingMap>>

Index == Nat

SessionTypeOK ==
  /\ device \in {"offline", "idle", "busy"}
  /\ live \in [Session -> {"none", "live", "freed"}]
  /\ url \in [Session -> Url]
  /\ client \in [Session -> Url \cup {NoUrl}]
  /\ resources \in [Session -> Seq(Resource)]
  /\ sites \in [Session -> Seq(Index)]
  /\ operations \in [Session -> Seq(Index)]
  /\ couplingMap \in [Session -> Seq(Index)]

SessionInit ==
  /\ device = "offline"
  /\ live = [s \in Session |-> "none"]
  /\ url = [s \in Session |-> PortalUrl]
  /\ client = [s \in Session |-> NoUrl]
  /\ resources = [s \in Session |-> <<>>]
  /\ sites = [s \in Session |-> <<>>]
  /\ operations = [s \in Session |-> <<>>]
  /\ couplingMap = [s \in Session |-> <<>>]

--------------------------------------------------------------------------------

DeviceInitialize == device' = "idle" /\ UNCHANGED lrzSessionVars
DeviceFinalize == device' = "offline" /\ UNCHANGED lrzSessionVars

SessionAlloc(s) ==
  /\ live[s] = "none"
  /\ live' = [live EXCEPT ![s] = "live"]
  /\ UNCHANGED <<device, url, client, resources, sites, operations, couplingMap>>

SessionFree(s) ==
  /\ live[s] = "live"
  /\ live' = [live EXCEPT ![s] = "freed"]
  /\ UNCHANGED <<device, url, client, resources, sites, operations, couplingMap>>

SetUrl(s, u) ==
  /\ live[s] = "live"
  /\ url' = [url EXCEPT ![s] = u]
  /\ UNCHANGED <<device, live, client, resources, sites, operations, couplingMap>>

\* setSites clears the list when it is empty and then appends a site per qubit.
NewSitesFromOne(r) == [i \in 1 .. Qubits[r] |-> i]        \* mutant
NewSites(r) == [i \in 1 .. Qubits[r] |-> i - 1]

\* sites.at(qubit) for each of the qubits.
SitesAt(list, qubits) == [i \in DOMAIN qubits |-> list[qubits[i] + 1]]

\* setResource: setOperations and setCouplingMap use the sites setSites left,
\* and like it append to their lists.
Describe(s, r) ==
  LET list == sites[s] \o NewSites(r)
  IN /\ Len(resources[s]) < MaxResources
     /\ resources' = [resources EXCEPT ![s] = Append(@, r)]
     /\ sites' = [sites EXCEPT ![s] = list]
     /\ operations' = [operations EXCEPT ![s] = @ \o SitesAt(list, Gate[r])]
     /\ couplingMap' = [couplingMap EXCEPT ![s] = @ \o SitesAt(list, Coupling[r])]

SetResource(s, r) ==
  /\ live[s] = "live"
  /\ client[s] # NoUrl
  /\ Describe(s, r)
  /\ UNCHANGED <<device, live, url, client>>

\* session_init replaces the url, unless it is empty, connects, and sets the
\* default resource.
SessionInitialize(s) ==
  /\ live[s] = "live"
  /\ url' = [url EXCEPT ![s] = PortalUrl]
  /\ client' = [client EXCEPT ![s] = PortalUrl]
  /\ Describe(s, DefaultResource)
  /\ UNCHANGED <<device, live>>

--------------------------------------------------------------------------------
(* The lists of a session describe one resource: a qubit has one site and  *)
(* an operation is defined on the sites of its qubits.                     *)
Describes(s, r) ==
  /\ sites[s] = [i \in 1 .. Qubits[r] |-> i - 1]
  /\ operations[s] = Gate[r]
  /\ couplingMap[s] = Coupling[r]

(* A session given one resource, as session_init does, describes it.       *)
OneResourceExact ==
  \A s \in Session : Len(resources[s]) = 1 => Describes(s, resources[s][1])

(* "Set the session's resource": the lists describe the resource that was  *)
(* set last, whatever resources the session had before (setResource).      *)
LastResourceExact ==
  \A s \in Session : LET n == Len(resources[s]) IN
    n > 0 => Describes(s, resources[s][n])
================================================================================
