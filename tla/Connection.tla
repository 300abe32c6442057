----------------------------- MODULE Connection -----------------------------
(***************************************************************************)
(* Dial of internal/sshclient/client.go: what an attempt to connect meets  *)
(* and how it is answered.  Nothing is changed by it, so it is a relation  *)
(* between a site and its possible answers.                                *)
(*                                                                         *)
(* A site is a record of                                                   *)
(*   knownHosts  whether the file is "readable"; missing and unparsable    *)
(*               files are refused alike                                   *)
(*   recorded    its keys for the address, in file order: their type and   *)
(*               the machine that owns them                                *)
(*   offers      the types of the host keys of the server                  *)
(*   sha2Only    it signs with its RSA key by SHA-2 only                   *)
(*   localName, mdns, dns    a name ending in .local, and the machine each *)
(*               way of resolving the name leads to, or "silent"           *)
(*   authentication, password    "none", or whether the server takes it    *)
(*   agent       "none", or whether the server takes one of its keys       *)
(*   selected, keys    the selected private key, or those of the default   *)
(*               names: "absent", "locked" (encrypted or not parsable), or *)
(*               whether the server takes it ("good", "refused")           *)
(***************************************************************************)
EXTENDS Naturals, Sequences

CONSTANT Rsa  \* the key type whose name also stands for signing by SHA-1

NoKey == [type |-> "none", machine |-> "none"]
Key(type, machine) == [type |-> type, machine |-> machine]
Refused(code) == [code |-> code, key |-> NoKey]

\* What the lists of a site hold.
IsSite(site) ==
  /\ site.recorded \in Seq({site.recorded[i] : i \in DOMAIN site.recorded})
  /\ \A i \in DOMAIN site.recorded :
       site.recorded[i] = Key(site.recorded[i].type, site.recorded[i].machine)
  /\ site.keys \in Seq({"absent", "locked", "good", "refused"})

-----------------------------------------------------------------------------
(***************************************************************************)
(* The host key.                                                           *)
(***************************************************************************)
\* resolveMDNS: a .local name is asked for by multicast, and may not be answered.
MulticastAnswers(site) == site.localName /\ site.mdns # "silent"

Machine(site) == IF MulticastAnswers(site) THEN site.mdns ELSE site.dns

\* Where an ssh that resolves the name by itself may come out: its system may
\* know multicast names or not.
Reachable(site) ==
  ({site.dns} \cup IF site.localName THEN {site.mdns} ELSE {}) \ {"silent"}

\* It takes a recorded key only, of a type the server has.
SshAccepts(site, machine) ==
  \E i \in DOMAIN site.recorded : /\ site.recorded[i].machine = machine
                                  /\ site.recorded[i].type \in site.offers

\* preferredHostKeyAlgorithms: the types recorded for the address, in file order.
\* The code lists a type once; a repeated one never is the first that can be used.
PreferredHostKeyAlgorithms(site) ==
  [i \in DOMAIN site.recorded |-> site.recorded[i].type]

\* The name of the RSA key type asks for a SHA-1 signature.
Signs(site, type) == type \in site.offers /\ ~(type = Rsa /\ site.sha2Only)

\* Fault: the client states no preference.
AnyType(site) == site.offers

\* The first type of the client that the server signs with; without a preference
\* the library proposes all types, in an order of its own.
NegotiatedTypes(site) ==
  LET asked  == PreferredHostKeyAlgorithms(site)
      usable == {i \in DOMAIN asked : Signs(site, asked[i])}
  IN IF asked = <<>> THEN site.offers
     ELSE {asked[i] : i \in {k \in usable : \A l \in usable : k <= l}}

\* Fault: any recorded key of that type will do.
RecordedType(site, key) == \E i \in DOMAIN site.recorded : site.recorded[i].type = key.type

\* The callback of NewHostKeyCallback.
IsRecorded(site, key) == \E i \in DOMAIN site.recorded : site.recorded[i] = key

-----------------------------------------------------------------------------
(***************************************************************************)
(* Authentication.                                                         *)
(***************************************************************************)
\* Fault: the agent is asked last.
FilesFirst(site) ==
  IF site.authentication = "password" THEN <<site.password>>
  ELSE site.keys \o <<site.agent>>

\* authenticationMethods: the agent and then the key files.
Methods(site) ==
  IF site.authentication = "password" THEN <<site.password>>
  ELSE <<site.agent>> \o site.keys

\* Those there are: an agent that does not answer and a missing file are left out.
Usable(site) == {i \in DOMAIN Methods(site) : Methods(site)[i] \notin {"none", "absent"}}

\* One key file that does not parse ends it, whatever the agent holds; of the
\* default names a missing one is passed over.
NoMethods(site) ==
  \/ site.authentication = "password" /\ site.password = "none"
  \/ /\ site.authentication = "key"
     /\ \/ \E i \in DOMAIN site.keys : site.keys[i] = "locked"
        \/ site.selected /\ site.keys[1] = "absent"
        \/ Usable(site) = {}

\* All the methods for keys have one name, and the library uses the first of a name.
Authenticates(site) ==
  \E i \in Usable(site) : Methods(site)[i] = "good" /\ \A k \in Usable(site) : i <= k

-----------------------------------------------------------------------------
\* The handshake shows the key first and authenticates afterwards.
Shaken(site, key) ==
  [code |-> IF ~IsRecorded(site, key) THEN "HOST_KEY_REJECTED"
            ELSE IF Authenticates(site) THEN "OK" ELSE "AUTHENTICATION_FAILED",
   key  |-> key]

\* Dial: the answers an attempt to connect may get.
Dials(site, answer) ==
  \/ /\ site.knownHosts # "readable"
     /\ answer = Refused("KNOWN_HOSTS_UNAVAILABLE")
  \/ /\ site.knownHosts = "readable" /\ NoMethods(site)
     /\ answer = Refused("AUTHENTICATION_FAILED")
  \/ /\ site.knownHosts = "readable" /\ ~NoMethods(site)
     /\ \/ Machine(site) = "silent" /\ answer = Refused("CONNECTION_FAILED")
        \/ /\ Machine(site) # "silent"
           /\ \/ NegotiatedTypes(site) = {} /\ answer = Refused("AUTHENTICATION_FAILED")
              \/ \E type \in NegotiatedTypes(site) :
                   answer = Shaken(site, Key(type, Machine(site)))
=============================================================================
