----------------------------- MODULE MCCommands -----------------------------
(* Small instances of Commands: every kind of site for a preview, and for each
   other command a familiar site that takes the agent's key. *)
EXTENDS Commands, FiniteSets

Types == {"ecdsa", "rsa"}
RecordedKeys == {Key("ecdsa", "genuine"), Key("rsa", "genuine"), Key("ecdsa", "other")}
RecordedLists == {<<>>} \cup {<<k>> : k \in RecordedKeys}
                 \cup {<<k, l>> : k \in RecordedKeys, l \in RecordedKeys}

Familiarity == [knownHosts |-> "readable", recorded |-> <<Key("ecdsa", "genuine")>>,
                offers |-> Types, sha2Only |-> TRUE, localName |-> FALSE,
                mdns |-> "silent", dns |-> "genuine", authentication |-> "key",
                password |-> "none", agent |-> "good", selected |-> FALSE,
                keys |-> <<"absent", "absent">>]

Hosts ==
  {[Familiarity EXCEPT !.recorded = recorded, !.offers = offers, !.sha2Only = sha2Only,
                       !.dns = dns] :
     recorded \in RecordedLists, offers \in (SUBSET Types) \ {{}}, sha2Only \in BOOLEAN,
     dns \in {"genuine", "other"}}
Names ==
  {[Familiarity EXCEPT !.localName = TRUE, !.mdns = mdns, !.dns = dns] :
     mdns \in {"silent", "genuine", "other"}, dns \in {"silent", "genuine", "other"}}
  \cup {[Familiarity EXCEPT !.knownHosts = "missing"]}

KeyStates == {"absent", "locked", "good", "refused"}
Credentials ==
  {[Familiarity EXCEPT !.agent = agent, !.keys = <<first, second>>] :
     agent \in {"none", "good", "refused"}, first \in KeyStates, second \in KeyStates}
  \cup {[Familiarity EXCEPT !.agent = agent, !.selected = TRUE, !.keys = <<key>>] :
          agent \in {"none", "good", "refused"}, key \in KeyStates}
  \cup {[Familiarity EXCEPT !.authentication = "password", !.password = password] :
          password \in {"none", "good", "refused"}}

\* The system resolves the name in another way, and the other machine is known too.
TwoMachines == [Familiarity EXCEPT !.recorded = <<Key("ecdsa", "genuine"), Key("ecdsa", "other")>>,
                                   !.localName = TRUE, !.mdns = "genuine", !.dns = "other"]

Sites == Hosts \cup Names \cup Credentials

AllModes == {"private", "shared", "public", "special"}
ModeGrants == [mode \in AllModes |->
  [owner |-> {"read", "traverse"},
   group |-> IF mode = "private" THEN {} ELSE {"read", "traverse"},
   other |-> IF mode \in {"private", "shared"} THEN {} ELSE {"read", "traverse"}]]
WithoutSpecial == [mode \in AllModes |-> IF mode = "special" THEN "public" ELSE mode]

TwoSources == {[content |-> "old", mode |-> "special", time |-> "t1"],
               [content |-> "new", mode |-> "public", time |-> "t2"]}

Entry(kind, content, mode, gid) ==
  [kind |-> kind, content |-> content, mode |-> mode, uid |-> 2, gid |-> gid, time |-> "now"]
Parent == Entry("directory", "none", "public", "users")
Folder == Entry("directory", "none", "shared", "users")
Theirs == Entry("file", "theirs", "private", "users")
Same   == Entry("file", "old", "private", "users")
Link   == Entry("symlink", "none", "public", "users")
Alias  == Entry("symlink", "old", "public", "users")

SmallBefore ==
  {[parent |-> Parent, target |-> target, inside |-> Nothing] :
     target \in {Nothing, Theirs, Link}}
  \cup {[parent |-> Parent, target |-> Folder, inside |-> inside] :
          inside \in {Nothing, Theirs}}
Meddlers == {Theirs, Same, Folder, Alias}

ServerAccounts == [media |-> [uid |-> 3, groups |-> {"media"}],
                   root  |-> [uid |-> 0, groups |-> {}],
                   them  |-> [uid |-> 2, groups |-> {"users"}]]

To(op) == [NoRequest EXCEPT !.op = op]
Copies == {"copy", "upload", "rsync"}
Requests ==
       {[To(op) EXCEPT !.policy = policy] : op \in Copies, policy \in {Preserve, "private"}}
  \cup {[To(op) EXCEPT !.overwrite = TRUE, !.preserveTime = TRUE, !.policy = Preserve,
                       !.group = "media"] : op \in Copies}
  \cup {[To(op) EXCEPT !.policy = "shared", !.group = group, !.readableBy = account,
                       !.absolute = absolute] :
          op \in {"copy", "rsync"}, group \in {NoGroup, "media", "nobody"},
          account \in {"media", "nobody"}, absolute \in BOOLEAN}
  \cup {[To(op) EXCEPT !.noClobber = TRUE, !.readableBy = "media"] : op \in {"copy", "upload"}}
  \cup {[To(op) EXCEPT !.dryRun = TRUE, !.overwrite = overwrite, !.readableBy = "media"] :
          op \in {"copy", "rsync"}, overwrite \in BOOLEAN}
  \cup {[To("download") EXCEPT !.overwrite = overwrite] : overwrite \in BOOLEAN}
  \cup {[To("check") EXCEPT !.readableBy = account] : account \in {"media", "root", "them"}}
  \cup {To("verify")}

Run(request) == [request |-> request, site |-> Familiarity]
Preview(site) == [request |-> To("preview"), site |-> site]
Elsewhere(request) == [request |-> request, site |-> TwoMachines]
AbroadRequests == {[To("rsync") EXCEPT !.overwrite = overwrite, !.dryRun = dryRun] :
                     overwrite \in BOOLEAN, dryRun \in BOOLEAN}

AllLines == {Run(request) : request \in Requests \cup {To("rsync")}
                            \cup {[To("rsync") EXCEPT !.overwrite = TRUE],
                                  [To("rsync") EXCEPT !.policy = "shared"]}}
            \cup {Preview(site) : site \in Sites}
            \cup {Elsewhere(request) : request \in AbroadRequests}

\* One command, or one that is followed by a retry or by a command that looks.
SmallScripts ==
  {<<Run(request)>> : request \in Requests} \cup {<<Preview(site)>> : site \in Sites}
  \cup {<<Elsewhere(request)>> : request \in AbroadRequests}
  \cup {<<Run(To("rsync")), Run([To("rsync") EXCEPT !.overwrite = overwrite])>> :
          overwrite \in BOOLEAN}
  \cup {<<Run([To("rsync") EXCEPT !.policy = "shared"]), Run(request)>> :
          request \in {To("verify"), [To("check") EXCEPT !.readableBy = "media"]}}
=============================================================================
