--------------------------- MODULE MCTunnelManager ---------------------------
(***************************************************************************)
(* TLC instances of TunnelManager: a required node with two kube targets,  *)
(* one of them optional, an optional node with one, and a plain one.  What *)
(* a node does with its files and kube targets are pure functions, which   *)
(* are checked for all the cases below in the initial state.               *)
(***************************************************************************)
EXTENDS TunnelManager, KubeTargets, SshTransport

CONSTANTS n1, n2, n3, k1, k2

MCKube == [n \in Nodes |-> CASE n = n1 -> {k1, k2} [] n = n2 -> {k2} [] OTHER -> {}]

AtStart == phase = "gather" /\ \A n \in Nodes : at[n] = "connect"

\* open_local_forwards and close_transport: see ForwardsRight.
ForwardsOpening == AtStart => \A n \in 0..4 : ForwardsRight(n)

-----------------------------------------------------------------------------
\* Sizes around the cap, stat without one or before the file grew or shrank.
RemoteFiles ==
  [stat : {Absent} \cup (0..(Cap + 1)), size : 0..(Cap + 2), fails : {"nothing"}]
    \cup [stat : {0}, size : {0}, fails : {"OSError", "SFTPError"}]

\* fetch_files: see FetchRight.
FileFetching == AtStart => FetchRight(RemoteFiles)

-----------------------------------------------------------------------------
Named(name, body) == [name |-> name, body |-> body]

Good == [scheme |-> "https", host |-> "api", port |-> Absent]

Servers ==
  {Absent, Good, [Good EXCEPT !.port = 6443], [Good EXCEPT !.port = Odd],
   [Good EXCEPT !.scheme = "http"], [Good EXCEPT !.host = Absent]}

Body == [server |-> Good, ca |-> "ca", tls |-> Absent, insecure |-> FALSE]

Clusters ==
  {Body} \cup {[Body EXCEPT !.server = s] : s \in Servers}
    \cup {[Body EXCEPT !.ca = c, !.tls = "old", !.insecure = i] : c \in {Absent, Odd, "ca"}, i \in BOOLEAN}

Kubeconfig ==
  [current |-> "x", contexts |-> <<Named("x", [cluster |-> "c", user |-> "u"])>>,
   clusters |-> <<Named("c", Body)>>, users |-> <<Named("u", [cert |-> "cert"])>>]

\* The cluster alone, after another, and before a second one of its name.
ClusterLists(b) ==
  LET other == Named("d", [Body EXCEPT !.tls = "d"])
      second == Named("c", [Body EXCEPT !.ca = "second"])
  IN {<<Named("c", b)>>, <<other, Named("c", b)>>, <<Named("c", b), second>>}

Kubeconfigs ==
  {[Kubeconfig EXCEPT !.clusters = l] : l \in UNION {ClusterLists(b) : b \in Clusters}}
    \cup {Malformed, [Kubeconfig EXCEPT !.current = Absent], [Kubeconfig EXCEPT !.current = "y"],
          [Kubeconfig EXCEPT !.contexts = <<Named("y", [cluster |-> "d", user |-> "u"])>> \o @],
          [Kubeconfig EXCEPT !.contexts[1].body.user = Absent],
          [Kubeconfig EXCEPT !.contexts[1].body.cluster = "d"],
          [Kubeconfig EXCEPT !.users = <<>>],
          [Kubeconfig EXCEPT !.users[1].body.cert = Odd],
          [Kubeconfig EXCEPT !.users[1].body.cert = Absent]}

Certs ==
  {Malformed, Odd, [dns |-> <<>>, ip |-> <<>>], [dns |-> <<"alt", "api">>, ip |-> <<>>],
   [dns |-> <<"alt">>, ip |-> <<"10">>], [dns |-> <<>>, ip |-> <<"10">>]}

\* What a document of texts and addresses can be.
Documents(texts, addresses) ==
  [current : texts,
   contexts : Seq([name : texts, body : [cluster : texts, user : texts]]),
   clusters : Seq([name : texts, body : [server : addresses, ca : texts, tls : texts,
                                         insecure : BOOLEAN]]),
   users : Seq([name : texts, body : [cert : texts]])]

LocalServers == [scheme : {"https"}, host : {"127.0.0.1"}, port : Nat]

Texts == {Absent, Odd, "x", "y", "c", "d", "u", "ca", "second", "cert", "old",
          "api", "alt", "10", "own", "k"}

\* A key that is missing is no value of another kind, nor an address, and bytes
\* that are no mapping are no document.
ASSUME KubeAssumption ==
  /\ Absent \notin {Odd, "alt", "api", "10"} /\ Absent \notin LocalServers
  /\ Malformed \notin Documents(Texts, Servers \cup LocalServers)

\* Every kubeconfig, certificate and policy, once it is read.
Targets ==
  [name : {"k"}, doc : Kubeconfigs, cert : Certs, override : {Absent, "own"},
   fallback : BOOLEAN, required : {TRUE}, refused : {FALSE},
   file : {[stat |-> 1, size |-> 1, fails |-> "nothing"]}]

\* Every way that one target can go.
Courses ==
  [name : {"k"},
   doc : {Kubeconfig, Malformed, [Kubeconfig EXCEPT !.clusters[1].body.server.scheme = "http"]},
   cert : {Malformed, Odd, [dns |-> <<"api">>, ip |-> <<>>]}, override : {Absent},
   fallback : BOOLEAN, required : BOOLEAN, refused : BOOLEAN,
   file : {[stat |-> 1, size |-> Cap, fails |-> "nothing"],
           [stat |-> 1, size |-> Cap + 1, fails |-> "nothing"],
           [stat |-> 1, size |-> 1, fails |-> "SFTPError"]}]

\* patch_view and the fields beside the file: see PatchRight.
KubePatching == AtStart => PatchRight(Targets)

\* _resolve_tls: see TlsRight.
KubeTls == AtStart => TlsRight(Targets)

\* run_kube_targets: see LoopRight.
KubeAccounting == AtStart => LoopRight(Courses)
=============================================================================
