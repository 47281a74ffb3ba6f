----------------------------- MODULE KubeTargets -----------------------------
(***************************************************************************)
(* Kube mode: run_kube_targets for one node, as a fold over its targets.   *)
(* A kubeconfig is fetched, parsed, its server forwarded, the certificate  *)
(* behind the forward probed for a name, and the document patched in place.*)
(*                                                                         *)
(* A document is a record of current-context and three lists of named      *)
(* bodies; Absent stands for a key that is missing, empty or no string     *)
(* where a string is demanded, Odd for a value of the wrong type where     *)
(* the code looks at the type.  A user's certificate and key are one value *)
(* and warnings that skip nothing (contexts ignored, names fallen back to) *)
(* are left out.                                                           *)
(***************************************************************************)
EXTENDS Fetcher

CONSTANTS
  Odd,        \* a value that is no string
  Malformed   \* bytes that are no YAML mapping

-----------------------------------------------------------------------------
(* parse_kubeconfig *)

\* _find_named: the first entry with that name, as a set of at most one body.
FindNamed(items, name) ==
  {items[i].body : i \in {SelectInSeq(items, LAMBDA e : e.name = name)} \ {0}}

\* _string_field: a missing value is an empty string.
StringField(value) == IF value = Absent THEN "" ELSE value

\* The view of the current context, or nothing for KubeParseError.
ParseKubeconfig(doc) ==
  LET contexts == {x \in FindNamed(doc.contexts, doc.current) :
                     x.cluster # Absent /\ x.user # Absent}
      views == {[context |-> doc.current, cluster |-> x.cluster, user |-> x.user,
                 body |-> FindNamed(doc.clusters, x.cluster),
                 owner |-> FindNamed(doc.users, x.user)] : x \in contexts}
  IN IF doc = Malformed THEN {}
     ELSE {v \in views : /\ doc.current # Absent
                         /\ v.owner # {} /\ Odd \notin {u.cert : u \in v.owner}
                         /\ \E b \in v.body : b.server # Absent /\ b.ca # Odd}

\* The one member of view.body.
ClusterOf(view) == CHOOSE b \in view.body : TRUE

\* kube._split_host_port: https only, a host, and 443 without a port.
SplitServer(server) ==
  {[host |-> server.host, port |-> IF server.port = Absent THEN 443 ELSE server.port] :
     ok \in {TRUE} \cap {server.scheme = "https" /\ server.host # Absent /\ server.port # Odd}}

-----------------------------------------------------------------------------
(* The TLS name and the patch *)

\* sans_from_cert: no certificate to speak of has no names.
SansFromCert(cert) == IF cert = Malformed THEN [dns |-> <<>>, ip |-> <<>>] ELSE cert

\* choose_tls_server_name: the host if the certificate has it, else its first
\* DNS name, else its first address.
ChooseTlsServerName(host, sans) ==
  IF host \in ToSet(sans.dns) \cup ToSet(sans.ip) THEN host
  ELSE IF sans.dns # <<>> THEN sans.dns[1]
  ELSE IF sans.ip # <<>> THEN sans.ip[1]
  ELSE Absent

\* Mutant: insecure_fallback wins over the names of the certificate.
ResolveTlsInsecurely(target, host, cert) ==
  IF target.override # Absent THEN [name |-> target.override, insecure |-> FALSE]
  ELSE IF target.fallback THEN [name |-> Absent, insecure |-> TRUE]
  ELSE [name |-> ChooseTlsServerName(host, SansFromCert(cert)), insecure |-> FALSE]

\* _resolve_tls: the override, the name of the certificate, or the policy.
ResolveTls(target, host, cert) ==
  IF target.override # Absent THEN [name |-> target.override, insecure |-> FALSE]
  ELSE LET chosen == ChooseTlsServerName(host, SansFromCert(cert))
       IN [name |-> chosen, insecure |-> chosen = Absent /\ target.fallback]

LocalServer(port) == [scheme |-> "https", host |-> "127.0.0.1", port |-> port]

\* The body of a patched cluster.  On the secure path a flag
\* insecure-skip-tls-verify that the file brought along stays.
PatchBody(body, port, tls) ==
  [body EXCEPT !.server = LocalServer(port), !.tls = tls.name,
               !.insecure = @ \/ tls.insecure,
               !.ca = IF tls.insecure THEN Absent ELSE @]

\* Mutant: every cluster of the document is patched.
PatchViewAll(doc, view, port, tls) ==
  [doc EXCEPT !.clusters = [i \in DOMAIN @ |-> [@[i] EXCEPT !.body = PatchBody(@, port, tls)]]]

\* patch_view: the first cluster of that name.
PatchView(doc, view, port, tls) ==
  LET i == SelectInSeq(doc.clusters, LAMBDA e : e.name = view.cluster)
  IN [doc EXCEPT !.clusters[i].body = PatchBody(@, port, tls)]

\* KubeTargetOutput: the fields beside the file.
KubeOutput(doc, view, port, tls) ==
  [cluster |-> view.cluster, context |-> view.context, port |-> port,
   tls |-> IF tls.insecure THEN Absent ELSE tls.name,
   ca |-> IF tls.insecure THEN "" ELSE StringField(ClusterOf(view).ca),
   cert |-> {StringField(u.cert) : u \in view.owner},
   content |-> PatchView(doc, view, port, tls)]

-----------------------------------------------------------------------------
(* run_kube_targets *)

Untouched == [outputs |-> <<>>, failures |-> {}, skipped |-> {}, listening |-> {},
              ports |-> 0, raised |-> FALSE]

\* A warning, a required failure if it is one, and on to the next target.
Skip(state, target) ==
  [state EXCEPT !.skipped = @ \cup {target.name},
                !.failures = IF target.required THEN @ \cup {target.name} ELSE @]

\* An exception that the loop does not catch.
Raised(state) == [state EXCEPT !.raised = TRUE]

\* Mutant: a target without a TLS name leaves its listener open.
ForwardedLeaking(state, target, doc, view, host) ==
  LET port == state.ports + 1
      opened == [state EXCEPT !.ports = port, !.listening = @ \cup {port}]
      tls == ResolveTls(target, host, target.cert)
  IN IF target.override = Absent /\ target.cert = Odd THEN Raised(opened)
     ELSE IF tls.name = Absent /\ ~tls.insecure THEN Skip(opened, target)
     ELSE [opened EXCEPT !.outputs =
             [n \in DOMAIN @ \cup {target.name} |->
                IF n = target.name THEN KubeOutput(doc, view, port, tls) ELSE @[n]]]

\* From forward_local_port on, each listener on a port of its own: the probe
\* may raise, and without a name the listener is closed again.
Forwarded(state, target, doc, view, host) ==
  LET port == state.ports + 1
      opened == [state EXCEPT !.ports = port, !.listening = @ \cup {port}]
      closed == [state EXCEPT !.ports = port]
      tls == ResolveTls(target, host, target.cert)
  IN IF target.override = Absent /\ target.cert = Odd THEN Raised(opened)
     ELSE IF tls.name = Absent /\ ~tls.insecure THEN Skip(closed, target)
     ELSE [opened EXCEPT !.outputs =
             [n \in DOMAIN @ \cup {target.name} |->
                IF n = target.name THEN KubeOutput(doc, view, port, tls) ELSE @[n]]]

\* One target.  A timeout, an OSError (the cap among them) and a document that
\* cannot be used are skipped; an SFTP error and a refused forward raise.
KubeStep(state, target) ==
  LET read == ReadCapped(target.file)
      views == ParseKubeconfig(target.doc)
      view == CHOOSE v \in views : TRUE
      servers == SplitServer(ClusterOf(view).server)
  IN IF state.raised THEN state
     ELSE IF Failed(read) /\ read.error = "SFTPError" THEN Raised(state)
     ELSE IF Failed(read) \/ views = {} THEN Skip(state, target)
     ELSE IF servers = {} THEN Skip(state, target)
     ELSE IF target.refused THEN Raised(state)
     ELSE Forwarded(state, target, target.doc, view, (CHOOSE s \in servers : TRUE).host)

RunKubeTargets(targets) == FoldLeft(KubeStep, Untouched, targets)

-----------------------------------------------------------------------------
(* What is checked *)

\* A patched kubeconfig leads where its fields say: read again it has the same
\* context, cluster and credentials, its server is the local end of the
\* forward, and everything that the current context does not use is as it was,
\* be there other clusters, or a second entry of the same name.
PatchRight(targets) ==
  \A t \in targets : \A n \in DOMAIN RunKubeTargets(<<t>>).outputs :
    LET out == RunKubeTargets(<<t>>).outputs[n]
        before == ParseKubeconfig(t.doc)
        after == ParseKubeconfig(out.content)
        used == {i \in DOMAIN t.doc.clusters : t.doc.clusters[i] # out.content.clusters[i]}
    IN /\ Cardinality(after) = 1
       /\ \A v \in before, w \in after :
            /\ <<w.context, w.cluster, w.user, w.owner>> = <<v.context, v.cluster, v.user, v.owner>>
            /\ <<out.context, out.cluster>> = <<v.context, v.cluster>>
            /\ ClusterOf(w).server = LocalServer(out.port)
            /\ StringField(ClusterOf(w).ca) = out.ca /\ ClusterOf(w).tls = out.tls
       /\ Cardinality(used) <= 1 /\ \A i \in used : t.doc.clusters[i].name = out.cluster
       /\ [out.content EXCEPT !.clusters = <<>>] = [t.doc EXCEPT !.clusters = <<>>]

\* Verification is not lost: the file skips it only if the remote file already
\* did, or if the target allows that and the certificate behind the forward has
\* no name at all; otherwise it demands a name, the target's own or one that the
\* certificate carries.
TlsRight(targets) ==
  \A t \in targets : \A n \in DOMAIN RunKubeTargets(<<t>>).outputs :
    LET out == RunKubeTargets(<<t>>).outputs[n]
        v == CHOOSE v \in ParseKubeconfig(t.doc) : TRUE
        w == CHOOSE w \in ParseKubeconfig(out.content) : TRUE
        sans == SansFromCert(t.cert)
        names == ToSet(sans.dns) \cup ToSet(sans.ip)
    IN /\ ClusterOf(w).insecure =>
            \/ ClusterOf(v).insecure
            \/ t.fallback /\ t.override = Absent /\ names = {}
       /\ out.tls \in IF t.override # Absent THEN {t.override}
                      ELSE IF names # {} THEN names ELSE {Absent}
       /\ out.tls = Absent => ClusterOf(w).insecure /\ out.ca = ""

\* Whatever happens to one target, the loop accounts for each: an output and
\* an open listener of its own, or a warning and nothing left open, and the
\* required ones without an output are the failures.  Only an exception leaves
\* a listener without an output, and the node then closes its connection.
LoopRight(targets) ==
  \A s, t \in targets :
    LET pair == <<[s EXCEPT !.name = "s"], [t EXCEPT !.name = "t"]>>
        got == RunKubeTargets(pair)
        up == DOMAIN got.outputs
    IN /\ up \cap got.skipped = {}
       /\ got.failures = {pair[i].name : i \in {j \in DOMAIN pair : pair[j].required}} \cap got.skipped
       /\ Cardinality({got.outputs[n].port : n \in up}) = Cardinality(up)
       /\ ~got.raised =>
            /\ up \cup got.skipped = {"s", "t"}
            /\ got.listening = {got.outputs[n].port : n \in up}
=============================================================================
