------------------------------ MODULE EnvRender ------------------------------
(***************************************************************************)
(* How the names of a schema become environment variables, shell exports   *)
(* and file names: envrender.py and the names manager.py gives to          *)
(* materialized kubeconfigs.                                               *)
(*                                                                         *)
(* A variable TUNSTRAP_<base>_<suffix> is the pair <<base, suffix>>: no     *)
(* suffix has an underscore, so the text determines the pair.              *)
(***************************************************************************)
EXTENDS CliInput

ToUpper == [c \in Lower |-> IF c = "a" THEN "A" ELSE "B"]

\* _key.
Key(name) ==
  [i \in DOMAIN name |->
     IF name[i] \in Lower THEN ToUpper[name[i]]
     ELSE IF name[i] \in Upper \cup Digits THEN name[i] ELSE "_"]

\* The variables put for a node: the ports' three each, the kube targets' two.
Puts(node) ==
  (node.ports \X {"HOST", "PORT", "ENDPOINT"} \X {"port"})
    \cup (node.kube \X {"KUBECONFIG", "ENDPOINT"} \X {"kube"})

Variable(put) == <<Key(put[1]), put[2]>>

Fixed(node) ==
  {"TUNSTRAP_SESSION_DIR", "TUNSTRAP_PID"} \cup IF node.kube = {} THEN {} ELSE {"KUBECONFIG"}

\* Mutant: put overwrites.
RenderEnvOverwriting(nodes) ==
  {[named |-> {Variable(p) : p \in Puts(nodes[1])}, fixed |-> Fixed(nodes[1])] :
     n \in {m \in DOMAIN nodes : Len(nodes) = 1 /\ (nodes[m].kube = {} \/ nodes[m].paths)}}

\* render_env: the variables of the one node, or an error for another number
\* of nodes, for kube targets that have no file, and for a key put twice.
RenderEnv(nodes) ==
  {[named |-> {Variable(p) : p \in Puts(nodes[1])}, fixed |-> Fixed(nodes[1])] :
     n \in {m \in DOMAIN nodes :
              /\ Len(nodes) = 1
              /\ nodes[m].kube = {} \/ nodes[m].paths
              /\ \A p, q \in Puts(nodes[m]) : Variable(p) = Variable(q) => p = q}}

\* The node of a start from flags, with every target up and materialized.
FlagNode(f) ==
  [ports |-> UNION {DOMAIN d : d \in ParseNamed(f.targets)},
   kube  |-> UNION {DOMAIN d : d \in ParseNamed(f.kube)},
   paths |-> TRUE]

-----------------------------------------------------------------------------
(* format_exports *)

\* _shell_single_quote.
Quote(value) ==
  FlattenSeq([i \in DOMAIN value |->
    IF value[i] = "'" THEN <<"'", "\\", "'", "'">> ELSE <<value[i]>>])

\* The value of an export line.
Exported(value) == <<"'">> \o Quote(value) \o <<"'">>

\* How a POSIX shell reads a word of quoted and escaped parts.
ShellStep(state, c) ==
  CASE state.mode = "quoted" /\ c # "'" -> [state EXCEPT !.word = Append(@, c)]
    [] state.mode = "quoted" /\ c = "'" -> [state EXCEPT !.mode = "bare"]
    [] state.mode = "escape" -> [mode |-> "bare", word |-> Append(state.word, c)]
    [] state.mode = "bare" /\ c = "'" -> [state EXCEPT !.mode = "quoted"]
    [] state.mode = "bare" /\ c = "\\" -> [state EXCEPT !.mode = "escape"]
    [] OTHER -> [state EXCEPT !.mode = "unsafe"]

ShellReads(text) == FoldLeft(ShellStep, [mode |-> "bare", word |-> <<>>], text)

-----------------------------------------------------------------------------
(* Materialized files *)

\* Mutant: node and target are joined without a dash.
FileNameJoined(node, kube) == node \o kube

\* f"{name}-{kname}".
FileName(node, kube) == node \o <<"-">> \o kube

\* SessionDir._write_file: no separators, not a dot name.
SafeFile(name) ==
  (\A i \in DOMAIN name : name[i] \notin {"/", "\\"}) /\ name \notin {<<".">>, <<".", ".">>}

-----------------------------------------------------------------------------
(* What is checked *)

\* render_env fails exactly when two names of the node, port or kube, become
\* the same after sanitising; otherwise no variable is lost.
EnvRight(names) ==
  \A ports, kube \in {s \in SUBSET {n \in names : Identifier(n)} :
                       IsFiniteSet(s) /\ Cardinality(s) <= 2} :
    LET node == [ports |-> ports, kube |-> kube, paths |-> TRUE]
        distinct == /\ \A n \in ports, m \in ports : Key(n) = Key(m) => n = m
                    /\ \A n \in kube, m \in kube : Key(n) = Key(m) => n = m
                    /\ \A n \in ports, m \in kube : Key(n) # Key(m)
    IN /\ (RenderEnv(<<node>>) # {}) = distinct
       /\ \A env \in RenderEnv(<<node>>) :
            Cardinality(env.named) = 3 * Cardinality(ports) + 2 * Cardinality(kube)

\* A value comes back from the shell as it was, whatever quotes and
\* backslashes a session directory has in its path.
ExportsRight(values) ==
  \A v \in values : ShellReads(Exported(v)) = [mode |-> "bare", word |-> v]

\* Two kube targets never share a file, and every file name is accepted, as
\* long as no node has a dash in its name.
FilesRight(names) ==
  LET accepted == {n \in names : Identifier(n)}
      nodes == {n \in accepted : First(n, "-") = 0}
  IN /\ \A m, n \in nodes, j, k \in accepted :
          FileName(m, j) = FileName(n, k) => m = n /\ j = k
     /\ \A n \in nodes, k \in accepted : SafeFile(FileName(n, k))
=============================================================================
