----------------------------- MODULE MCHandshake -----------------------------
(***************************************************************************)
(* A TLC instance of Handshake: pipes of two chunks, a schema and          *)
(* unguarded messages that need more.  What happens to a start's input     *)
(* before the handshake and to its output after it are pure functions,     *)
(* which are checked for all short texts in one initial state.             *)
(***************************************************************************)
EXTENDS Handshake, EnvRender

MCSize == [k \in Kinds |-> CASE k = "success" -> 4 [] k = "required_failure" -> 3 [] OTHER -> 1]

Once == ppc = "fork" /\ schema = 1

Texts(alphabet, n) == UNION {[1..k -> alphabet] : k \in 0..n}

\* What the user writes is what the schema says: the parsers of endpoints in
\* cli_input.py and schemas.py (EndpointsRight), and parse_named, which loses no
\* flag (NamesRight).
InputParsing ==
  Once => /\ EndpointsRight(Texts({"a", "0", "7", ":", "[", "]", "_"}, 3))
          /\ NamesRight(Texts({"a", "A", "=", "/"}, 3))

\* What the schema says is what a child or a shell finds: render_env loses no
\* variable (EnvRight) and format_exports no character (ExportsRight).
EnvRendering ==
  Once => /\ EnvRight(Texts({"a", "A", "-", "_"}, 2))
          /\ ExportsRight(Texts({"a", "'", "\\", "/"}, 5))

\* Names of materialized kubeconfigs: see FilesRight.
FileNaming == Once => FilesRight(Texts({"a", "-", "0", "newline", "/"}, 3))
=============================================================================
