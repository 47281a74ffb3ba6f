------------------------------- MODULE CliInput -------------------------------
(***************************************************************************)
(* How start and run judge their input: the parsers of cli_input.py and    *)
(* the validators of schemas.py, as pure operators.                        *)
(*                                                                         *)
(* Text is a sequence of characters, from an alphabet with a member for    *)
(* each class the code tells apart.  A parser that may raise returns a     *)
(* set: the one result, or the empty set.                                  *)
(***************************************************************************)
EXTENDS Naturals, Sequences, FiniteSets, SequencesExt

CONSTANTS
  MaxPort,     \* 65535
  MaxName,     \* 64, the longest key
  MaxEntries   \* 16 targets, files or kube targets per node

Lower == {"a", "b"}
Upper == {"A", "B"}
DigitValue == [c \in {"0", "7"} |-> IF c = "0" THEN 0 ELSE 7]
Digits == DOMAIN DigitValue

First(text, c) == SelectInSeq(text, LAMBDA x : x = c)
Final(text, c) == SelectLastInSeq(text, LAMBDA x : x = c)
Before(text, i) == SubSeq(text, 1, i - 1)
After(text, i) == SubSeq(text, i + 1, Len(text))
Begins(text, c) == text # <<>> /\ text[1] = c

-----------------------------------------------------------------------------
(* Endpoints *)

\* What int() reads as a number: digits, with single underscores inside.
Numeral(text) ==
  /\ text # <<>>
  /\ \A i \in DOMAIN text :
       \/ text[i] \in Digits
       \/ text[i] = "_" /\ i - 1 \in DOMAIN text /\ i + 1 \in DOMAIN text
            /\ text[i - 1] \in Digits /\ text[i + 1] \in Digits

\* _parse_port.
ParsePort(text) ==
  IF Numeral(text)
    THEN {FoldLeft(LAMBDA n, c : IF c = "_" THEN n ELSE 10 * n + DigitValue[c], 0, text)}
           \cap (1..MaxPort)
    ELSE {}

At(host, ports) == {[host |-> host, port |-> p] : p \in ports}

\* Mutant: the host ends at the first colon.
SplitHostPortFirst(text) ==
  LET colon == First(text, ":")
  IN IF colon = 0 THEN IF text = <<>> THEN {} ELSE At(text, {22})
     ELSE At(Before(text, colon), ParsePort(After(text, colon)))

\* cli_input._split_host_port: [addr], [addr]:port, host:port or host.
SplitHostPort(text) ==
  IF Begins(text, "[")
    THEN LET end == First(text, "]")
             rest == After(text, end)
         IN IF end = 0 THEN {}
            ELSE At(Tail(Before(text, end)),
                    CASE rest = <<>> -> {22}
                      [] Begins(rest, ":") -> ParsePort(Tail(rest))
                      [] OTHER -> {})
    ELSE LET colon == Final(text, ":")
         IN CASE colon = 0 /\ text # <<>> -> At(text, {22})
              [] colon > 1 -> At(Before(text, colon), ParsePort(After(text, colon)))
              [] OTHER -> {}

\* parse_endpoint: USER@HOST[:PORT].
ParseEndpoint(text) ==
  LET at == First(text, "@")
  IN IF at < 2 THEN {}
     ELSE {[user |-> Before(text, at), host |-> e.host, port |-> e.port] :
             e \in SplitHostPort(After(text, at))}

\* schemas._parse_host_port: [addr]:port or host:port, for a remote target.
ParseHostPort(text) ==
  LET close == {i \in 1..(Len(text) - 1) : text[i] = "]" /\ text[i + 1] = ":"}
      double == \E i \in 1..(Len(text) - 1) : text[i] = ":" /\ text[i + 1] = ":"
      colon == Final(text, ":")
      split == IF Begins(text, "[")
                 THEN {<<Tail(Before(text, i)), After(text, i + 1)>> :
                         i \in {j \in close : \A k \in close : j <= k}}
                 ELSE IF double \/ colon = 0 THEN {}
                 ELSE {<<Before(text, colon), After(text, colon)>>}
  IN UNION {At(s[1], ParsePort(s[2])) : s \in {t \in split : t[1] # <<>>}}

-----------------------------------------------------------------------------
(* Named flags and the node they make *)

\* parse_named: NAME=VALUE items, none empty, no name twice.
ParseNamed(items) ==
  LET eq(i) == First(items[i], "=")
      name(i) == Before(items[i], eq(i))
  IN IF /\ \A i \in DOMAIN items : eq(i) > 1 /\ After(items[i], eq(i)) # <<>>
        /\ \A i, j \in DOMAIN items : name(i) = name(j) => i = j
       THEN {[n \in {name(i) : i \in DOMAIN items} |->
                LET i == CHOOSE i \in DOMAIN items : name(i) = n IN After(items[i], eq(i))]}
       ELSE {}

\* _validate_identifier_key.  The $ of the pattern also matches before a
\* newline at the end.
Identifier(name) ==
  /\ Len(name) \in 1..MaxName
  /\ name[1] \in Lower \cup Upper \cup {"_"}
  /\ \A i \in DOMAIN name :
       \/ name[i] \in Lower \cup Upper \cup Digits \cup {"_", "-"}
       \/ name[i] = "newline" /\ i = Len(name)

AbsolutePath(text) == Begins(text, "/")

\* A dict of a node: at most MaxEntries, every key an identifier.
ValidKeys(dict) ==
  /\ Cardinality(DOMAIN dict) <= MaxEntries
  /\ \A name \in DOMAIN dict : Identifier(name)

\* NodeInput and InputSchema for one node: its dicts, at least one of them
\* not empty, and a key, a password or an agent.
ValidNode(targets, kube, fetch, auth) ==
  /\ ValidKeys(targets) /\ \A n \in DOMAIN targets : ParseHostPort(targets[n]) # {}
  /\ ValidKeys(kube) /\ \A n \in DOMAIN kube : AbsolutePath(kube[n])
  /\ ValidKeys(fetch) /\ \A n \in DOMAIN fetch : AbsolutePath(fetch[n])
  /\ DOMAIN targets \cup DOMAIN kube \cup DOMAIN fetch # {}
  /\ auth

\* A key file with something in it, a password line, or SSH_AUTH_SOCK.
Authenticated(f) == f.key = "text" \/ (f.password /\ f.stdin # "blank") \/ f.agent

\* build_single_node_schema, given that the key file can be read.
Accepts(f) ==
  \E t \in ParseNamed(f.targets), k \in ParseNamed(f.kube), g \in ParseNamed(f.fetch) :
    ValidNode(t, k, g, Authenticated(f))

-----------------------------------------------------------------------------
(* Exit codes of bad input, from exit_code_for, click and Python itself *)

OK == 0
SchemaError == 1
Traceback == 1
Unexpected == 4
Usage == 64

\* _schema_from_flags, in the order of its checks.  Bad DaemonOptions, or a key
\* file that is no text, raise no TunstrapError: start's last guard turns them
\* into a DaemonError, run lets them through.
FlagsCode(f, unexpected) ==
  IF f.idle = "zero" THEN unexpected
  ELSE IF ParseEndpoint(f.connection) = {} \/ f.key = "missing" THEN SchemaError
  ELSE IF f.key = "binary" THEN unexpected
  ELSE IF Accepts(f) THEN OK ELSE SchemaError

ConnFlags(f) ==
  f.key # "none" \/ f.password \/ f.targets # <<>> \/ f.kube # <<>> \/ f.fetch # <<>>

\* start_command up to spawn_daemon: an argument with flags and nothing else on
\* stdin, or a schema on stdin and no flags.
StartCode(f) ==
  IF f.dashes \/ (f.connection = <<>> /\ ConnFlags(f)) THEN Usage
  ELSE IF f.connection = <<>> THEN IF f.stdin = "schema" THEN OK ELSE SchemaError
  ELSE IF ~f.password /\ f.stdin # "blank" THEN Usage
  ELSE FlagsCode(f, Unexpected)

\* run_command up to spawn_daemon: click demands the argument, run a command.
RunCode(f) ==
  IF f.connection = <<>> \/ ~f.dashes THEN Usage ELSE FlagsCode(f, Traceback)

-----------------------------------------------------------------------------
(* Reference definitions and what is checked against them *)

\* An address that needs no brackets, and one that may stand in them.
Plain(host) == host # <<>> /\ \A i \in DOMAIN host : host[i] \notin {":", "[", "]"}
Bracketable(host) == \A i \in DOMAIN host : host[i] # "]"

\* What is written is what is dialled: an address and a port, plain or in
\* brackets, parse to that address and port, with 22 where the port may be left
\* out, and the parser of the connection and that of the targets agree wherever
\* both accept.  (An IPv6 address without brackets is another matter: only the
\* second parser refuses it.)
EndpointsRight(texts) ==
  /\ \A h \in texts, p \in texts :
       LET bracketed == <<"[">> \o h \o <<"]", ":">> \o p
           plain == h \o <<":">> \o p
       IN /\ Bracketable(h) => SplitHostPort(bracketed) = At(h, ParsePort(p))
          /\ Plain(h) /\ First(p, ":") = 0 =>
               /\ SplitHostPort(plain) = At(h, ParsePort(p))
               /\ ParseHostPort(plain) = At(h, ParsePort(p))
  /\ \A h \in texts :
       /\ Plain(h) => SplitHostPort(h) = At(h, {22})
       /\ SplitHostPort(h) # {} /\ ParseHostPort(h) # {}
            => SplitHostPort(h) = ParseHostPort(h)

\* No flag is lost: what parse_named accepts has an entry for every item.
NamesRight(texts) ==
  \A s, t \in texts : \A d \in ParseNamed(<<s, t>>) :
    \A item \in {s, t} : \E n \in DOMAIN d : item = n \o <<"=">> \o d[n]
=============================================================================
