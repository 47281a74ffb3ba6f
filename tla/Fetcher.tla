------------------------------- MODULE Fetcher -------------------------------
(***************************************************************************)
(* Reading the files of a node over one SFTP channel: fetch_files, as a    *)
(* fold over the specs in their order.                                     *)
(*                                                                         *)
(* A remote file is what the server says of it: the size that stat gives   *)
(* (None if it gives none), the size that is there when it is read, later, *)
(* and the call that fails, if one does.                                   *)
(***************************************************************************)
EXTENDS Naturals, Sequences, FiniteSets, SequencesExt

CONSTANTS
  Absent,  \* Python's None
  Cap      \* _MAX_FETCH_BYTES

ASSUME FetcherAssumption == Cap \in Nat /\ Absent \notin Nat

\* Mutant: only the size that stat gives is held against the cap.
ReadCappedOnce(file) ==
  IF file.fails # "nothing" THEN [error |-> file.fails]
  ELSE IF file.stat # Absent /\ file.stat > Cap THEN [error |-> "EFBIG"]
  ELSE [size |-> file.size]

\* What a read returns, or an error name: stat, the cap on the size it gives, a
\* read of one byte more than the cap, the cap again.
ReadCapped(file) ==
  LET read == IF file.size > Cap THEN Cap + 1 ELSE file.size
  IN IF file.fails # "nothing" THEN [error |-> file.fails]
     ELSE IF (file.stat # Absent /\ file.stat > Cap) \/ read > Cap THEN [error |-> "EFBIG"]
     ELSE [size |-> read]

Failed(result) == "error" \in DOMAIN result

\* results[name] = ..., and required_failures.append(name) on an error.
Record(state, spec, result) ==
  [results  |-> [n \in DOMAIN state.results \cup {spec.name} |->
                   IF n = spec.name THEN result ELSE state.results[n]],
   failures |-> IF Failed(result) /\ spec.required
                  THEN Append(state.failures, spec.name) ELSE state.failures]

FetchFile(state, spec) == Record(state, spec, ReadCapped(spec.file))

\* The specs without a result yet, when the channel itself fails.
ChannelError(state, specs) ==
  FoldLeft(LAMBDA s, spec : IF spec.name \in DOMAIN s.results THEN s
                            ELSE Record(s, spec, [error |-> "ChannelError"]),
           state, specs)

Nothing == [results |-> <<>>, failures |-> <<>>]

\* fetch_files: the channel fails to open or to be entered before the first
\* file, or in its __aexit__ after the last.
FetchFiles(specs, channel) ==
  LET fetched == FoldLeft(FetchFile, Nothing, specs)
  IN CASE channel = "refused" -> ChannelError(Nothing, specs)
       [] channel = "broken" -> ChannelError(fetched, specs)
       [] OTHER -> fetched

-----------------------------------------------------------------------------
\* Every file asked for has one result, whatever part of the channel breaks and
\* when; what is delivered is the whole file and within the cap, though it may
\* have grown since stat; and a node is failed by exactly the required files it
\* did not get, each counted once.
FetchRight(files) ==
  \A f, g \in files, p, q \in BOOLEAN, channel \in {"open", "refused", "broken"} :
    LET specs == <<[name |-> "f", required |-> p, file |-> f],
                   [name |-> "g", required |-> q, file |-> g]>>
        got == FetchFiles(specs, channel)
    IN /\ DOMAIN got.results = {"f", "g"}
       /\ \A i \in DOMAIN specs :
            LET result == got.results[specs[i].name]
            IN /\ ~Failed(result) => result.size = specs[i].file.size /\ result.size <= Cap
               /\ Cardinality({j \in DOMAIN got.failures : got.failures[j] = specs[i].name})
                    = (IF Failed(result) /\ specs[i].required THEN 1 ELSE 0)
=============================================================================
