------------------------------- MODULE BlockLog -------------------------------
(***************************************************************************)
(* The append-only block log of a node and its replay at startup:          *)
(* append_block, persist_block, load_chains of                             *)
(* crates/chesscoin-node/src/runtime.rs.                                   *)
(*                                                                         *)
(* The file is a sequence of finished lines and a tail, the text after the *)
(* last newline.  A line is a sequence of tokens: a header, a record, or   *)
(* Torn, part of one of them.  A line decodes only when it is one whole    *)
(* token: a checksum covers the rest of its line, and a record glued to    *)
(* other text on its line fails it.                                        *)
(*                                                                         *)
(* A write may stop at any point, because the process is killed or the     *)
(* write, flush or sync reports an error; what was written stays.          *)
(*                                                                         *)
(* The operator may start the node under another chain configuration.      *)
(* Here all configurations validate alike, as a lower difficulty does for  *)
(* the blocks of a higher one, so only the fingerprint in the header keeps *)
(* them apart.  Logs of older nodes have plain records and no header; nor  *)
(* has a log whose length could not be read at its first append.           *)
(***************************************************************************)
EXTENDS BlockTree, SequencesExt

CONSTANTS
  Configs,            \* chain configurations, by their fingerprints
  InheritedLogs,      \* files that the first start may find
  MaxFailedAppends,   \* appends that report an error
  MaxTornCrashes,     \* kills in the middle of an append
  MaxCleanStops       \* kills or stops between two appends

VARIABLES
  log,            \* the file
  phase,          \* "Down", "Up", or "Refused": start_node returned an error
  running,        \* the configuration of the last start
  fork_choice,    \* of the running node
  chain,
  acknowledged,   \* history: blocks whose append returned Ok
  failed_appends, torn_crashes, clean_stops

vars == <<log, phase, running, fork_choice, chain, acknowledged,
          failed_appends, torn_crashes, clean_stops>>
-----------------------------------------------------------------------------
(* Writing                                                                   *)

Older == "older"    \* the writer of a plain record

HeaderToken(c) == [kind |-> "header", fingerprint |-> c]
Torn == [kind |-> "torn"]
Newline == [kind |-> "newline"]

\* by is not in the file: it says who wrote the record.
Record(b, c) == [kind |-> "record", block |-> b, by |-> c]

EmptyFile == [lines |-> << >>, tail |-> << >>]

WriteToken(file, token) ==
  IF token = Newline
  THEN [lines |-> Append(file.lines, file.tail), tail |-> << >>]
  ELSE [file EXCEPT !.tail = Append(@, token)]

Write(file, tokens) == FoldLeft(WriteToken, file, tokens)

\* What append_block writes: a new or empty file starts with the header, if its length
\* was measured.  fs::metadata may fail though the file can be opened: then the record
\* is written without looking.
AppendedTokens(file, b, measured) ==
  (IF file = EmptyFile /\ measured THEN <<HeaderToken(running), Newline>> ELSE << >>)
    \o <<Record(b, running), Newline>>

\* What a write that stops leaves behind: whole tokens, then maybe part of one.
Interrupted(tokens) ==
  {SubSeq(tokens, 1, n) : n \in 0..Len(tokens)}
    \cup {SubSeq(tokens, 1, n) \o <<Torn>> :
            n \in {k \in 0..Len(tokens) - 1 : tokens[k + 1] # Newline}}

-----------------------------------------------------------------------------
(* Reading: load_chains                                                      *)

Decodes(line) == Len(line) = 1 /\ line[1] # Torn

ReadNothing ==
  [result |-> "Reading", fork_choice |-> EmptyForkChoice,
   seen_header |-> FALSE, seen_block |-> FALSE]

\* Mutant: the fingerprint is not compared.
ReadHeaderOfAny(reader, header, c) ==
  IF reader.seen_header \/ reader.seen_block
  THEN [reader EXCEPT !.result = "Fatal"]
  ELSE [reader EXCEPT !.seen_header = TRUE]

ReadHeader(reader, header, c) ==
  IF reader.seen_header \/ reader.seen_block \/ header.fingerprint # c
  THEN [reader EXCEPT !.result = "Fatal"]
  ELSE [reader EXCEPT !.seen_header = TRUE]

ReadRecord(reader, b) ==
  IF InsertResult(reader.fork_choice, b) # "Ok"
  THEN [reader EXCEPT !.result = "Fatal"]
  ELSE [reader EXCEPT !.fork_choice = InsertBlock(@, b), !.seen_block = TRUE]

\* Mutant: any line that does not decode ends the replay.
ReadLineLenient(reader, line, c, unfinished) ==
  IF reader.result # "Reading" \/ line = << >> THEN reader
  ELSE IF ~Decodes(line) THEN [reader EXCEPT !.result = "EndOfLog"]
  ELSE IF line[1].kind = "header" THEN ReadHeader(reader, line[1], c)
  ELSE ReadRecord(reader, line[1].block)

\* Mutant: no exception for an unfinished last line.
ReadLineStrict(reader, line, c, unfinished) ==
  IF reader.result # "Reading" \/ line = << >> THEN reader
  ELSE IF ~Decodes(line) THEN [reader EXCEPT !.result = "Fatal"]
  ELSE IF line[1].kind = "header" THEN ReadHeader(reader, line[1], c)
  ELSE ReadRecord(reader, line[1].block)

\* A line that does not decode is fatal, unless it is the last of a file that
\* does not end in a newline.
ReadLine(reader, line, c, unfinished) ==
  IF reader.result # "Reading" \/ line = << >> THEN reader
  ELSE IF ~Decodes(line)
  THEN [reader EXCEPT !.result = IF unfinished THEN "EndOfLog" ELSE "Fatal"]
  ELSE IF line[1].kind = "header" THEN ReadHeader(reader, line[1], c)
  ELSE ReadRecord(reader, line[1].block)

Load(file, c) ==
  LET finished(reader, line) == ReadLine(reader, line, c, FALSE)
  IN  ReadLine(FoldLeft(finished, ReadNothing, file.lines), file.tail, c, TRUE)

\* load_chains returns Ok: no line is fatal and the best chain replays.
LoadOk(file, c) ==
  /\ Load(file, c).result # "Fatal"
  /\ ChainFromBlocksOk(BestChain(Load(file, c).fork_choice))

-----------------------------------------------------------------------------
OldTokens == {Torn} \cup {Record(b, Older) : b \in Blocks}

\* What an older node left: lines of plain records, glued or torn where an append of
\* its own was interrupted.  They are records of valid blocks, so that a log without
\* such damage replays.
ASSUME LogAssumption ==
  /\ Older \notin Configs
  /\ {MaxFailedAppends, MaxTornCrashes, MaxCleanStops} \subseteq Nat
  /\ InheritedLogs \subseteq [lines : Seq(Seq(OldTokens) \ {<< >>}), tail : Seq(OldTokens)]
  /\ \A file \in InheritedLogs, c \in Configs :
       (\A i \in 1..Len(file.lines) : Decodes(file.lines[i])) => LoadOk(file, c)

Init ==
  /\ log \in InheritedLogs
  /\ phase = "Down"
  /\ running \in Configs
  /\ fork_choice = EmptyForkChoice
  /\ chain = << >>
  /\ acknowledged = {}
  /\ failed_appends = 0 /\ torn_crashes = 0 /\ clean_stops = 0

\* start_node, the part that reads the log.
Start(c) ==
  /\ phase # "Up"
  /\ running' = c
  /\ IF LoadOk(log, c)
     THEN /\ phase' = "Up"
          /\ fork_choice' = Load(log, c).fork_choice
          /\ chain' = BestChain(Load(log, c).fork_choice)
     ELSE phase' = "Refused" /\ UNCHANGED <<fork_choice, chain>>
  /\ UNCHANGED <<log, acknowledged, failed_appends, torn_crashes, clean_stops>>

\* In memory, mine_once and apply_incoming_block: the block enters the fork
\* choice and the best chain becomes active, whatever the append returns.
Accept(b) ==
  /\ phase = "Up"
  /\ Attaches(fork_choice, b)
  /\ fork_choice' = InsertBlock(fork_choice, b)
  /\ chain' = BestChain(InsertBlock(fork_choice, b))
  /\ UNCHANGED <<phase, running>>

\* append_block returns Ok.
AppendOk(b, measured) ==
  /\ Accept(b)
  /\ log' = Write(log, AppendedTokens(log, b, measured))
  /\ acknowledged' = acknowledged \cup {b.hash}
  /\ UNCHANGED <<failed_appends, torn_crashes, clean_stops>>

\* append_block returns an error, counted in storage_failures; the node goes on.
AppendFails(b, measured) ==
  /\ Accept(b)
  /\ failed_appends < MaxFailedAppends
  /\ failed_appends' = failed_appends + 1
  /\ \E tokens \in Interrupted(AppendedTokens(log, b, measured)) : log' = Write(log, tokens)
  /\ UNCHANGED <<acknowledged, torn_crashes, clean_stops>>

Halt ==
  /\ phase' = "Down"
  /\ fork_choice' = EmptyForkChoice
  /\ chain' = << >>
  /\ UNCHANGED running

\* The process is killed inside append_block.
CrashInAppend(b, measured) ==
  /\ phase = "Up"
  /\ Attaches(fork_choice, b)
  /\ torn_crashes < MaxTornCrashes
  /\ torn_crashes' = torn_crashes + 1
  /\ \E tokens \in Interrupted(AppendedTokens(log, b, measured)) : log' = Write(log, tokens)
  /\ Halt
  /\ UNCHANGED <<acknowledged, failed_appends, clean_stops>>

\* The process stops or is killed between two appends.
StopBetweenAppends ==
  /\ phase = "Up"
  /\ clean_stops < MaxCleanStops
  /\ clean_stops' = clean_stops + 1
  /\ Halt
  /\ UNCHANGED <<log, acknowledged, failed_appends, torn_crashes>>

Next ==
  \/ \E c \in Configs : Start(c)
  \/ \E b \in Blocks, measured \in BOOLEAN :
       AppendOk(b, measured) \/ AppendFails(b, measured) \/ CrashInAppend(b, measured)
  \/ StopBetweenAppends

Spec == Init /\ [][Next]_vars

-----------------------------------------------------------------------------
(* Properties                                                                *)

IsToken(token) ==
  \/ token = Torn
  \/ token.kind = "header" /\ \E c \in Configs : token = HeaderToken(c)
  \/ token.kind = "record" /\ \E b \in Blocks, c \in Configs \cup {Older} : token = Record(b, c)

IsLine(line) == line = [i \in 1..Len(line) |-> line[i]] /\ \A i \in 1..Len(line) : IsToken(line[i])

Lines == ToSet(Append(log.lines, log.tail))

\* The node's own writes, stopped anywhere and resumed, never put a header behind
\* the first line or behind a record: the two header errors of load_chains are for
\* files it did not write.
HeaderOnlyFirst ==
  LET lines == Append(log.lines, log.tail)
  IN  \A i \in 1..Len(lines) : \A j \in 1..Len(lines[i]) :
        lines[i][j].kind = "header" => i = 1 /\ j = 1

\* Type invariant of the log and of the node that writes it.
TypeOK ==
  /\ \A i \in 1..Len(log.lines) : IsLine(log.lines[i])
  /\ IsLine(log.tail)
  /\ HeaderOnlyFirst
  /\ phase \in {"Down", "Up", "Refused"}
  /\ running \in Configs
  /\ ForkChoiceType(fork_choice)
  /\ chain \in Seq(Blocks)
  /\ acknowledged \subseteq {b.hash : b \in Blocks}
  /\ failed_appends \in 0..MaxFailedAppends
  /\ torn_crashes \in 0..MaxTornCrashes
  /\ clean_stops \in 0..MaxCleanStops

\* A node that runs knows every block whose append ever returned Ok, through any
\* interruptions and restarts: load_chains refuses to start rather than skip one.
AcknowledgedSurvive == phase = "Up" => acknowledged \subseteq Known(fork_choice)

Undamaged == \A i \in 1..Len(log.lines) : Decodes(log.lines[i])

\* While no append has failed and no text was glued to an unfinished line, the log
\* replays, at any moment, to exactly the fork choice and the chain in memory: it
\* records every block, after its parent, in the order of insertion.
UndamagedLogReplays ==
  (Undamaged /\ failed_appends = 0) =>
    /\ \E c \in Configs : LoadOk(log, c)
    /\ phase = "Up" => /\ LoadOk(log, running)
                       /\ Load(log, running).fork_choice = fork_choice
                       /\ BestChain(Load(log, running).fork_choice) = chain

RecordsBy == {line[1].by : line \in {l \in Lines : Decodes(l) /\ l[1].kind = "record"}}

\* No header tells by which configuration the file was begun: an older node began it,
\* or a node that could not measure the empty file.
BeginsWithRecord(file) ==
  LET first == IF file.lines = << >> THEN file.tail ELSE file.lines[1]
  IN  Decodes(first) /\ first[1].kind = "record"

\* docs/node-v0.1.md: startup fails when the header does not match the configured
\* chain.  All the records that a running node has read or written are its own
\* configuration's, also when the header was torn and written off under another
\* configuration.  The exception is exact: a log whose first line is a record has no
\* header, and load_chains then takes it under any configuration.
OneConfiguration ==
  (phase = "Up" /\ ~BeginsWithRecord(log)) => RecordsBy \subseteq {running}

\* What a start restores is what the blocks it read imply: the heaviest chain of
\* the replayed blocks is active and valid, whatever was lost at the tail.
RestoredStateValid ==
  /\ TypeOK
  /\ phase = "Up" =>
       /\ ForkChoiceInv(fork_choice)
       /\ chain = BestChain(fork_choice)
       /\ ChainFromBlocksOk(chain)

-----------------------------------------------------------------------------
(* Statements of the documentation that the code does not meet               *)

\* docs/node-v0.1.md: an incomplete final record is ignored as an interrupted
\* append.  So a kill inside an append never makes a start fail.
InterruptedAppendRecovers == phase # "Refused"

\* docs/node-v0.1.md and docs/architecture.md: a start fails for a completed
\* corrupt record; a failed append is counted and the node goes on.
RefusedOnlyIfCorrupt == phase = "Refused" => ~Undamaged
=============================================================================
