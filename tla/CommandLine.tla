----------------------------- MODULE CommandLine -----------------------------
(***************************************************************************)
(* The chesscoin program around a node or a simulation                     *)
(* (crates/chesscoin-cli/src/main.rs): from the words of the command line  *)
(* and the lines of config files to settings that are valid, and from      *)
(* there to a node that runs until it is stopped.                          *)
(*                                                                         *)
(* What the operator means is a list of settings; what the program gets is *)
(* a list of words, in which only the position tells a flag from a value.  *)
(* Files are spliced into the words where they are named, by a pass that   *)
(* does not know which words are values.                                   *)
(*                                                                         *)
(* A value is the text of its word.  Numerals, addresses and blank texts   *)
(* are known by tables.                                                    *)
(***************************************************************************)
EXTENDS Naturals, SequencesExt

CONSTANTS
  Lines,       \* what operators type: [command, settings]
  Files,       \* path |-> the lines of a config file
  Numeral,     \* text |-> the number it is
  Addresses,   \* texts that are socket addresses
  Dialable,    \* those that peers can dial
  Unspecified, \* those with an unspecified IP
  Blank        \* texts of spaces

Settings == [flag : STRING, value : STRING]

\* Texts of numerals are numbers, those of the defaults among them.
ASSUME CommandLineAssumption ==
  /\ \A l \in Lines : l.settings \in Seq(Settings)
  /\ \A path \in DOMAIN Files : Files[path] \in Seq(Settings)
  /\ Numeral \in [DOMAIN Numeral -> Nat]
  /\ "none" \notin DOMAIN Numeral
  /\ {"0", "6", "8", "16", "32", "42", "64", "128", "500", "2026", "5000", "1048576"}
       \subseteq DOMAIN Numeral

VARIABLES
  line,      \* what the operator meant
  phase,     \* where the program is
  words,     \* words still to read
  expanded,  \* words with the files spliced in
  request    \* NodeRequest or SimulationRequest

program == <<line, phase, words, expanded, request>>

-----------------------------------------------------------------------------
(* Words                                                                     *)

Limits == {"--max-message-bytes", "--max-peers", "--max-inbound-connections"}
ChainFlags == {"--steps", "--samples", "--difficulty"}
Timeouts == {"--connect-timeout-ms", "--read-timeout-ms", "--write-timeout-ms"}
SyncLimits == {"--sync-max-blocks", "--sync-locator-hashes"}
Texts == {"--node-id", "--network-id", "--data-dir"}
AddressFlags == {"--listen", "--advertise", "--peer"}
Switches == {"--mine", "--mine-once", "--no-sync"}
Help == {"-h", "--help"}

NodeFlags ==
  Limits \cup ChainFlags \cup Timeouts \cup SyncLimits \cup Texts \cup AddressFlags
    \cup {"--protocol-version", "--mine-interval-ms", "--run-ms", "--sync-interval-ms",
          "--seed", "--entropy"}
SimulationFlags == {"--steps", "--samples", "--seed", "--entropy", "--tamper-step"}

\* The flag of a setting whose value the operator forgot.
Missing == ""

WordsOf(setting) ==
  IF setting.flag \in Switches \cup Help \/ setting.value = Missing THEN <<setting.flag>>
  ELSE <<setting.flag, setting.value>>

WordsOfAll(settings) == FlattenSeq([i \in DOMAIN settings |-> WordsOf(settings[i])])

\* A line of a file: mine and mine_once are true or false, all other keys are a flag
\* and a value, also those of switches.
Yes == {"true", "yes", "1"}
No == {"false", "no", "0"}
FileSwitches == {"--mine", "--mine-once"}

FileLineOk(entry) ==
  /\ entry.value # Missing
  /\ entry.flag \in FileSwitches => entry.value \in Yes \cup No

WordsOfFileLine(entry) ==
  IF entry.flag \notin FileSwitches THEN <<entry.flag, entry.value>>
  ELSE IF entry.value \in Yes THEN <<entry.flag>> ELSE << >>

FileReadable(path) == path \in DOMAIN Files /\ \A i \in DOMAIN Files[path] : FileLineOk(Files[path][i])

ReadConfigArgs(path) ==
  FlattenSeq([i \in DOMAIN Files[path] |-> WordsOfFileLine(Files[path][i])])

-----------------------------------------------------------------------------
(* Settings                                                                  *)

NodeDefaultOf(flag) ==
  CASE flag = "--node-id" -> "chesscoin-node"
    [] flag = "--network-id" -> "chesscoin-local"
    [] flag = "--protocol-version" -> "6"
    [] flag = "--listen" -> "127.0.0.1:9333"
    [] flag \in {"--advertise", "--data-dir"} -> "none"
    [] flag = "--run-ms" -> "0"
    [] flag = "--max-message-bytes" -> "1048576"
    [] flag \in {"--max-peers", "--max-inbound-connections"} -> "64"
    [] flag = "--connect-timeout-ms" -> "500"
    [] flag \in {"--read-timeout-ms", "--write-timeout-ms"} -> "5000"
    [] flag \in {"--mine-interval-ms", "--sync-interval-ms"} -> "5000"
    [] flag = "--sync-max-blocks" -> "128"
    [] flag = "--sync-locator-hashes" -> "32"
    [] flag = "--steps" -> "16"
    [] flag = "--samples" -> "6"
    [] flag = "--difficulty" -> "8"
    [] flag = "--seed" -> "42"
    [] flag = "--entropy" -> "2026"

NodeDefault == [flag \in NodeFlags \ {"--peer"} |-> NodeDefaultOf(flag)]

SimulationDefault ==
  [flag \in SimulationFlags |->
    IF flag = "--tamper-step" THEN "none" ELSE NodeDefaultOf(flag)]

\* config has what the node runs with, without the copies that are only printed; miner
\* is none or its interval.
DefaultRequest(config) ==
  [config |-> config, peers |-> << >>, miner |-> "none", mining |-> FALSE,
   mine_once |-> FALSE, sync |-> TRUE]

Largest(flag) ==
  CASE flag = "--protocol-version" -> 2^16 - 1
    [] OTHER -> 2^30

Parses(flag, value) ==
  CASE flag \in Texts -> TRUE
    [] flag \in AddressFlags -> value \in Addresses
    [] OTHER -> value \in DOMAIN Numeral /\ Numeral[value] <= Largest(flag)

\* Mutant: the miner keeps the interval it had when --mine was read.
WithValueOrdered(r, flag, value) ==
  CASE flag = "--peer" -> [r EXCEPT !.peers = Append(@, value)]
    [] OTHER -> [r EXCEPT !.config[flag] = value]

WithValue(r, flag, value) ==
  CASE flag = "--peer" -> [r EXCEPT !.peers = Append(@, value)]
    [] flag = "--mine-interval-ms" ->
         [r EXCEPT !.config[flag] = value, !.miner = IF r.mining THEN value ELSE @]
    [] OTHER -> [r EXCEPT !.config[flag] = value]

WithSwitch(r, flag) ==
  CASE flag = "--mine" -> [r EXCEPT !.mining = TRUE, !.miner = r.config["--mine-interval-ms"]]
    [] flag = "--mine-once" -> [r EXCEPT !.mine_once = TRUE]
    [] flag = "--no-sync" -> [r EXCEPT !.sync = FALSE]

Zero(config, flag) == Numeral[config[flag]] = 0

\* Mutant: the samples are not compared with the steps.
ChainOkUnrelated(config) ==
  /\ ~Zero(config, "--steps") /\ ~Zero(config, "--samples")
  /\ Numeral[config["--difficulty"]] <= 256

\* ChainConfig::validate
ChainOk(config) ==
  /\ ~Zero(config, "--steps") /\ ~Zero(config, "--samples")
  /\ Numeral[config["--samples"]] <= Numeral[config["--steps"]]
  /\ Numeral[config["--difficulty"]] <= 256

\* validate_node_config
NodeOk(r) ==
  LET config == r.config IN
  /\ config["--node-id"] \notin Blank /\ config["--network-id"] \notin Blank
  /\ config["--data-dir"] # Missing
  /\ ChainOk(config)
  /\ ~Zero(config, "--protocol-version")
  /\ IF config["--advertise"] = "none" THEN config["--listen"] \notin Unspecified
     ELSE config["--advertise"] \in Dialable
  /\ Numeral[config["--max-message-bytes"]] >= 128
  /\ \A flag \in {"--max-peers", "--max-inbound-connections"} \cup Timeouts : ~Zero(config, flag)
  /\ r.sync => \A flag \in SyncLimits \cup {"--sync-interval-ms"} : ~Zero(config, flag)
  /\ r.miner # "none" => Numeral[r.miner] # 0

\* validate_simulation_request, and the check of the tampered step.
SimulationOk(r) ==
  LET config == r.config IN
  /\ ~Zero(config, "--steps") /\ ~Zero(config, "--samples")
  /\ Numeral[config["--samples"]] <= Numeral[config["--steps"]]
  /\ config["--tamper-step"] # "none" =>
       Numeral[config["--tamper-step"]] < Numeral[config["--steps"]]

-----------------------------------------------------------------------------
(* The program                                                               *)

CommandLineInit ==
  /\ line \in Lines
  /\ phase = "Dispatch"
  /\ words = WordsOfAll(line.settings)
  /\ expanded = << >>
  /\ request = DefaultRequest(NodeDefault)

Ends(result) == phase' = result /\ UNCHANGED <<line, words, expanded, request>>

\* run: without a command word a simulation, unless the first word asks for help.
Dispatch ==
  /\ phase = "Dispatch"
  /\ \/ line.command = "help" /\ Ends("Helped")
     \/ line.command \notin {"node", "simulate", "help", ""} /\ Ends("Refused")
     \/ /\ line.command = "node"
        /\ phase' = "Expand"
        /\ UNCHANGED <<line, words, expanded, request>>
     \/ /\ line.command \in {"simulate", ""}
        /\ phase' = "ParseSimulation"
        /\ request' = DefaultRequest(SimulationDefault)
        /\ UNCHANGED <<line, words, expanded>>

\* expand_config_args, one word or one file.
ExpandWord ==
  /\ phase = "Expand" /\ words # << >>
  /\ IF Head(words) # "--config"
     THEN /\ expanded' = Append(expanded, Head(words))
          /\ words' = Tail(words)
          /\ UNCHANGED phase
     ELSE IF Len(words) > 1 /\ FileReadable(words[2])
     THEN /\ expanded' = expanded \o ReadConfigArgs(words[2]) \o SubSeq(words, 1, 2)
          /\ words' = SubSeq(words, 3, Len(words))
          /\ UNCHANGED phase
     ELSE phase' = "Refused" /\ UNCHANGED <<words, expanded>>
  /\ UNCHANGED <<line, request>>

ExpandDone ==
  /\ phase = "Expand" /\ words = << >>
  /\ phase' = "ParseNode"
  /\ words' = expanded
  /\ expanded' = << >>
  /\ UNCHANGED <<line, request>>

\* The next word is a flag and the one behind it its value (parse_next).
TakeValue(flags) ==
  /\ words # << >> /\ Head(words) \in flags
  /\ IF Len(words) > 1 /\ Parses(Head(words), words[2])
     THEN /\ request' = WithValue(request, Head(words), words[2])
          /\ words' = SubSeq(words, 3, Len(words))
          /\ UNCHANGED phase
     ELSE phase' = "Refused" /\ UNCHANGED <<request, words>>
  /\ UNCHANGED <<line, expanded>>

TakeHelp(flags, others) ==
  /\ words # << >> /\ Head(words) \notin flags \cup others
  /\ IF Head(words) \in Help THEN Ends("Helped") ELSE Ends("Refused")

\* One turn of the loop of parse_node_request.  A --config has been spliced in.
ParseNode ==
  /\ phase = "ParseNode"
  /\ \/ TakeValue(NodeFlags)
     \/ /\ words # << >> /\ Head(words) \in Switches
        /\ request' = WithSwitch(request, Head(words))
        /\ words' = Tail(words)
        /\ UNCHANGED <<line, phase, expanded>>
     \/ /\ words # << >> /\ Head(words) = "--config"
        /\ words' = SubSeq(words, 3, Len(words))
        /\ UNCHANGED <<line, phase, expanded, request>>
     \/ TakeHelp(NodeFlags, Switches \cup {"--config"})

\* The settings are complete: they are validated, and the chain fingerprint is derived
\* from them (module Wire).
NodeParsed ==
  /\ phase = "ParseNode" /\ words = << >>
  /\ Ends(IF NodeOk(request) THEN "StartNode" ELSE "Refused")

\* start_node (module Lifecycle): it validates once more and then binds and locks,
\* where it can still fail.
StartNode ==
  /\ phase = "StartNode"
  /\ phase' \in IF NodeOk(request) THEN {"Running", "StartFailed"} ELSE {"Refused"}
  /\ UNCHANGED <<line, words, expanded, request>>

\* run_node: after run_ms milliseconds the node is stopped; with zero it runs on.
StopNode ==
  /\ phase = "Running"
  /\ ~Zero(request.config, "--run-ms")
  /\ Ends("Stopped")

\* One turn of the loop of parse_simulation_request.
ParseSimulation ==
  /\ phase = "ParseSimulation"
  /\ TakeValue(SimulationFlags) \/ TakeHelp(SimulationFlags, {})

Simulate ==
  /\ phase = "ParseSimulation" /\ words = << >>
  /\ Ends(IF SimulationOk(request) THEN "Simulated" ELSE "Refused")

CommandLineNext ==
  \/ Dispatch \/ ExpandWord \/ ExpandDone \/ ParseNode \/ NodeParsed \/ StartNode \/ StopNode
  \/ ParseSimulation \/ Simulate

CommandLineSpec == CommandLineInit /\ [][CommandLineNext]_program

-----------------------------------------------------------------------------
(* Properties                                                                *)

\* An operator can write what the program does not read as meant: a flag without its
\* value, a flag that is also the name of a file, or, in a file, a flag as the value of
\* no_sync, which takes none.
FileClear(entry) ==
  entry.flag = "--no-sync" => entry.value \notin NodeFlags \cup Switches \cup {"--config"}

IsClear(setting) ==
  /\ setting.value = Missing => setting.flag \in Switches
  /\ setting.flag \notin DOMAIN Files
  /\ (setting.flag = "--config" /\ setting.value \in DOMAIN Files) =>
       \A i \in DOMAIN Files[setting.value] : FileClear(Files[setting.value][i])

Clear == \A i \in DOMAIN line.settings : IsClear(line.settings[i])

\* The settings with those of the files in their places.
MeantByEntry(entry) ==
  IF entry.flag # "--config" /\ (entry.flag \in FileSwitches => entry.value \in Yes)
  THEN <<entry>> ELSE << >>

MeantByFile(path) == FlattenSeq([i \in DOMAIN Files[path] |-> MeantByEntry(Files[path][i])])

MeantBy(setting) ==
  IF setting.flag # "--config" THEN <<setting>>
  ELSE IF FileReadable(setting.value) THEN MeantByFile(setting.value) ELSE << >>

MeantByAll(settings) == FlattenSeq([i \in DOMAIN settings |-> MeantBy(settings[i])])

Meant == MeantByAll(line.settings)

GivenIn(settings, flag) == {i \in DOMAIN settings : settings[i].flag = flag}

ValueIn(settings, flag, default) ==
  IF GivenIn(settings, flag) = {} THEN default
  ELSE settings[CHOOSE i \in GivenIn(settings, flag) : \A j \in GivenIn(settings, flag) : j <= i].value

PeersIn(settings) ==
  FlattenSeq([i \in DOMAIN settings |->
                IF settings[i].flag = "--peer" THEN <<settings[i].value>> ELSE << >>])

Given(flag) == GivenIn(Meant, flag)
MeantValue(flag, default) == ValueIn(Meant, flag, default)

Accepted == phase \in {"StartNode", "StartFailed", "Running", "Stopped"}

\* An accepted line is read completely: each setting has the value given for it last, with
\* the settings of a file standing where the file is named, wherever --mine stands the
\* miner has the last interval, and every peer is kept in order.  Words, values that look
\* like flags and the two passes over them add and lose nothing.  That a file stands where
\* it is named is not what the docs say: OverridesWin.
SettingsAsMeant ==
  (Clear /\ Accepted) =>
    /\ \A flag \in NodeFlags \ {"--peer"} : request.config[flag] = MeantValue(flag, NodeDefault[flag])
    /\ request.peers = PeersIn(Meant)
    /\ request.miner =
         IF Given("--mine") = {} THEN "none" ELSE MeantValue("--mine-interval-ms", "5000")
    /\ request.sync <=> Given("--no-sync") = {}
    /\ request.mine_once <=> Given("--mine-once") # {}

MeantNumber(flag, default) == Numeral[MeantValue(flag, default[flag])]

\* docs/node-v0.1.md:101: startup rejects unsafe settings before it binds a socket or takes
\* a lock.  A simulation gets only steps, samples and a tampered step that fit each other.
\* The same line wants --sync-max-blocks and --sync-locator-hashes positive as well: the
\* code does so where syncs are on, and a line with --no-sync runs with zeros.
OnlySafeSettingsRun ==
  /\ (Clear /\ phase \in {"StartFailed", "Running", "Stopped"}) =>
       /\ MeantNumber("--samples", NodeDefault) \in 1..MeantNumber("--steps", NodeDefault)
       /\ MeantNumber("--difficulty", NodeDefault) \in 0..256
       /\ MeantNumber("--max-message-bytes", NodeDefault) >= 128
       /\ \A flag \in Timeouts \cup {"--max-peers", "--max-inbound-connections", "--protocol-version"} :
            MeantNumber(flag, NodeDefault) > 0
       /\ MeantValue("--listen", "127.0.0.1:9333") \in Unspecified =>
            MeantValue("--advertise", "none") \in Dialable
  /\ (Clear /\ phase = "Simulated") =>
       /\ MeantNumber("--samples", SimulationDefault) \in 1..MeantNumber("--steps", SimulationDefault)
       /\ Given("--tamper-step") # {} =>
            MeantNumber("--tamper-step", SimulationDefault) < MeantNumber("--steps", SimulationDefault)

\* docs/node-v0.1.md:51: --config loads settings "before CLI overrides".  So what the line
\* itself sets has the line's last value, wherever on the line a file is named.
OverridesWin ==
  (Accepted /\ Clear) =>
    \A flag \in NodeFlags \ {"--peer"} : GivenIn(line.settings, flag) # {} =>
      request.config[flag] = ValueIn(line.settings, flag, NodeDefault[flag])
=============================================================================
