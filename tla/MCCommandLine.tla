---------------------------- MODULE MCCommandLine ----------------------------
(***************************************************************************)
(* Every command line of up to three of these settings.                    *)
(***************************************************************************)
EXTENDS CommandLine

MaxSettings == 3

S(flag, value) == [flag |-> flag, value |-> value]

NodeSettings ==
  {S("--config", "node.conf"), S("--config", "bad.conf"), S("--config", Missing),
   S("--config", "mine.conf"), S("--config", "sync.conf"), S("--config", "no.conf"),
   S("--node-id", "--mine"), S("--node-id", "--config"), S("--node-id", " "),
   S("--mine", Missing), S("--mine-once", Missing), S("--no-sync", Missing),
   S("--mine-interval-ms", "0"), S("--mine-interval-ms", "50"), S("--run-ms", "50"),
   S("--max-peers", "8"), S("--max-peers", Missing), S("--peer", "10.0.0.1:1"),
   S("--peer", "10.0.0.2:1"), S("--listen", "0.0.0.0:1"), S("--advertise", "10.0.0.1:1"),
   S("--advertise", "0.0.0.0:1"), S("--samples", "17"), S("--steps", "50"),
   S("--difficulty", "257"), S("--max-message-bytes", "127"), S("--sync-max-blocks", "0"),
   S("--protocol-version", "65536"), S("--seed", "x"), S("--help", Missing)}

SimulationSettings ==
  {S("--steps", "8"), S("--steps", "0"), S("--samples", "8"), S("--samples", "17"),
   S("--tamper-step", "8"), S("--tamper-step", "1"), S("--seed", "x"), S("--mine", Missing),
   S("--help", Missing), S("--entropy", Missing)}

MCLines ==
  {[command |-> "node", settings |-> s] : s \in BoundedSeq(NodeSettings, MaxSettings)}
    \cup {[command |-> c, settings |-> s] :
            c \in {"simulate", ""}, s \in BoundedSeq(SimulationSettings, MaxSettings)}
    \cup {[command |-> c, settings |-> << >>] : c \in {"help", "mine"}}

MCFiles ==
  ("node.conf" :> <<S("--mine", "true"), S("--max-peers", "1"), S("--mine-interval-ms", "8"),
                    S("--peer", "10.0.0.3:1"), S("--config", "bad.conf"), S("--mine-once", "no")>>)
  @@ ("mine.conf" :> <<S("--mine", "yes")>>)
  @@ ("sync.conf" :> <<S("--no-sync", "true")>>)
  @@ ("no.conf" :> <<S("--no-sync", "--mine")>>)
  @@ ("bad.conf" :> <<S("--mine", "maybe")>>)

MCNumeral ==
  ("0" :> 0) @@ ("1" :> 1) @@ ("6" :> 6) @@ ("8" :> 8) @@ ("16" :> 16) @@ ("17" :> 17)
  @@ ("32" :> 32) @@ ("42" :> 42) @@ ("50" :> 50) @@ ("64" :> 64) @@ ("127" :> 127)
  @@ ("128" :> 128) @@ ("257" :> 257) @@ ("500" :> 500) @@ ("2026" :> 2026)
  @@ ("5000" :> 5000) @@ ("65536" :> 65536) @@ ("1048576" :> 1048576)

MCAddresses ==
  {"127.0.0.1:9333", "0.0.0.0:1", "10.0.0.1:1", "10.0.0.2:1", "10.0.0.3:1"}
=============================================================================
