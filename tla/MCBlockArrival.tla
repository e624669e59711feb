---------------------------- MODULE MCBlockArrival ----------------------------
(***************************************************************************)
(* Traces: two models; a step swaps them or keeps them, by seed and index. *)
(*                                                                         *)
(* Lines: network ids that look like each other's escapes, one that is not *)
(* ASCII, its bytes taken for characters, and one with a line break, and   *)
(* another version; messages of every form, and responses of two blocks    *)
(* that are in order, short, long or swapped.                              *)
(*                                                                         *)
(* Blocks: three children of genesis, two of them with competing branches  *)
(* up to height three, hashes that order against the order of heights, and *)
(* blocks that must be refused.                                            *)
(***************************************************************************)
EXTENDS BlockArrival

MCModelStates == {"g", "m"}
MCSeeds == {1, 2}

MCNextModel ==
  [x \in MCSeeds \X (0..StepsPerBlock + 1) \X MCModelStates |->
     IF (x[1] + x[2]) % 2 = 1 THEN CHOOSE m \in MCModelStates : m # x[3] ELSE x[3]]

\* The first weight of "m" is at its maximum.
MCTamperedModel == [model \in MCModelStates |-> "m"]

-----------------------------------------------------------------------------
MCByte == Named \cup {"6", "7", "x", "f", "g", "h1", "h2"}

MCWireConfigs ==
  [protocol_version : {"6"},
   network_id : {<<"x">>, <<"|">>, <<"%", "7", "C">>, <<"e9">>, <<"c3", "a9">>, <<"x", Newline>>},
   chain_fingerprint : {<<"f">>, <<"g">>}]
    \cup [protocol_version : {"7"}, network_id : {<<"x">>}, chain_fingerprint : {<<"f">>}]

B1 == Block(<<"h1">>, <<"1", "2">>, <<"1", "2">>, << <<"2">>, <<"1", "2">> >>)
B2 == Block(<<"h2">>, <<"2", "1">>, <<"2", "1">>, << <<"1">>, <<"2", "1">> >>)
Forged == [B2 EXCEPT !.entries = << <<"1">>, <<"2">> >>]

MCMessages ==
  {Hello(<<"x", "|", "%">>, <<"1", "2", "2">>), Get(<< >>, <<"1">>),
   Get(<< <<"d1">>, <<"d2">> >>, <<"2", "1">>), Get(<< <<"d1">>, <<"d2">>, <<"d1">> >>, <<"1">>),
   GetBlocks(<<"1", "2">>, <<"2", "1">>), GetPeers(<<"1", "2">>), Inventory(<< <<"d1">> >>),
   Headers(<< >>), B1, Peers(<< <<"1">> >>), EndBlocks}

Listing(byte, nonce) == [header |-> <<byte>>, nonce |-> nonce]

MCListings == {Headers(<< >>), Headers(<<Listing("h1", <<"1">>), Listing("h2", <<"2", "1">>)>>),
               Headers([i \in 1..3 |-> Listing("h1", <<"1", "2">>)]),
               Peers(<< >>), Peers(<< <<"1", "2">>, <<"2", "1">> >>),
               Peers(<< <<"1">>, <<"2">>, <<"1", "1">> >>)}
MCExpected == <<B1, B2>>
MCResponses ==
  {<<B1, B2, EndBlocks>>, <<B1, EndBlocks>>, <<B1, B2, B1, EndBlocks>>, <<B2, B1, EndBlocks>>,
   <<B1, Forged, EndBlocks>>, <<EndBlocks>>}

-----------------------------------------------------------------------------
MCModels == {"g", "m", "n"}

Blk(hash, height, parent, before, after) ==
  [hash |-> hash, height |-> height, previous_block |-> parent,
   model_before |-> before, model_after |-> after, header_ok |-> TRUE, trace_ok |-> TRUE]

ValidTree ==
  {Blk(9, 0, 0, "g", "m"), Blk(3, 1, 9, "m", "n"), Blk(14, 1, 9, "m", "m"),
   Blk(8, 2, 3, "n", "m"), Blk(2, 2, 14, "m", "n"),
   Blk(6, 0, 0, "g", "n"), Blk(4, 1, 6, "n", "n"), Blk(1, 2, 4, "n", "m"),
   Blk(12, 0, 0, "g", "g"), Blk(16, 1, 12, "g", "m")}

Refused ==
  {Blk(7, 2, 9, "m", "n"),                                    \* wrong height
   Blk(5, 1, 9, "g", "n"),                                    \* wrong model_before
   Blk(10, 0, 0, "m", "n"),                                   \* genesis of another model
   Blk(13, 2, 5, "n", "n"),                                   \* child of a refused block
   [Blk(11, 1, 9, "m", "n") EXCEPT !.header_ok = FALSE],      \* too little work
   [Blk(15, 1, 6, "n", "n") EXCEPT !.trace_ok = FALSE],       \* forged trace
   [Blk(3, 1, 9, "m", "n") EXCEPT !.trace_ok = FALSE],        \* twin of an honest block
   [Blk(6, 0, 0, "g", "n") EXCEPT !.trace_ok = FALSE]}

MCBlocks == ValidTree \cup Refused

\* Seed 2 leads from "g" to "m", seed 1 back to "g".
MCBlockTrained == (1 :> Blk(12, 0, 0, "g", "g")) @@ (2 :> Blk(9, 0, 0, "g", "m"))
MCBlockRead == (<<"h1">> :> Blk(9, 0, 0, "g", "m")) @@ (<<"h2">> :> Blk(3, 1, 9, "m", "n"))
=============================================================================
