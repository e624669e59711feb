--------------------------------- MODULE Wire ---------------------------------
(***************************************************************************)
(* One connection, from the text of its messages to what the reader makes  *)
(* of them: crates/chesscoin-node/src/wire.rs, and read_limited_line_from, *)
(* the dispatch of handle_stream and the readers of a sync in runtime.rs.  *)
(*                                                                         *)
(* A line is a sequence of bytes.  A keyword, a digest and the fields that *)
(* no property tells apart are one byte each, because a part of one never  *)
(* parses; numbers, addresses and models are decimal digits, because a     *)
(* part of one does.  GET stands for the requests with a locator; HELLO is *)
(* without height and head; "h1" stands for the header of a block up to    *)
(* model_after, and in a list of headers up to its nonce, "c" for an entry *)
(* up to its state_after.                                                  *)
(*                                                                         *)
(* A connection may end after any byte, closed or broken.  A closed one    *)
(* ends the line as a newline does.                                        *)
(***************************************************************************)
EXTENDS Naturals, SequencesExt

CONSTANTS
  Byte,               \* the bytes, named by the character of their number
  WireConfigs,        \* protocol_version, network_id, chain_fingerprint of nodes
  Messages,           \* sent to an inbound handler
  Responses,          \* message sequences sent to a sync for blocks
  Listings,           \* messages sent to who asked for peers or for headers
  Expected,           \* the blocks whose headers the sync has screened
  TraceLength,
  MaxMessageBytes,    \* network.max_message_bytes
  MaxLocatorHashes,   \* sync.max_locator_hashes
  MaxListed           \* the limit of GET_PEERS, and that of GET_HEADERS

VARIABLES
  sender, receiver,   \* their wire configurations
  reader,             \* "Handler", "Exchange", "Headers" or "Sync"
  script,             \* the messages the sender writes
  stream,             \* bytes not yet read
  bytes,              \* of the line that is read
  closed,             \* the end of the connection was read
  received,           \* blocks a sync has
  taken,              \* the message acted on
  outcome             \* "Reading", or how it ended

connection == <<sender, receiver, reader, script, stream, bytes, closed, received, taken, outcome>>

-----------------------------------------------------------------------------
(* Text                                                                      *)

Newline == "nl"
Separators == {"|", ",", ";", Newline}
Digits == {"1", "2"}
Digests == {"d1", "d2"}
Keywords == {"CHESSCOIN", "HELLO", "GET_BLOCKS", "GET", "INVENTORY", "HEADERS", "GET_PEERS",
             "PEERS", "BLOCK", "c", "END_BLOCKS"}
HighBytes == {"e9", "c3", "c2", "a9", "83", "82"}
Named == Separators \cup Digits \cup Digests \cup Keywords \cup HighBytes \cup {"%", "5", "7", "C"}

\* The UTF-8 bytes of a text.  What is not ASCII is named by its number in hexadecimal:
\* "e9" is "é", the bytes "c3" and "a9", and as characters these are two bytes each.
Utf8Bytes(char) ==
  CASE char = "e9" -> <<"c3", "a9">>
    [] char = "c3" -> <<"c3", "83">>
    [] char = "c2" -> <<"c3", "82">>
    [] char \in {"a9", "83", "82"} -> <<"c2", char>>
    [] OTHER -> <<char>>

Utf8(text) == FlattenSeq([i \in DOMAIN text |-> Utf8Bytes(text[i])])

IsUtf8(line) == line # << >> => Last(line) \notin {"c3", "c2"}

\* ASCII, and one line.
Plain(text) == (HighBytes \cup {Newline}) \cap ToSet(text) = {}

Escaped(char) ==
  CASE char = "%" -> <<"%", "2", "5">>
    [] char = "|" -> <<"%", "7", "C">>
    [] OTHER -> <<char>>

\* Mutant: the escape character is not escaped itself.
EscapeBarOnly(text) ==
  Utf8(FlattenSeq([i \in DOMAIN text |-> IF text[i] = "|" THEN <<"%", "7", "C">> ELSE <<text[i]>>]))

Escape(text) == Utf8(FlattenSeq([i \in DOMAIN text |-> Escaped(text[i])]))

\* from_str_radix, for the two codes that Escape writes.
HexChar(high, low) == IF <<high, low>> = <<"2", "5">> THEN "%" ELSE "|"

\* Mutant: fields are taken as they are.
UnescapeRaw(field) == field

\* Each byte becomes the character of its number: the two of "é" become "Ã©".
UnescapeByte(read, byte) ==
  CASE read.code = << >> /\ byte # "%" -> [read EXCEPT !.out = Append(@, byte)]
    [] Len(read.code) = 2 -> [out |-> Append(read.out, HexChar(read.code[2], byte)), code |-> << >>]
    [] OTHER -> [read EXCEPT !.code = Append(@, byte)]

Unescape(field) == FoldLeft(UnescapeByte, [out |-> << >>, code |-> << >>], field).out

Join(fields, separator) ==
  FlattenSeq([i \in DOMAIN fields |-> IF i = 1 THEN fields[i] ELSE <<separator>> \o fields[i]])

\* splitn: the last of at most limit fields keeps its separators.
SplitByte(separator, limit, fields, byte) ==
  IF byte = separator /\ Len(fields) < limit
  THEN Append(fields, << >>)
  ELSE [fields EXCEPT ![Len(fields)] = Append(@, byte)]

SplitN(text, separator, limit) ==
  FoldLeft(LAMBDA fields, byte : SplitByte(separator, limit, fields, byte), << << >> >>, text)

Split(text, separator) == SplitN(text, separator, Len(text) + 1)

SplitList(text, separator) == IF text = << >> THEN << >> ELSE Split(text, separator)

\* parse_field
IsNumber(field) == field # << >> /\ ToSet(field) \subseteq Digits
IsDigest(field) == Len(field) = 1 /\ field[1] \in Digests

-----------------------------------------------------------------------------
(* Messages                                                                  *)

Hello(node_id, listen_addr) ==
  [kind |-> "HELLO", node_id |-> node_id, listen_addr |-> listen_addr]
GetBlocks(from_height, limit) ==
  [kind |-> "GET_BLOCKS", from_height |-> from_height, limit |-> limit]
Get(locator, limit) == [kind |-> "GET", locator |-> locator, limit |-> limit]
Inventory(hashes) == [kind |-> "INVENTORY", hashes |-> hashes]
Headers(headers) == [kind |-> "HEADERS", headers |-> headers]
GetPeers(limit) == [kind |-> "GET_PEERS", limit |-> limit]
Peers(list) == [kind |-> "PEERS", peers |-> list]
Block(header, model_after, candidate_model, entries) ==
  [kind |-> "BLOCK", header |-> header, model_after |-> model_after,
   candidate_model |-> candidate_model, entries |-> entries]
EndBlocks == [kind |-> "END_BLOCKS"]
NoMessage == [kind |-> "None"]

EncodeHeaders(headers) ==
  Join([i \in 1..Len(headers) |-> Join(<<headers[i].header, headers[i].nonce>>, ",")], ";")

EncodeMessage(m) ==
  CASE m.kind = "HELLO" -> Join(<< <<"HELLO">>, Escape(m.node_id), m.listen_addr>>, "|")
    [] m.kind = "GET_BLOCKS" -> Join(<< <<"GET_BLOCKS">>, m.from_height, m.limit>>, "|")
    [] m.kind = "GET" -> Join(<< <<"GET">>, Join(m.locator, ","), m.limit>>, "|")
    [] m.kind = "INVENTORY" -> Join(<< <<"INVENTORY">>, Join(m.hashes, ",")>>, "|")
    [] m.kind = "HEADERS" -> Join(<< <<"HEADERS">>, EncodeHeaders(m.headers)>>, "|")
    [] m.kind = "GET_PEERS" -> Join(<< <<"GET_PEERS">>, m.limit>>, "|")
    [] m.kind = "PEERS" -> Join(<< <<"PEERS">>, Join(m.peers, ",")>>, "|")
    [] m.kind = "BLOCK" ->
         Join(<< <<"BLOCK">>, m.header, m.model_after, m.candidate_model,
                 Join([i \in 1..Len(m.entries) |-> <<"c">> \o m.entries[i]], ";")>>, "|")
    [] m.kind = "END_BLOCKS" -> <<"END_BLOCKS">>

AreDigests(fields) == \A h \in ToSet(fields) : IsDigest(h)

\* decode_header
IsHeader(text) ==
  LET fields == Split(text, ",")
  IN  Len(fields) = 2 /\ Len(fields[1]) = 1 /\ IsNumber(fields[2])

DecodeHeader(text) == [header |-> Split(text, ",")[1], nonce |-> Split(text, ",")[2]]

\* decode_message: by the keyword, with the exact number of fields.
DecodeMessage(text) ==
  LET fields == Split(text, "|")
      shape == <<fields[1], Len(fields)>>
  IN  CASE shape = << <<"HELLO">>, 3>> /\ IsNumber(fields[3]) ->
             Hello(Unescape(fields[2]), fields[3])
        [] shape = << <<"GET_BLOCKS">>, 3>> /\ IsNumber(fields[2]) /\ IsNumber(fields[3]) ->
             GetBlocks(fields[2], fields[3])
        [] shape = << <<"GET">>, 3>> /\ IsNumber(fields[3]) /\ AreDigests(SplitList(fields[2], ",")) ->
             Get(SplitList(fields[2], ","), fields[3])
        [] shape = << <<"INVENTORY">>, 2>> /\ AreDigests(SplitList(fields[2], ",")) ->
             Inventory(SplitList(fields[2], ","))
        [] shape = << <<"HEADERS">>, 2>> /\ \A h \in ToSet(SplitList(fields[2], ";")) : IsHeader(h) ->
             LET headers == SplitList(fields[2], ";")
             IN  Headers([i \in 1..Len(headers) |-> DecodeHeader(headers[i])])
        [] shape = << <<"GET_PEERS">>, 2>> /\ IsNumber(fields[2]) -> GetPeers(fields[2])
        [] shape = << <<"PEERS">>, 2>>
             /\ \A addr \in ToSet(SplitList(fields[2], ",")) : IsNumber(addr) ->
             Peers(SplitList(fields[2], ","))
        [] shape = << <<"BLOCK">>, 5>> /\ Len(fields[2]) = 1
             /\ IsNumber(fields[3]) /\ IsNumber(fields[4])
             /\ \A entry \in ToSet(SplitList(fields[5], ";")) :
                  entry # << >> /\ Head(entry) = "c" /\ IsNumber(Tail(entry)) ->
             LET entries == SplitList(fields[5], ";")
             IN  Block(fields[2], fields[3], fields[4],
                       [i \in 1..Len(entries) |-> Tail(entries[i])])
        [] shape = << <<"END_BLOCKS">>, 1>> -> EndBlocks
        [] OTHER -> NoMessage

EncodeNetworkMessage(config, m) ==
  Join(<< <<"CHESSCOIN">>, <<config.protocol_version>>, Escape(config.network_id),
          Escape(config.chain_fingerprint), EncodeMessage(m)>>, "|") \o <<Newline>>

DecodeNetworkMessage(line, config) ==
  LET fields == SplitN(line, "|", 5)
  IN  IF /\ Len(fields) = 5
         /\ fields[1] = <<"CHESSCOIN">>
         /\ fields[2] = <<config.protocol_version>>
         /\ Unescape(fields[3]) = config.network_id
         /\ Unescape(fields[4]) = config.chain_fingerprint
      THEN DecodeMessage(fields[5])
      ELSE NoMessage

-----------------------------------------------------------------------------
(* What of a block's body is checked before it is stored, see module Trace.  *)

TraceOk(b) ==
  /\ Len(b.entries) = TraceLength
  /\ b.candidate_model = b.model_after
  /\ Last(b.entries) = b.candidate_model

BlockHash(b) == <<b.header, b.model_after>>

-----------------------------------------------------------------------------
(* What nodes send                                                           *)

Tokens == [{1} -> Byte \ Separators]
Numerals == Seq(Digits) \ {<< >>}
Locators == Seq({<<digest>> : digest \in Digests})
BlockMessages ==
  [kind : {"BLOCK"}, header : Tokens, model_after : Numerals, candidate_model : Numerals,
   entries : Seq(Numerals)]

MessageType ==
  [kind : {"HELLO"}, node_id : {id \in Seq(Byte) : Plain(id)}, listen_addr : Numerals]
    \cup [kind : {"GET_BLOCKS"}, from_height : Numerals, limit : Numerals]
    \cup [kind : {"GET"}, locator : Locators, limit : Numerals]
    \cup [kind : {"INVENTORY"}, hashes : Locators]
    \cup [kind : {"HEADERS"}, headers : Seq([header : Tokens, nonce : Numerals])]
    \cup [kind : {"GET_PEERS"}, limit : Numerals]
    \cup [kind : {"PEERS"}, peers : Seq(Numerals)]
    \cup BlockMessages \cup {EndBlocks}

\* A fingerprint is plain text (chain_fingerprint).  So is a node id here: no reader looks
\* at one, and a line break in it makes its own HELLO malformed.  Gossip is of blocks that
\* the sender validated, and a header fixes its block's trace (HeaderFixesTrace of Trace).
ASSUME WireAssumption ==
  /\ {TraceLength, MaxMessageBytes, MaxLocatorHashes, MaxListed} \subseteq Nat \ {0}
  /\ Named \subseteq Byte
  /\ WireConfigs \subseteq [protocol_version : Byte \ Separators, network_id : Seq(Byte),
                           chain_fingerprint : {f \in Seq(Byte) : Plain(f)}]
  /\ Messages \cup Listings \subseteq MessageType
  /\ \A m \in Messages : m.kind = "BLOCK" => TraceOk(m)
  /\ Expected \in Seq(BlockMessages)
  /\ \A response \in Responses :
       /\ response \in Seq(MessageType)
       /\ \A b \in ToSet(response), e \in ToSet(Expected) :
            (b.kind = "BLOCK" /\ TraceOk(b) /\ BlockHash(b) = BlockHash(e)) => b = e

-----------------------------------------------------------------------------
Connects(role, messages) ==
  /\ reader = role
  /\ script = messages

WireInit ==
  /\ sender \in WireConfigs
  /\ receiver \in WireConfigs
  /\ \/ \E m \in Messages : Connects("Handler", <<m>>)
     \/ \E m \in Listings, role \in {"Exchange", "Headers"} : Connects(role, <<m>>)
     \/ \E response \in Responses : Connects("Sync", response)
  /\ stream = FlattenSeq([i \in 1..Len(script) |-> EncodeNetworkMessage(sender, script[i])])
  /\ bytes = << >>
  /\ closed = FALSE
  /\ received = << >>
  /\ taken = NoMessage
  /\ outcome = "Reading"

Finish(how) == outcome' = how /\ bytes' = bytes /\ UNCHANGED <<received, taken>>

Take(m) == taken' = m /\ outcome' = "Done" /\ bytes' = bytes /\ UNCHANGED received

\* Mutant: the trace of a gossiped block need not lead to the model of its header.
AcceptsCounted(m) ==
  \/ m.kind \in {"HELLO", "GET_BLOCKS", "GET_PEERS"}
  \/ m.kind = "GET" /\ Len(m.locator) <= MaxLocatorHashes
  \/ m.kind = "BLOCK" /\ Len(m.entries) = TraceLength /\ m.candidate_model = m.model_after

Accepts(m) ==
  \/ m.kind \in {"HELLO", "GET_BLOCKS", "GET_PEERS"}
  \/ m.kind = "GET" /\ Len(m.locator) <= MaxLocatorHashes
  \/ m.kind = "BLOCK" /\ TraceOk(m)

\* A line that is not UTF-8 is a read error, to every reader.
MessageOf(line) == IF IsUtf8(line) THEN DecodeNetworkMessage(line, receiver) ELSE NoMessage

\* handle_stream: what is not handled is counted, as one of three things.
HandleLine(line) ==
  LET m == MessageOf(line)
  IN  /\ reader = "Handler"
      /\ IF Accepts(m) THEN Take(m)
         ELSE Finish(CASE m.kind = "BLOCK" -> "Rejected"
                       [] m = NoMessage /\ IsUtf8(line) /\ IsPrefix(<<"CHESSCOIN">>, line) -> "Incompatible"
                       [] OTHER -> "Malformed")

\* peers_from_peer
ReceivePeers(line) ==
  LET m == MessageOf(line)
  IN  /\ reader = "Exchange"
      /\ IF m.kind = "PEERS" /\ Len(m.peers) <= MaxListed THEN Take(m) ELSE Finish("Failed")

\* headers_from_peer
ReceiveHeaders(line) ==
  LET m == MessageOf(line)
  IN  /\ reader = "Headers"
      /\ IF m.kind = "HEADERS" /\ Len(m.headers) <= MaxListed THEN Take(m) ELSE Finish("Failed")

\* One line of the loop of blocks_from_peer; validate_sync_batch is what can refuse.
ReceiveBlock(line) ==
  LET m == MessageOf(line)
      n == Len(received)
      expected == m.kind = "BLOCK" /\ n < Len(Expected) /\ BlockHash(m) = BlockHash(Expected[n + 1])
      complete == m = EndBlocks /\ n = Len(Expected)
  IN  /\ reader = "Sync"
      /\ \/ /\ expected
            /\ received' = Append(received, m)
            /\ bytes' = << >>
            /\ UNCHANGED <<taken, outcome>>
         \/ /\ complete
            /\ Finish(IF \A i \in 1..n : TraceOk(received[i]) THEN "Applied" ELSE "Failed")
         \/ /\ ~expected /\ ~complete
            /\ Finish("Failed")

Line(line) == HandleLine(line) \/ ReceivePeers(line) \/ ReceiveHeaders(line) \/ ReceiveBlock(line)

\* read_limited_line_from
ReadByte ==
  /\ outcome = "Reading" /\ ~closed
  /\ stream # << >>
  /\ stream' = Tail(stream)
  /\ \/ Len(bytes) = MaxMessageBytes /\ Finish("Oversized")
     \/ /\ Len(bytes) < MaxMessageBytes
        /\ IF Head(stream) = Newline THEN Line(bytes)
           ELSE /\ bytes' = Append(bytes, Head(stream))
                /\ UNCHANGED <<received, taken, outcome>>
  /\ UNCHANGED <<sender, receiver, reader, script, closed>>

\* The connection is closed: the end of the response, or a sender that is gone.
EndOfFile ==
  /\ outcome = "Reading"
  /\ closed' = TRUE
  /\ IF bytes = << >> THEN Finish("Nothing") ELSE Line(bytes)
  /\ UNCHANGED <<sender, receiver, reader, script, stream>>

\* A read error or timeout; a handler counts it as malformed.
ReadFails ==
  /\ outcome = "Reading"
  /\ Finish("Broken")
  /\ UNCHANGED <<sender, receiver, reader, script, stream, closed>>

WireNext == ReadByte \/ EndOfFile \/ ReadFails

WireSpec == WireInit /\ [][WireNext]_connection

-----------------------------------------------------------------------------
(* Properties                                                                *)

Reached == stream \in {<< >>, <<Newline>>} /\ outcome \notin {"Reading", "Broken", "Oversized"}

\* Nodes of one configuration understand each other's messages, whatever the network
\* id and the node id contain of the separators and escapes, if the network id is
\* ASCII and one line; with any other network id they never understand each other.
OneNetworkUnderstands ==
  (sender = receiver /\ reader = "Handler" /\ Accepts(script[1])) =>
    IF Plain(sender.network_id) THEN Reached => taken = script[1]
                                ELSE taken = NoMessage

\* A reader goes by the version, the fingerprint and the bytes of the network id, each byte
\* taken for a character, and by these exactly: of no other sender does a handler or a sync
\* take anything, with lines cut anywhere.  For a network id in ASCII the bytes are the id
\* itself.
OnlySameBytesTaken ==
  (taken # NoMessage \/ received # << >> \/ outcome = "Applied") =>
    receiver = [sender EXCEPT !.network_id = Utf8(@)]

\* docs/node-v0.1.md:105: "Peers must match protocol version, network_id, and this chain
\* fingerprint before their blocks, HELLO announcements, peer-list requests, or sync
\* requests are handled."  So a handler takes nothing of a node with another configuration.
ForeignRefused == (reader = "Handler" /\ receiver # sender) => taken = NoMessage

\* A sender that goes away in the middle of a line can make the reader take an
\* address, a limit or a nonce that is cut short, or a list that is: nothing else that
\* was not sent is ever taken, no height, locator or block in particular, and a sync
\* applies whole blocks only.
CutShort(m, sent) ==
  \/ m.kind = "HELLO" /\ m.kind = sent.kind
     /\ \E addr \in Prefixes(sent.listen_addr) : m = [sent EXCEPT !.listen_addr = addr]
  \/ m.kind \in {"GET", "GET_BLOCKS", "GET_PEERS"} /\ m.kind = sent.kind
     /\ \E limit \in Prefixes(sent.limit) : m = [sent EXCEPT !.limit = limit]
  \/ m.kind = "PEERS" /\ IsPrefix(Join(m.peers, ","), Join(sent.peers, ","))
  \/ m.kind = "HEADERS" /\ IsPrefix(EncodeHeaders(m.headers), EncodeHeaders(sent.headers))

CutNeverMisread ==
  /\ taken # NoMessage => taken = script[1] \/ CutShort(taken, script[1])
  /\ outcome = "Applied" => received = Expected /\ IsPrefix(Append(received, EndBlocks), script)
=============================================================================
