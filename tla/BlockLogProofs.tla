---------------------------- MODULE BlockLogProofs ----------------------------
(***************************************************************************)
(* Theorems about BlockLog, for every set of configurations, of blocks and *)
(* of logs that an older node may have left, and for any number of         *)
(* interrupted appends and restarts.                                       *)
(*                                                                         *)
(* The reader and the writer are loops over lines and over tokens: both    *)
(* are instances of FoldTheorems.  LogInv is the inductive invariant; it   *)
(* says of the file what makes it safe to read under any configuration.    *)
(***************************************************************************)
EXTENDS BlockLog, BlockTreeProofs

-----------------------------------------------------------------------------
(* The two loops                                                             *)

ReadStep(c, reader, line) == ReadLine(reader, line, c, FALSE)

Reads == INSTANCE FoldTheorems WITH Step <- ReadStep

WriteStep(context, file, token) == WriteToken(file, token)

Writes == INSTANCE FoldTheorems WITH Step <- WriteStep

\* The reader after the finished lines.
ReadLines(lines, c) == Reads!Fold(c, ReadNothing, lines)

LEMMA LoadIsFold ==
  ASSUME NEW file, NEW c
  PROVE  Load(file, c) = ReadLine(ReadLines(file.lines, c), file.tail, c, TRUE)
BY DEF Load, ReadLines, Reads!Fold, ReadStep, FoldLeft, MapThenFoldSet, Max,
       Reads!FoldLeft, Reads!MapThenFoldSet, Reads!Max

LEMMA WriteIsFold ==
  ASSUME NEW file, NEW tokens
  PROVE  Write(file, tokens) = Writes!Fold(0, file, tokens)
BY DEF Write, Writes!Fold, WriteStep, FoldLeft, MapThenFoldSet, Max,
       Writes!FoldLeft, Writes!MapThenFoldSet, Writes!Max

Tokens == {Torn} \cup {HeaderToken(c) : c \in Configs}
            \cup {Record(b, c) : b \in Blocks, c \in Configs \cup {Older}}

\* The kinds tell tokens apart.
LEMMA TokenKinds ==
  /\ \A token \in Tokens : /\ token.kind = "torn" <=> token = Torn
                           /\ token.kind \in {"torn", "header", "record"}
                           /\ token # Newline
  /\ \A c : HeaderToken(c).kind = "header" /\ HeaderToken(c).fingerprint = c
  /\ \A b, c : /\ Record(b, c).kind = "record" /\ Record(b, c).block = b
               /\ Record(b, c).by = c /\ Record(b, c) # Newline
  /\ \A c : HeaderToken(c) # Newline
  /\ \A token \in Tokens : token.kind = "header" => token.fingerprint \in Configs
                                                     /\ token = HeaderToken(token.fingerprint)
  /\ \A token \in Tokens : token.kind = "record" =>
       /\ token.block \in Blocks /\ token.by \in Configs \cup {Older}
       /\ token = Record(token.block, token.by)
  /\ Torn.kind = "torn" /\ Torn \in Tokens /\ Torn # Newline
BY DEF Tokens, Torn, Newline, HeaderToken, Record

-----------------------------------------------------------------------------
(* What a write leaves behind                                                *)

\* The file after some of the tokens, one token at a time.
LEMMA WriteTokens ==
  ASSUME NEW file, NEW X, NEW tokens \in Seq(X)
  PROVE  /\ Write(file, SubSeq(tokens, 1, 0)) = file
         /\ \A k \in 1..Len(tokens) :
              Write(file, SubSeq(tokens, 1, k))
                = WriteToken(Write(file, SubSeq(tokens, 1, k - 1)), tokens[k])
         /\ Write(file, SubSeq(tokens, 1, Len(tokens))) = Write(file, tokens)
         /\ \A k \in 0..Len(tokens) :
              Write(file, SubSeq(tokens, 1, k) \o <<Torn>>)
                = WriteToken(Write(file, SubSeq(tokens, 1, k)), Torn)
<1>1. SubSeq(tokens, 1, 0) = << >> /\ SubSeq(tokens, 1, Len(tokens)) = tokens
  OBVIOUS
<1>2. Write(file, << >>) = file
  BY Writes!FoldEmpty, WriteIsFold
<1>3. ASSUME NEW k \in 1..Len(tokens)
      PROVE  Write(file, SubSeq(tokens, 1, k))
               = WriteToken(Write(file, SubSeq(tokens, 1, k - 1)), tokens[k])
  <2>1. Writes!Fold(0, file, SubSeq(tokens, 1, k))
          = WriteStep(0, Writes!Fold(0, file, SubSeq(tokens, 1, k - 1)), tokens[k])
    BY Writes!FoldLast
  <2>2. QED BY <2>1, WriteIsFold DEF WriteStep
<1>4. ASSUME NEW k \in 0..Len(tokens)
      PROVE  Write(file, SubSeq(tokens, 1, k) \o <<Torn>>)
               = WriteToken(Write(file, SubSeq(tokens, 1, k)), Torn)
  <2> DEFINE Y == X \cup {Torn}
             prefix == SubSeq(tokens, 1, k)
  <2>1. prefix \in Seq(X)
    OBVIOUS
  <2>2. \A t \in Seq(X) : t \in Seq(Y)
    OBVIOUS
  <2>3. prefix \in Seq(Y) /\ Torn \in Y
    BY <2>1, <2>2
  <2>4. \A t \in Seq(Y) : \A x \in Y : t \o <<x>> = Append(t, x)
    OBVIOUS
  <2> HIDE DEF Y, prefix
  <2>5. Writes!Fold(0, file, Append(prefix, Torn))
          = WriteStep(0, Writes!Fold(0, file, prefix), Torn)
    BY <2>3, Writes!FoldAppend
  <2>6. prefix \o <<Torn>> = Append(prefix, Torn)
    BY <2>3, <2>4
  <2>7. QED BY <2>5, <2>6, WriteIsFold DEF WriteStep, prefix
<1>5. QED
  BY <1>1, <1>2, <1>3, <1>4

\* A file, by its parts.
File(lines, tail) == [lines |-> lines, tail |-> tail]

\* A file that begins with the header of a configuration, and nothing else.
HeaderFile(c) == File(<<<<HeaderToken(c)>>>>, << >>)

\* A token that is no newline goes to the tail; a newline finishes the line.
LEMMA TokenWritten ==
  ASSUME NEW lines, NEW tail, NEW token
  PROVE  /\ token # Newline =>
              WriteToken(File(lines, tail), token) = File(lines, Append(tail, token))
         /\ WriteToken(File(lines, tail), Newline) = File(Append(lines, tail), << >>)
BY DEF WriteToken, File

\* The record was written with its newline.
Finished(file, token) == File(Append(file.lines, Append(file.tail, token)), << >>)

\* The append of a token to a file that has some text, stopped anywhere.
StoppedAfter(file, token) ==
  {file, File(file.lines, Append(file.tail, token)),
   File(file.lines, Append(file.tail, Torn)), Finished(file, token)}

\* append_block writes the header of a new file before the record.
Opens(file, measured) == file = EmptyFile /\ measured

\* The tokens that append_block writes, one by one.
LEMMA TokensOfAppend ==
  ASSUME NEW file, NEW b, NEW measured \in BOOLEAN
  PROVE  LET R == Record(b, running)
             H == HeaderToken(running)
             all == AppendedTokens(file, b, measured)
         IN  /\ all \in Seq({H, R, Newline})
             /\ ~Opens(file, measured) => Len(all) = 2 /\ all[1] = R /\ all[2] = Newline
             /\ Opens(file, measured) => /\ Len(all) = 4
                                         /\ all[1] = H /\ all[2] = Newline
                                         /\ all[3] = R /\ all[4] = Newline
<1> DEFINE R == Record(b, running)
           H == HeaderToken(running)
           X == {H, R, Newline}
           all == AppendedTokens(file, b, measured)
<1> HIDE DEF R, H
<1>1. \A s, t \in Seq(X) : /\ s \o t \in Seq(X) /\ Len(s \o t) = Len(s) + Len(t)
                           /\ \A i \in 1..Len(s) : (s \o t)[i] = s[i]
                           /\ \A i \in 1..Len(t) : (s \o t)[Len(s) + i] = t[i]
  OBVIOUS
<1>2. <<R, Newline>> \in Seq(X) /\ <<H, Newline>> \in Seq(X) /\ << >> \in Seq(X)
  OBVIOUS
<1>3. /\ Len(<<R, Newline>>) = 2 /\ <<R, Newline>>[1] = R /\ <<R, Newline>>[2] = Newline
      /\ Len(<<H, Newline>>) = 2 /\ <<H, Newline>>[1] = H /\ <<H, Newline>>[2] = Newline
      /\ Len(<< >>) = 0
  OBVIOUS
<1> HIDE DEF X
<1>4. CASE ~Opens(file, measured)
  <2>1. all = << >> \o <<R, Newline>>
    BY <1>4 DEF AppendedTokens, Opens, R
  <2>2. Len(all) = 0 + 2 /\ all[0 + 1] = R /\ all[0 + 2] = Newline /\ all \in Seq(X)
    <3> DEFINE t == <<R, Newline>>
               s == << >>
    <3>1. s \in Seq(X) /\ t \in Seq(X) /\ Len(s) = 0 /\ Len(t) = 2 /\ t[1] = R /\ t[2] = Newline
          /\ all = s \o t
      BY <1>2, <1>3, <2>1
    <3> HIDE DEF s, t, all
    <3>2. 1 \in 1..Len(t) /\ 2 \in 1..Len(t)
      BY <3>1
    <3>3. QED BY <1>1, <3>1, <3>2
  <2> HIDE DEF all
  <2>3. QED BY <1>4, <2>2 DEF R, H, X, all
<1>5. CASE Opens(file, measured)
  <2>1. all = <<H, Newline>> \o <<R, Newline>>
    BY <1>5 DEF AppendedTokens, Opens, R, H
  <2>2. /\ Len(all) = 2 + 2 /\ all[1] = H /\ all[2] = Newline
        /\ all[2 + 1] = R /\ all[2 + 2] = Newline /\ all \in Seq(X)
    <3> DEFINE t == <<R, Newline>>
               s == <<H, Newline>>
    <3>1. s \in Seq(X) /\ t \in Seq(X) /\ Len(s) = 2 /\ Len(t) = 2 /\ t[1] = R /\ t[2] = Newline
          /\ s[1] = H /\ s[2] = Newline /\ all = s \o t
      BY <1>2, <1>3, <2>1
    <3> HIDE DEF s, t, all
    <3>2. 1 \in 1..Len(t) /\ 2 \in 1..Len(t) /\ 1 \in 1..Len(s) /\ 2 \in 1..Len(s)
      BY <3>1
    <3>3. (s \o t)[Len(s) + 1] = t[1] /\ (s \o t)[Len(s) + 2] = t[2]
      BY <1>1, <3>1, <3>2
    <3>4. (s \o t)[1] = s[1] /\ (s \o t)[2] = s[2]
      BY <1>1, <3>1, <3>2
    <3>5. Len(s \o t) = Len(s) + Len(t) /\ s \o t \in Seq(X)
      BY <1>1, <3>1
    <3>6. QED BY <3>1, <3>3, <3>4, <3>5
  <2> HIDE DEF all
  <2>3. QED BY <1>5, <2>2 DEF R, H, X, all
<1>6. QED BY <1>4, <1>5

LEMMA Singletons == \A x : Append(<< >>, x) = <<x>>
OBVIOUS

\* append_block finishes one line, after that of the header in a new file; interrupted,
\* it leaves the header of a new file unfinished, or it leaves the record unfinished.
LEMMA Appends ==
  ASSUME NEW file, file = File(file.lines, file.tail), NEW b, NEW measured \in BOOLEAN
  PROVE  LET R == Record(b, running)
             H == HeaderToken(running)
             all == AppendedTokens(file, b, measured)
             begun == IF Opens(file, measured) THEN HeaderFile(running) ELSE file
         IN  /\ Write(file, all) = Finished(begun, R)
             /\ \A tokens \in Interrupted(all) :
                  LET new == Write(file, tokens)
                  IN  \/ new \in StoppedAfter(begun, R)
                      \/ /\ file = EmptyFile
                         /\ new \in {EmptyFile, File(<< >>, <<H>>), File(<< >>, <<Torn>>)}
<1> DEFINE R == Record(b, running)
           H == HeaderToken(running)
           all == AppendedTokens(file, b, measured)
           w(k) == Write(file, SubSeq(all, 1, k))
           begun == IF Opens(file, measured) THEN HeaderFile(running) ELSE file
<1>1. R # Newline /\ H # Newline /\ Torn # Newline
  BY TokenKinds
<1>2. /\ all \in Seq({H, R, Newline})
      /\ ~Opens(file, measured) => Len(all) = 2 /\ all[1] = R /\ all[2] = Newline
      /\ Opens(file, measured) => /\ Len(all) = 4
                             /\ all[1] = H /\ all[2] = Newline
                             /\ all[3] = R /\ all[4] = Newline
  BY TokensOfAppend
<1>3. ASSUME NEW tokens \in Interrupted(all)
      PROVE  \/ \E n \in 0..Len(all) : tokens = SubSeq(all, 1, n)
             \/ \E n \in 0..(Len(all) - 1) :
                  all[n + 1] # Newline /\ tokens = SubSeq(all, 1, n) \o <<Torn>>
  BY DEF Interrupted
<1>4. /\ w(0) = file
      /\ \A k \in 1..Len(all) : w(k) = WriteToken(w(k - 1), all[k])
      /\ w(Len(all)) = Write(file, all)
      /\ \A k \in 0..Len(all) :
           Write(file, SubSeq(all, 1, k) \o <<Torn>>) = WriteToken(w(k), Torn)
  BY <1>2, WriteTokens
<1>5. \A n : Write(file, SubSeq(all, 1, n)) = w(n)
  OBVIOUS
<1> HIDE DEF R, H, w, all
<1>6. CASE ~Opens(file, measured)
  <2>1. /\ w(1) = WriteToken(w(0), R) /\ w(2) = WriteToken(w(1), Newline)
        /\ Write(file, SubSeq(all, 1, 0) \o <<Torn>>) = WriteToken(w(0), Torn)
    <3>1. Len(all) = 2 /\ all[1] = R /\ all[2] = Newline
      BY <1>2, <1>6
    <3>2. 1 \in 1..2 /\ 2 \in 1..2 /\ 0 \in 0..2 /\ 1 - 1 = 0 /\ 2 - 1 = 1
      OBVIOUS
    <3>3. w(1) = WriteToken(w(1 - 1), all[1]) /\ w(2) = WriteToken(w(2 - 1), all[2])
      BY <1>4, <3>1, <3>2
    <3>4. Write(file, SubSeq(all, 1, 0) \o <<Torn>>) = WriteToken(w(0), Torn)
      BY <1>4, <3>1, <3>2
    <3>5. QED
      BY <3>1, <3>2, <3>3, <3>4
  <2>2. /\ w(0) = file
        /\ w(1) = File(file.lines, Append(file.tail, R))
        /\ w(2) = Finished(file, R)
        /\ Write(file, SubSeq(all, 1, 0) \o <<Torn>>) = File(file.lines, Append(file.tail, Torn))
    BY <1>1, <1>4, <2>1, TokenWritten DEF Finished
  <2>3. Write(file, all) = Finished(file, R)
    BY <1>2, <1>4, <1>6, <2>2
  <2>4. ASSUME NEW tokens \in Interrupted(all)
        PROVE  Write(file, tokens) \in StoppedAfter(file, R)
    <3>1. CASE \E n \in 0..Len(all) : tokens = SubSeq(all, 1, n)
      <4>1. PICK n \in 0..2 : tokens = SubSeq(all, 1, n)
        BY <1>2, <1>6, <3>1
      <4>2. n = 0 \/ n = 1 \/ n = 2
        OBVIOUS
      <4>3. QED BY <1>5, <2>2, <4>1, <4>2 DEF StoppedAfter
    <3>2. CASE \E n \in 0..(Len(all) - 1) :
                 all[n + 1] # Newline /\ tokens = SubSeq(all, 1, n) \o <<Torn>>
      <4>0. Len(all) - 1 = 1
        BY <1>2, <1>6
      <4>1. PICK n \in 0..1 : all[n + 1] # Newline /\ tokens = SubSeq(all, 1, n) \o <<Torn>>
        BY <3>2, <4>0
      <4>2. n = 0
        BY <1>2, <1>6, <4>1
      <4>3. QED BY <2>2, <4>1, <4>2 DEF StoppedAfter
    <3>3. QED BY <1>3, <3>1, <3>2
  <2>5. QED BY <1>6, <2>3, <2>4 DEF R, H, all
<1>7. CASE Opens(file, measured)
  <2> DEFINE hf == HeaderFile(running)
  <2>1. file = File(<< >>, << >>)
    BY <1>7 DEF Opens, EmptyFile, File
  <2>2. hf = File(<<<<H>>>>, << >>) /\ hf = File(hf.lines, hf.tail)
    BY DEF HeaderFile, File, H
  <2> HIDE DEF hf
  <2>3. /\ w(1) = WriteToken(w(0), H) /\ w(2) = WriteToken(w(1), Newline)
        /\ w(3) = WriteToken(w(2), R) /\ w(4) = WriteToken(w(3), Newline)
        /\ Write(file, SubSeq(all, 1, 0) \o <<Torn>>) = WriteToken(w(0), Torn)
        /\ Write(file, SubSeq(all, 1, 2) \o <<Torn>>) = WriteToken(w(2), Torn)
    <3>0. Len(all) = 4
      BY <1>2, <1>7
    <3>1. /\ 1 \in 1..Len(all) /\ 2 \in 1..Len(all) /\ 3 \in 1..Len(all) /\ 4 \in 1..Len(all)
          /\ 0 \in 0..Len(all) /\ 2 \in 0..Len(all)
      BY <3>0
    <3>2. /\ w(1) = WriteToken(w(1 - 1), all[1]) /\ w(2) = WriteToken(w(2 - 1), all[2])
          /\ w(3) = WriteToken(w(3 - 1), all[3]) /\ w(4) = WriteToken(w(4 - 1), all[4])
      BY <1>4, <3>1
    <3>3. /\ w(1) = WriteToken(w(0), H) /\ w(2) = WriteToken(w(1), Newline)
          /\ w(3) = WriteToken(w(2), R) /\ w(4) = WriteToken(w(3), Newline)
      BY <1>2, <1>7, <3>2
    <3>4. QED BY <1>4, <3>1, <3>3
  <2>4. w(0) = file /\ w(1) = File(<< >>, <<H>>)
        /\ Write(file, SubSeq(all, 1, 0) \o <<Torn>>) = File(<< >>, <<Torn>>)
    <3>1. /\ WriteToken(File(<< >>, << >>), H) = File(<< >>, Append(<< >>, H))
          /\ WriteToken(File(<< >>, << >>), Torn) = File(<< >>, Append(<< >>, Torn))
      BY <1>1, TokenWritten
    <3>2. Append(<< >>, H) = <<H>> /\ Append(<< >>, Torn) = <<Torn>>
      BY Singletons
    <3>3. QED BY <1>4, <2>1, <2>3, <3>1, <3>2
  <2>5. w(2) = hf
    <3>1. WriteToken(File(<< >>, <<H>>), Newline) = File(Append(<< >>, <<H>>), << >>)
      BY TokenWritten
    <3>2. Append(<< >>, <<H>>) = <<<<H>>>>
      BY Singletons
    <3>3. QED BY <2>2, <2>3, <2>4, <3>1, <3>2
  <2>6. /\ w(3) = File(hf.lines, Append(hf.tail, R))
        /\ Write(file, SubSeq(all, 1, 2) \o <<Torn>>) = File(hf.lines, Append(hf.tail, Torn))
    BY <1>1, <2>2, <2>3, <2>5, TokenWritten
  <2>7. w(4) = Finished(hf, R)
    BY <2>3, <2>6, TokenWritten DEF Finished
  <2>8. Write(file, all) = Finished(hf, R)
    BY <1>2, <1>4, <1>7, <2>7
  <2>9. ASSUME NEW tokens \in Interrupted(all)
        PROVE  \/ Write(file, tokens) \in StoppedAfter(hf, R)
               \/ Write(file, tokens) \in {EmptyFile, File(<< >>, <<H>>), File(<< >>, <<Torn>>)}
    <3>1. CASE \E n \in 0..Len(all) : tokens = SubSeq(all, 1, n)
      <4>1. PICK n \in 0..4 : tokens = SubSeq(all, 1, n)
        BY <1>2, <1>7, <3>1
      <4>2. n = 0 \/ n = 1 \/ n = 2 \/ n = 3 \/ n = 4
        OBVIOUS
      <4>3. QED BY <1>5, <1>7, <2>4, <2>5, <2>6, <2>7, <4>1, <4>2 DEF Opens, StoppedAfter
    <3>2. CASE \E n \in 0..(Len(all) - 1) :
                 all[n + 1] # Newline /\ tokens = SubSeq(all, 1, n) \o <<Torn>>
      <4>0. Len(all) - 1 = 3
        BY <1>2, <1>7
      <4>1. PICK n \in 0..3 : all[n + 1] # Newline /\ tokens = SubSeq(all, 1, n) \o <<Torn>>
        BY <3>2, <4>0
      <4>2. n = 0 \/ n = 1 \/ n = 2 \/ n = 3
        OBVIOUS
      <4>3. n = 0 \/ n = 2
        BY <1>2, <1>7, <4>1, <4>2
      <4>4. QED BY <2>4, <2>6, <4>1, <4>3 DEF StoppedAfter
    <3>3. QED BY <1>3, <3>1, <3>2
  <2>10. QED BY <1>7, <2>8, <2>9 DEF Opens, R, H, all, hf
<1>8. QED BY <1>6, <1>7

-----------------------------------------------------------------------------
(* What a read finds                                                         *)

LEMMA OneLonger ==
  ASSUME NEW X, NEW s \in Seq(X), NEW x \in X
  PROVE  /\ Append(s, x) \in Seq(X)
         /\ Append(s, x) # << >>
         /\ Len(Append(s, x)) = Len(s) + 1
         /\ Append(s, x)[Len(s) + 1] = x
         /\ \A i \in 1..Len(s) : Append(s, x)[i] = s[i]
         /\ \A i \in 1..(Len(s) + 1) : i \in 1..Len(s) \/ i = Len(s) + 1
         /\ s # << >> => Len(s) > 0 /\ Append(s, x)[1] = s[1]
         /\ s = << >> => Append(s, x) = <<x>>
         /\ Len(s) \in Nat
<1>1. Append(s, x) \in Seq(X) /\ Len(Append(s, x)) = Len(s) + 1
  OBVIOUS
<1>2. Append(s, x)[Len(s) + 1] = x /\ \A i \in 1..Len(s) : Append(s, x)[i] = s[i]
  OBVIOUS
<1>3. Len(s) \in Nat
  OBVIOUS
<1>4. \A i \in 1..(Len(s) + 1) : i \in 1..Len(s) \/ i = Len(s) + 1
  BY <1>3
<1>5. s # << >> => Len(s) > 0
  OBVIOUS
<1>6. s # << >> => 1 \in 1..Len(s)
  BY <1>3, <1>5
<1>7. s = << >> => Append(s, x) = <<x>>
  BY Singletons
<1>8. Append(s, x) # << >>
  <2>1. Len(<< >>) = 0
    OBVIOUS
  <2>2. QED BY <1>1, <1>3, <2>1
<1>9. QED BY <1>1, <1>2, <1>3, <1>4, <1>5, <1>6, <1>7, <1>8

ReaderOk(reader) ==
  /\ reader = [result |-> reader.result, fork_choice |-> reader.fork_choice,
               seen_header |-> reader.seen_header, seen_block |-> reader.seen_block]
  /\ ForkChoiceInv(reader.fork_choice)

\* A line that a reader of c has taken into its fork choice.
Taken(line, c, fc) ==
  /\ Decodes(line)
  /\ line[1].kind = "header" => line[1].fingerprint = c
  /\ line[1].kind = "record" => line[1].block.hash \in Known(fc)

LEMMA KnownAfterInsert ==
  ASSUME NEW fc, NEW b \in Blocks, InsertResult(fc, b) = "Ok"
  PROVE  b.hash \in Known(InsertBlock(fc, b))
<1>1. CASE Attaches(fc, b)
  BY <1>1, Inserted, ZenonT(30)
<1>2. CASE ~Attaches(fc, b)
  BY <1>2 DEF Attaches, ContainsBlock, InsertBlock
<1>3. QED BY <1>1, <1>2

\* What reading one line makes of a reader: its fork choice only grows, and reading goes
\* on only after a line that was taken.
ReadTo(reader, line, c, unfinished, new) ==
  /\ ReaderOk(new)
  /\ Grows(reader.fork_choice, new.fork_choice)
  /\ reader.result # "Reading" \/ line = << >> => new = reader
  /\ (reader.result = "Reading" /\ line # << >> /\ ~Decodes(line)) =>
       new.result = (IF unfinished THEN "EndOfLog" ELSE "Fatal")
  /\ (reader.result = "Reading" /\ Decodes(line)) =>
       /\ new.result \in {"Reading", "Fatal"}
       /\ new.result = "Reading" => Taken(line, c, new.fork_choice)

LEMMA LineRead ==
  ASSUME NEW reader, ReaderOk(reader), NEW line \in Seq(Tokens), NEW c, NEW unfinished
  PROVE  ReadTo(reader, line, c, unfinished, ReadLine(reader, line, c, unfinished))
<1> DEFINE new == ReadLine(reader, line, c, unfinished)
           fc == reader.fork_choice
           tok == line[1]
<1>1. Grows(fc, fc) /\ ForkChoiceInv(fc)
  BY DEF Grows, ReaderOk
<1>2. CASE reader.result # "Reading" \/ line = << >>
  <2>1. new = reader
    BY <1>2 DEF ReadLine
  <2>2. ~Decodes(<< >>)
    BY DEF Decodes
  <2>3. QED BY <1>1, <1>2, <2>1, <2>2 DEF ReadTo, ReaderOk
<1>3. CASE reader.result = "Reading" /\ line # << >> /\ ~Decodes(line)
  <2>1. new = [reader EXCEPT !.result = IF unfinished THEN "EndOfLog" ELSE "Fatal"]
    BY <1>3 DEF ReadLine
  <2> HIDE DEF new
  <2>2. ReaderOk(new) /\ new.fork_choice = fc
        /\ new.result = (IF unfinished THEN "EndOfLog" ELSE "Fatal")
    BY <2>1 DEF ReaderOk
  <2>3. QED BY <1>1, <1>3, <2>2 DEF new, ReadTo
<1>4. CASE reader.result = "Reading" /\ Decodes(line)
  <2>1. /\ tok \in Tokens /\ tok # Torn /\ line # << >>
        /\ tok.kind \in {"header", "record"}
    BY <1>4, TokenKinds DEF Decodes
  <2>2. CASE tok.kind = "header"
    <3>1. new = ReadHeader(reader, tok, c)
      BY <1>4, <2>1, <2>2 DEF ReadLine
    <3>2. \/ new = [reader EXCEPT !.result = "Fatal"]
          \/ new = [reader EXCEPT !.seen_header = TRUE] /\ tok.fingerprint = c
      BY <3>1 DEF ReadHeader
    <3> HIDE DEF new
    <3>3. /\ ReaderOk(new) /\ new.fork_choice = fc
          /\ new.result \in {"Reading", "Fatal"}
          /\ new.result = "Reading" => tok.fingerprint = c
      BY <1>4, <3>2 DEF ReaderOk
    <3>4. QED BY <1>1, <1>4, <2>1, <2>2, <3>3 DEF Taken, new, ReadTo
  <2>3. CASE tok.kind = "record"
    <3> DEFINE b == tok.block
    <3>1. new = ReadRecord(reader, b)
      BY <1>4, <2>1, <2>3 DEF ReadLine
    <3>2. b \in Blocks
      BY <2>1, <2>3, TokenKinds
    <3>3. CASE InsertResult(fc, b) # "Ok"
      <4>1. new = [reader EXCEPT !.result = "Fatal"]
        BY <3>1, <3>3 DEF ReadRecord
      <4> HIDE DEF new
      <4>2. ReaderOk(new) /\ new.fork_choice = fc /\ new.result = "Fatal"
        BY <4>1 DEF ReaderOk
      <4>3. QED BY <1>1, <1>4, <2>1, <4>2 DEF new, ReadTo
    <3>4. CASE InsertResult(fc, b) = "Ok"
      <4> DEFINE fc2 == InsertBlock(fc, b)
      <4>1. new = [reader EXCEPT !.fork_choice = InsertBlock(@, b), !.seen_block = TRUE]
        BY <3>1, <3>4 DEF ReadRecord
      <4>2. ForkChoiceInv(fc2) /\ Grows(fc, fc2) /\ b.hash \in Known(fc2)
        BY <1>1, <3>2, <3>4, InsertKeepsInv, InsertGrows, KnownAfterInsert
      <4> HIDE DEF fc2, new
      <4>3. new = [result |-> reader.result, fork_choice |-> fc2,
                   seen_header |-> reader.seen_header, seen_block |-> TRUE]
        <5>1. new = [reader EXCEPT !.fork_choice = fc2, !.seen_block = TRUE]
          BY <4>1 DEF fc2
        <5>2. QED BY <5>1 DEF ReaderOk
      <4>4. ReaderOk(new) /\ new.fork_choice = fc2 /\ new.result = "Reading"
        BY <1>4, <4>2, <4>3 DEF ReaderOk
      <4>5. Taken(line, c, fc2)
        BY <1>4, <2>3, <4>2 DEF Taken
      <4>6. QED BY <1>4, <2>1, <4>2, <4>4, <4>5 DEF new, ReadTo
    <3>5. QED BY <3>3, <3>4
  <2>4. QED BY <2>1, <2>2, <2>3
<1>5. QED BY <1>2, <1>3, <1>4

\* The finished lines are all taken, or one of them is fatal.
LEMMA LinesRead ==
  ASSUME NEW lines \in Seq(Seq(Tokens)), NEW c
  PROVE  LET reader == ReadLines(lines, c)
         IN  /\ ReaderOk(reader)
             /\ reader.result \in {"Reading", "Fatal"}
             /\ reader.result = "Reading" =>
                  \A i \in 1..Len(lines) : lines[i] = << >> \/ Taken(lines[i], c, reader.fork_choice)
<1> DEFINE l == Len(lines)
<1>1. l \in Nat /\ DOMAIN lines = 1..l /\ \A i \in 1..l : lines[i] \in Seq(Tokens)
  OBVIOUS
<1>2. PICK r : Reads!Runs(c, ReadNothing, lines, l, r) /\ Reads!Fold(c, ReadNothing, lines) = r[l]
  BY <1>1, Reads!FoldRuns
<1>3. r[0] = ReadNothing /\ \A i \in 1..l : r[i] = ReadLine(r[i - 1], lines[i], c, FALSE)
  BY <1>2 DEF Reads!Runs, ReadStep
<1> HIDE DEF l
<1> DEFINE Good(k) == /\ ReaderOk(r[k])
                      /\ r[k].result \in {"Reading", "Fatal"}
                      /\ r[k].result = "Reading" => \A i \in 1..k :
                           lines[i] = << >> \/ Taken(lines[i], c, r[k].fork_choice)
           S == {k \in Nat : Good(k)}
<1>4. 0 \in S
  BY <1>3, EmptyInv DEF ReadNothing, ReaderOk
<1>5. ASSUME NEW k \in 1..l, k - 1 \in S
      PROVE  k \in S
  <2> DEFINE o == r[k - 1]
             m == r[k]
             line == lines[k]
  <2>1. k \in Nat /\ line \in Seq(Tokens) /\ m = ReadLine(o, line, c, FALSE)
    <3>1. k \in Nat /\ lines[k] \in Seq(Tokens)
      BY <1>1
    <3>2. r[k] = ReadLine(r[k - 1], lines[k], c, FALSE)
      BY <1>3
    <3>3. QED BY <3>1, <3>2
  <2>2. Good(k - 1)
    BY <1>5
  <2>3. ReaderOk(o) /\ o.result \in {"Reading", "Fatal"}
    BY <2>2
  <2> HIDE DEF o, m, line
  <2>4. /\ ReaderOk(m)
        /\ Grows(o.fork_choice, m.fork_choice)
        /\ o.result # "Reading" \/ line = << >> => m = o
        /\ (o.result = "Reading" /\ line # << >> /\ ~Decodes(line)) => m.result = "Fatal"
        /\ (o.result = "Reading" /\ Decodes(line)) =>
                  /\ m.result \in {"Reading", "Fatal"}
                  /\ m.result = "Reading" => Taken(line, c, m.fork_choice)
    <3>1. ReadTo(o, line, c, FALSE, m)
      BY <2>1, <2>3, LineRead
    <3>2. QED BY <3>1 DEF ReadTo
  <2>5. m.result \in {"Reading", "Fatal"}
    BY <2>3, <2>4
  <2>6. ASSUME m.result = "Reading", NEW i \in 1..k
        PROVE  lines[i] = << >> \/ Taken(lines[i], c, m.fork_choice)
    <3>1. o.result = "Reading"
      BY <2>3, <2>4, <2>6
    <3>2. CASE i = k
      BY <2>4, <2>6, <3>1, <3>2 DEF line
    <3>3. CASE i # k
      <4>1. i \in 1..(k - 1)
        BY <2>1, <3>3
      <4>2. lines[i] = << >> \/ Taken(lines[i], c, o.fork_choice)
        BY <2>2, <3>1, <4>1 DEF o
      <4>3. QED BY <2>4, <4>2 DEF Taken, Grows
    <3>4. QED BY <3>2, <3>3
  <2>7. QED BY <2>1, <2>4, <2>5, <2>6 DEF m
<1>6. 0..l \subseteq S
  <2> HIDE DEF S
  <2>1. QED BY <1>1, <1>4, <1>5, Reads!Counting
<1>7. l \in 0..l /\ Good(l)
  BY <1>1, <1>6
<1>8. QED
  BY <1>2, <1>7 DEF ReadLines, l

AllDecode(file) == \A i \in 1..Len(file.lines) : Decodes(file.lines[i])

\* A file that the node's own writes make of one that an older node left: no finished
\* line is empty, and a header is the first token or nowhere.
FileOk(file) ==
  /\ file = File(file.lines, file.tail)
  /\ file.lines \in Seq(Seq(Tokens) \ {<< >>})
  /\ file.tail \in Seq(Tokens)
  /\ \A i \in 1..Len(file.lines) : \A j \in 1..Len(file.lines[i]) :
       file.lines[i][j].kind = "header" => i = 1 /\ j = 1
  /\ \A j \in 1..Len(file.tail) : file.tail[j].kind = "header" => file.lines = << >> /\ j = 1

LEMMA FileType ==
  ASSUME NEW file, FileOk(file)
  PROVE  /\ file.lines \in Seq(Seq(Tokens)) /\ file.tail \in Seq(Tokens)
         /\ Len(file.lines) \in Nat
         /\ \A i \in 1..Len(file.lines) : /\ file.lines[i] \in Seq(Tokens)
                                          /\ file.lines[i] # << >>
BY DEF FileOk

\* A start that succeeds has taken every finished line, and the tail if it decodes.
LEMMA FileLoaded ==
  ASSUME NEW file, FileOk(file), NEW c
  PROVE  LET reader == Load(file, c)
         IN  /\ ForkChoiceInv(reader.fork_choice)
             /\ LoadOk(file, c) <=> reader.result # "Fatal"
             /\ reader.result # "Fatal" =>
                  /\ ReadLines(file.lines, c).result = "Reading"
                  /\ AllDecode(file)
                  /\ \A i \in 1..Len(file.lines) : Taken(file.lines[i], c, reader.fork_choice)
                  /\ Decodes(file.tail) => Taken(file.tail, c, reader.fork_choice)
<1> DEFINE before == ReadLines(file.lines, c)
           reader == Load(file, c)
<1>1. /\ file.lines \in Seq(Seq(Tokens)) /\ file.tail \in Seq(Tokens)
      /\ \A i \in 1..Len(file.lines) : file.lines[i] # << >>
  BY FileType
<1>2. /\ ReaderOk(before)
      /\ before.result \in {"Reading", "Fatal"}
      /\ before.result = "Reading" =>
           \A i \in 1..Len(file.lines) :
             file.lines[i] = << >> \/ Taken(file.lines[i], c, before.fork_choice)
  BY <1>1, LinesRead
<1>3. reader = ReadLine(before, file.tail, c, TRUE)
  BY LoadIsFold
<1> HIDE DEF before, reader
<1>4. /\ ReaderOk(reader)
      /\ Grows(before.fork_choice, reader.fork_choice)
      /\ before.result # "Reading" => reader = before
      /\ (before.result = "Reading" /\ Decodes(file.tail)) =>
            /\ reader.result \in {"Reading", "Fatal"}
            /\ reader.result = "Reading" => Taken(file.tail, c, reader.fork_choice)
  <2>1. ReadTo(before, file.tail, c, TRUE, reader)
    BY <1>1, <1>2, <1>3, LineRead
  <2>2. QED BY <2>1 DEF ReadTo
<1>5. ForkChoiceInv(reader.fork_choice)
  BY <1>4 DEF ReaderOk
<1>6. LoadOk(file, c) <=> reader.result # "Fatal"
  BY <1>5, BestChainReplays DEF LoadOk, reader
<1>7. ASSUME reader.result # "Fatal"
      PROVE  /\ before.result = "Reading"
             /\ \A i \in 1..Len(file.lines) : Taken(file.lines[i], c, reader.fork_choice)
             /\ Decodes(file.tail) => Taken(file.tail, c, reader.fork_choice)
  <2>1. before.result = "Reading"
    BY <1>2, <1>4, <1>7
  <2>2. \A i \in 1..Len(file.lines) : Taken(file.lines[i], c, before.fork_choice)
    BY <1>1, <1>2, <2>1
  <2>3. QED BY <1>4, <1>7, <2>1, <2>2 DEF Taken, Grows
<1>8. QED
  BY <1>5, <1>6, <1>7 DEF reader, before, AllDecode, Taken

-----------------------------------------------------------------------------
(* What is written next                                                      *)

\* A token behind some text: the line decodes only if there was none.
LEMMA AppendedLine ==
  ASSUME NEW tail \in Seq(Tokens), NEW t \in Tokens
  PROVE  LET line == Append(tail, t)
         IN  /\ line \in Seq(Tokens) /\ line \in Seq(Tokens) \ {<< >>}
             /\ Decodes(line) => tail = << >> /\ t # Torn
             /\ tail = << >> => line = <<t>> /\ line[1] = t /\ Len(line) = 1
             /\ tail # << >> => line[1] = tail[1] /\ Len(line) > 1
             /\ \A j \in 1..Len(line) :
                  \/ j \in 1..Len(tail) /\ line[j] = tail[j]
                  \/ line[j] = t /\ (tail = << >> => j = 1)
<1> DEFINE line == Append(tail, t)
           n == Len(tail)
<1>1. /\ line \in Seq(Tokens)
      /\ line # << >>
      /\ Len(line) = n + 1
      /\ line[n + 1] = t
      /\ \A i \in 1..n : line[i] = tail[i]
      /\ \A i \in 1..(n + 1) : i \in 1..n \/ i = n + 1
      /\ tail # << >> => n > 0 /\ line[1] = tail[1]
      /\ tail = << >> => line = <<t>>
      /\ n \in Nat
  BY OneLonger
<1>2. tail = << >> => n = 0
  OBVIOUS
<1> HIDE DEF line, n
<1>3. tail = << >> => line[1] = t /\ Len(line) = 1
  BY <1>1, <1>2
<1>4. tail # << >> => Len(line) > 1
  BY <1>1
<1>5. Decodes(line) => tail = << >> /\ t # Torn
  BY <1>3, <1>4 DEF Decodes
<1>6. ASSUME NEW j \in 1..Len(line)
      PROVE  \/ j \in 1..n /\ line[j] = tail[j]
             \/ line[j] = t /\ (tail = << >> => j = 1)
  BY <1>1, <1>2
<1>7. QED BY <1>1, <1>3, <1>4, <1>5, <1>6 DEF line, n

\* The finished lines of a file stay.
LinesKept(file, new) ==
  /\ Len(file.lines) \in Nat /\ Len(new.lines) \in Nat
  /\ Len(file.lines) <= Len(new.lines)
  /\ \A i \in 1..Len(file.lines) : new.lines[i] = file.lines[i]

LEMMA LinesAfter ==
  ASSUME NEW file, FileOk(file), NEW token \in Tokens, NEW new \in StoppedAfter(file, token)
  PROVE  /\ LinesKept(file, new)
         /\ file.lines # << >> => new.lines # << >> /\ new.lines[1] = file.lines[1]
         /\ file = File(file.lines, file.tail)
         /\ \/ new.lines = file.lines /\ new.tail = file.tail
            \/ new.lines = file.lines /\ new.tail = Append(file.tail, token)
            \/ new.lines = file.lines /\ new.tail = Append(file.tail, Torn)
            \/ /\ new = Finished(file, token)
               /\ new.lines = Append(file.lines, Append(file.tail, token)) /\ new.tail = << >>
<1> DEFINE X == Seq(Tokens) \ {<< >>}
           last == Append(file.tail, token)
<1>1. file.lines \in Seq(X) /\ file.tail \in Seq(Tokens) /\ file = File(file.lines, file.tail)
  BY DEF FileOk
<1>2. last \in X
  BY <1>1, AppendedLine
<1> HIDE DEF X, last
<1>3. /\ Len(Append(file.lines, last)) = Len(file.lines) + 1
      /\ \A i \in 1..Len(file.lines) : Append(file.lines, last)[i] = file.lines[i]
      /\ Append(file.lines, last) # << >>
      /\ file.lines # << >> => Append(file.lines, last)[1] = file.lines[1]
      /\ Len(file.lines) \in Nat
  BY <1>1, <1>2, OneLonger
<1>4. CASE new = Finished(file, token)
  <2>1. new.lines = Append(file.lines, last) /\ new.tail = << >>
    BY <1>4 DEF Finished, File, last
  <2>2. LinesKept(file, new)
    <3>1. Len(file.lines) <= Len(file.lines) + 1 /\ Len(file.lines) + 1 \in Nat
      BY <1>3
    <3>2. QED BY <1>3, <2>1, <3>1 DEF LinesKept
  <2>3. QED BY <1>1, <1>3, <1>4, <2>1, <2>2 DEF last
<1>5. CASE new # Finished(file, token)
  <2>1. \/ new = file
        \/ new = File(file.lines, Append(file.tail, token))
        \/ new = File(file.lines, Append(file.tail, Torn))
    BY <1>5 DEF StoppedAfter
  <2>2. /\ new.lines = file.lines
        /\ \/ new.tail = file.tail
           \/ new.tail = Append(file.tail, token)
           \/ new.tail = Append(file.tail, Torn)
    BY <2>1 DEF File
  <2>3. LinesKept(file, new)
    BY <1>3, <2>2 DEF LinesKept
  <2>4. QED BY <1>1, <2>2, <2>3
<1>6. QED BY <1>4, <1>5

\* An empty file, and what an interrupted append of the first header leaves.
Beginnings == {EmptyFile} \cup {File(<< >>, <<HeaderToken(c)>>) : c \in Configs}
                \cup {File(<< >>, <<Torn>>)}

LEMMA BeginningsOk ==
  /\ \A file \in Beginnings : FileOk(file) /\ file.lines = << >> /\ LinesKept(EmptyFile, file)
  /\ \A c \in Configs : FileOk(HeaderFile(c)) /\ HeaderFile(c) # EmptyFile
                        /\ LinesKept(EmptyFile, HeaderFile(c))
  /\ EmptyFile.lines = << >> /\ EmptyFile.tail = << >>
<1>1. \A t \in Tokens : /\ <<t>> \in Seq(Tokens) \ {<< >>} /\ <<t>> \in Seq(Tokens)
                        /\ Len(<<t>>) = 1 /\ <<t>>[1] = t /\ <<t>> # << >>
                        /\ \A j \in 1..1 : j = 1
  OBVIOUS
<1>2. << >> \in Seq(Tokens) /\ << >> \in Seq(Seq(Tokens) \ {<< >>}) /\ Len(<< >>) = 0
  OBVIOUS
<1>3. \A i \in 1..0 : FALSE
  OBVIOUS
<1>4. ASSUME NEW t \in Tokens
      PROVE  FileOk(File(<< >>, <<t>>))
  <2> DEFINE s == <<t>>
  <2>1. s \in Seq(Tokens) /\ Len(s) = 1 /\ s[1] = t
    BY <1>1
  <2>2. \A j \in 1..Len(s) : j = 1
    BY <1>1, <2>1
  <2> HIDE DEF s
  <2>3. File(<< >>, s).lines = << >> /\ File(<< >>, s).tail = s
    BY DEF File
  <2>4. FileOk(File(<< >>, s))
    BY <1>2, <1>3, <1>4, <2>1, <2>2, <2>3 DEF FileOk
  <2>5. QED BY <2>4 DEF s
<1>5. /\ \A c \in Configs : HeaderToken(c) \in Tokens /\ HeaderToken(c) # Torn
      /\ Torn \in Tokens
  BY TokenKinds DEF Tokens
<1>6. FileOk(EmptyFile) /\ EmptyFile.lines = << >> /\ EmptyFile.tail = << >>
  <2>1. EmptyFile = File(<< >>, << >>) /\ EmptyFile.lines = << >> /\ EmptyFile.tail = << >>
    BY DEF EmptyFile, File
  <2>2. QED BY <1>2, <1>3, <2>1 DEF FileOk
<1>7. ASSUME NEW file \in Beginnings
      PROVE  FileOk(file) /\ file.lines = << >> /\ LinesKept(EmptyFile, file)
  <2>1. FileOk(file) /\ file.lines = << >>
    <3>1. CASE file = EmptyFile
      BY <1>6, <3>1
    <3>2. CASE file = File(<< >>, <<Torn>>)
      <4>1. File(<< >>, <<Torn>>).lines = << >>
        BY DEF File
      <4>2. QED BY <1>4, <1>5, <3>2, <4>1
    <3>3. CASE \E c \in Configs : file = File(<< >>, <<HeaderToken(c)>>)
      <4>1. PICK c \in Configs : file = File(<< >>, <<HeaderToken(c)>>)
        BY <3>3
      <4>2. File(<< >>, <<HeaderToken(c)>>).lines = << >>
        BY DEF File
      <4>3. QED BY <1>4, <1>5, <4>1, <4>2
    <3>4. QED BY <3>1, <3>2, <3>3 DEF Beginnings
  <2>2. 0 \in Nat /\ 0 <= 0
    OBVIOUS
  <2>3. QED BY <1>2, <1>3, <1>6, <2>1, <2>2 DEF LinesKept
<1>8. ASSUME NEW c \in Configs
      PROVE  FileOk(HeaderFile(c)) /\ HeaderFile(c) # EmptyFile
             /\ LinesKept(EmptyFile, HeaderFile(c))
  <2> DEFINE H == HeaderToken(c)
             line == <<H>>
             all == <<line>>
             X == Seq(Tokens) \ {<< >>}
  <2>1. H \in Tokens
    BY <1>5
  <2> HIDE DEF H
  <2>2. line \in X /\ Len(line) = 1 /\ line[1] = H
    BY <1>1, <2>1
  <2> HIDE DEF line, X
  <2>3. all \in Seq(X) /\ Len(all) = 1 /\ all[1] = line /\ all # << >>
    BY <2>2
  <2> HIDE DEF all
  <2>4. HeaderFile(c) = File(all, << >>)
    BY DEF HeaderFile, all, line, H
  <2>5. File(all, << >>).lines = all /\ File(all, << >>).tail = << >>
    BY DEF File
  <2>6. \A j \in 1..1 : j = 1
    OBVIOUS
  <2>7. FileOk(File(all, << >>))
    BY <1>2, <1>3, <2>1, <2>2, <2>3, <2>5, <2>6 DEF FileOk, X
  <2>8. QED
    <3>1. 0 \in Nat /\ 1 \in Nat /\ 0 <= 1
      OBVIOUS
    <3>2. LinesKept(EmptyFile, File(all, << >>))
      BY <1>2, <1>3, <1>6, <2>3, <2>5, <3>1 DEF LinesKept
    <3>3. QED BY <1>6, <2>3, <2>4, <2>5, <2>7, <3>2
<1>9. QED BY <1>6, <1>7, <1>8

LEMMA FileAfter ==
  ASSUME NEW file, FileOk(file), NEW b \in Blocks, NEW c \in Configs,
         NEW new \in StoppedAfter(file, Record(b, c))
  PROVE  FileOk(new)
<1> DEFINE R == Record(b, c)
           X == Seq(Tokens) \ {<< >>}
           lines == file.lines
           tail == file.tail
<1>1. R \in Tokens /\ Torn \in Tokens /\ R.kind # "header" /\ Torn.kind # "header"
  BY TokenKinds DEF Tokens
<1>2. /\ file = File(lines, tail) /\ lines \in Seq(X) /\ tail \in Seq(Tokens)
      /\ \A i \in 1..Len(lines) : \A j \in 1..Len(lines[i]) :
           lines[i][j].kind = "header" => i = 1 /\ j = 1
      /\ \A j \in 1..Len(tail) : tail[j].kind = "header" => lines = << >> /\ j = 1
  BY DEF FileOk
<1> HIDE DEF R, X, lines, tail
<1>4. ASSUME NEW t \in {R, Torn}
      PROVE  /\ Append(tail, t) \in X /\ Append(tail, t) \in Seq(Tokens)
             /\ \A j \in 1..Len(Append(tail, t)) :
                  Append(tail, t)[j].kind = "header" => lines = << >> /\ j = 1
             /\ FileOk(File(lines, Append(tail, t)))
  <2> DEFINE line == Append(tail, t)
  <2>1. /\ line \in X /\ line \in Seq(Tokens)
        /\ tail # << >> => line[1] = tail[1]
        /\ \A j \in 1..Len(line) :
             \/ j \in 1..Len(tail) /\ line[j] = tail[j]
             \/ line[j] = t
    <3>1. t \in Tokens
      BY <1>1
    <3>2. /\ line \in Seq(Tokens) \ {<< >>}
          /\ tail # << >> => line[1] = tail[1]
          /\ \A j \in 1..Len(line) :
               \/ j \in 1..Len(tail) /\ line[j] = tail[j]
               \/ line[j] = t /\ (tail = << >> => j = 1)
      BY <1>2, <3>1, AppendedLine
    <3>3. QED BY <3>2 DEF X
  <2> HIDE DEF line
  <2>2. \A j \in 1..Len(line) : line[j].kind = "header" => lines = << >> /\ j = 1
    BY <1>1, <1>2, <2>1
  <2>3. File(lines, line).lines = lines /\ File(lines, line).tail = line
    BY DEF File
  <2>4. FileOk(File(lines, line))
    BY <1>2, <2>1, <2>2, <2>3 DEF FileOk, X
  <2>5. QED BY <2>1, <2>2, <2>4 DEF line
<1>5. FileOk(Finished(file, R))
  <2> DEFINE line == Append(tail, R)
             all == Append(lines, line)
  <2>1. /\ line \in X
        /\ \A j \in 1..Len(line) : line[j].kind = "header" => lines = << >> /\ j = 1
    BY <1>4
  <2> HIDE DEF line
  <2>2. /\ all \in Seq(X) /\ all # << >> /\ Len(all) = Len(lines) + 1
        /\ all[Len(lines) + 1] = line
        /\ \A i \in 1..Len(lines) : all[i] = lines[i]
        /\ \A i \in 1..(Len(lines) + 1) : i \in 1..Len(lines) \/ i = Len(lines) + 1
        /\ lines # << >> => all[1] = lines[1]
        /\ lines = << >> => all = <<line>>
    BY <1>2, <2>1, OneLonger
  <2>3. lines = << >> => Len(lines) = 0 /\ all[1] = line
    <3>1. Len(<< >>) = 0 /\ <<line>>[1] = line
      OBVIOUS
    <3>2. QED BY <2>2, <3>1
  <2> HIDE DEF all
  <2>4. Finished(file, R) = File(all, << >>)
    BY DEF Finished, all, line, lines, tail
  <2>5. File(all, << >>).lines = all /\ File(all, << >>).tail = << >>
    BY DEF File
  <2>6. << >> \in Seq(Tokens) /\ \A j \in 1..Len(<< >>) : FALSE
    OBVIOUS
  <2>7. ASSUME NEW i \in 1..Len(all), NEW j \in 1..Len(all[i]), all[i][j].kind = "header"
        PROVE  i = 1 /\ j = 1
    <3>1. CASE i \in 1..Len(lines)
      BY <1>2, <2>2, <2>7, <3>1
    <3>2. CASE i = Len(lines) + 1
      <4>1. j \in 1..Len(line) /\ line[j].kind = "header"
        BY <2>2, <2>7, <3>2
      <4>2. lines = << >> /\ j = 1
        BY <2>1, <4>1
      <4>3. QED BY <2>3, <3>2, <4>2
    <3>3. QED BY <2>2, <3>1, <3>2
  <2>8. QED BY <2>2, <2>4, <2>5, <2>6, <2>7 DEF FileOk, X
<1>6. new \in {file, File(lines, Append(tail, R)), File(lines, Append(tail, Torn)),
               Finished(file, R)}
  BY DEF StoppedAfter, R, lines, tail
<1>7. QED BY <1>4, <1>5, <1>6

-----------------------------------------------------------------------------
(* Whose records the file has                                                *)

IsRecord(line) == Decodes(line) /\ line[1].kind = "record"

BelongsTo(line, writers) == IsRecord(line) => line[1].by \in writers

FinishedBelongTo(file, writers) == \A i \in 1..Len(file.lines) : BelongsTo(file.lines[i], writers)

HeaderIs(file, c) == file.lines # << >> /\ file.lines[1] = <<HeaderToken(c)>>

\* A log that can be read at all and begins with a header has no other writer's records.
OwnFile(file) ==
  \A c \in Configs : (AllDecode(file) /\ HeaderIs(file, c)) =>
    FinishedBelongTo(file, {c}) /\ BelongsTo(file.tail, {c})

\* The file that a node of configuration c writes to.
OwnRun(file, c) ==
  /\ \A d \in Configs : (AllDecode(file) /\ HeaderIs(file, d)) => d = c
  /\ BeginsWithRecord(file) \/ (FinishedBelongTo(file, {c}) /\ BelongsTo(file.tail, {c}))

LEMMA AllDecodedBefore ==
  ASSUME NEW file, NEW new, LinesKept(file, new), AllDecode(new)
  PROVE  AllDecode(file)
<1>1. ASSUME NEW i \in 1..Len(file.lines)
      PROVE  Decodes(file.lines[i])
  <2>1. i \in 1..Len(new.lines)
    BY DEF LinesKept
  <2>2. QED BY <2>1 DEF LinesKept, AllDecode
<1>2. QED BY <1>1 DEF AllDecode

\* An append, finished or not, leaves the writer the owner of what can be read.
LEMMA OwnAfter ==
  ASSUME NEW file, FileOk(file), NEW b \in Blocks, NEW c \in Configs,
         OwnFile(file), OwnRun(file, c), NEW new \in StoppedAfter(file, Record(b, c))
  PROVE  OwnFile(new) /\ OwnRun(new, c)
<1> DEFINE R == Record(b, c)
           line == Append(file.tail, R)
           torn == Append(file.tail, Torn)
<1>1. /\ R \in Tokens /\ R.by = c /\ Torn \in Tokens
      /\ \A d : HeaderToken(d).kind = "header" /\ R.kind = "record"
  BY TokenKinds DEF Tokens
<1>2. /\ file.lines \in Seq(Seq(Tokens) \ {<< >>}) /\ file.tail \in Seq(Tokens)
      /\ file = File(file.lines, file.tail)
  BY DEF FileOk
<1>3. \A d : <<HeaderToken(d)>>[1] = HeaderToken(d) /\ Len(<<HeaderToken(d)>>) = 1
  OBVIOUS
<1>4. /\ LinesKept(file, new)
      /\ file.lines # << >> => new.lines # << >> /\ new.lines[1] = file.lines[1]
      /\ \/ new.lines = file.lines /\ new.tail = file.tail
         \/ new.lines = file.lines /\ new.tail = line
         \/ new.lines = file.lines /\ new.tail = torn
         \/ new = Finished(file, R) /\ new.lines = Append(file.lines, line) /\ new.tail = << >>
  BY <1>1, LinesAfter
<1>5. /\ line \in Seq(Tokens) \ {<< >>}
      /\ Decodes(line) => file.tail = << >>
      /\ file.tail = << >> => line[1] = R
      /\ file.tail # << >> => Len(line) > 1
      /\ ~Decodes(torn)
  BY <1>1, <1>2, AppendedLine
<1>6. BelongsTo(line, {c}) /\ BelongsTo(torn, {c})
  BY <1>1, <1>5 DEF BelongsTo, IsRecord
<1>7. BelongsTo(<< >>, {c})
  BY DEF BelongsTo, IsRecord, Decodes
<1>8. ~HeaderIs(file, c) => file.lines = << >> \/ file.lines[1] # <<HeaderToken(c)>>
  BY DEF HeaderIs
<1>9. ASSUME NEW d \in Configs, HeaderIs(new, d)
      PROVE  HeaderIs(file, d)
  <2>1. file.lines # << >>
    <3> SUFFICES ASSUME file.lines = << >>
                 PROVE  FALSE
      OBVIOUS
    <3>1. new.lines # << >>
      BY <1>9 DEF HeaderIs
    <3>2. new.lines = Append(<< >>, line)
      BY <1>4, <3>1
    <3>3. new.lines[1] = line
      <4>1. \A x : <<x>>[1] = x
        OBVIOUS
      <4>2. QED BY <3>2, <4>1, Singletons
    <3>4. line = <<HeaderToken(d)>>
      BY <1>9, <3>3 DEF HeaderIs
    <3>5. CASE file.tail # << >>
      <4>1. Len(line) > 1 /\ ~(1 > 1)
        BY <1>5, <3>5
      <4>2. QED BY <1>3, <3>4, <4>1
    <3>6. CASE file.tail = << >>
      <4>1. line[1].kind = "record"
        BY <1>1, <1>5, <3>6
      <4>2. QED BY <1>1, <1>3, <3>4, <4>1
    <3>7. QED BY <3>5, <3>6
  <2>2. QED BY <1>4, <1>9, <2>1 DEF HeaderIs
<1>10. AllDecode(new) => AllDecode(file)
  BY <1>4, AllDecodedBefore
<1>11. \A d \in Configs : (AllDecode(new) /\ HeaderIs(new, d)) => d = c
  BY <1>9, <1>10 DEF OwnRun
<1> DEFINE n == Len(file.lines)
<1>12. n \in Nat /\ \A i \in 1..n : new.lines[i] = file.lines[i] /\ i \in 1..Len(new.lines)
  BY <1>4 DEF LinesKept
<1>13. \A i \in 1..Len(new.lines) : i \in 1..n \/ new.lines[i] = line
  <2>1. CASE new.lines = file.lines
    BY <2>1
  <2>2. CASE new.lines = Append(file.lines, line)
    <3> HIDE DEF line
    <3>1. /\ Len(Append(file.lines, line)) = n + 1
          /\ Append(file.lines, line)[n + 1] = line
          /\ \A i \in 1..(n + 1) : i \in 1..n \/ i = n + 1
      BY <1>2, <1>5, OneLonger
    <3>2. QED BY <2>2, <3>1
  <2>3. QED BY <1>4, <2>1, <2>2
<1> HIDE DEF n, line, torn, R
<1>14. ASSUME NEW W, c \in W, FinishedBelongTo(file, W), BelongsTo(file.tail, W)
       PROVE  FinishedBelongTo(new, W) /\ BelongsTo(new.tail, W)
  <2>1. BelongsTo(line, W) /\ BelongsTo(torn, W) /\ BelongsTo(<< >>, W)
    BY <1>6, <1>7, <1>14 DEF BelongsTo
  <2>2. BelongsTo(new.tail, W)
    BY <1>4, <1>14, <2>1
  <2>3. ASSUME NEW i \in 1..Len(new.lines)
        PROVE  BelongsTo(new.lines[i], W)
    BY <1>12, <1>13, <1>14, <2>1 DEF FinishedBelongTo, n
  <2>4. QED BY <2>2, <2>3 DEF FinishedBelongTo
<1>15. OwnFile(new)
  <2> SUFFICES ASSUME NEW d \in Configs, AllDecode(new), HeaderIs(new, d)
               PROVE  FinishedBelongTo(new, {d}) /\ BelongsTo(new.tail, {d})
    BY DEF OwnFile
  <2>1. d = c /\ FinishedBelongTo(file, {d}) /\ BelongsTo(file.tail, {d})
    BY <1>9, <1>10, <1>11 DEF OwnFile
  <2>2. QED BY <1>14, <2>1
<1>16. CASE BeginsWithRecord(file) /\ (file.lines # << >> \/ new.tail = file.tail)
  <2>1. BeginsWithRecord(new) \/ (file.lines = << >> /\ new.lines # << >>)
    BY <1>4, <1>16 DEF BeginsWithRecord
  <2>2. CASE BeginsWithRecord(new)
    BY <1>11, <1>15, <2>2 DEF OwnRun
  <2>3. CASE file.lines = << >> /\ new.lines # << >>
    <3>1. new.tail = << >>
      BY <1>4, <2>3
    <3>2. QED BY <1>16, <2>3, <3>1 DEF BeginsWithRecord, Decodes
  <2>4. QED BY <2>1, <2>2, <2>3
<1>17. CASE file.lines = << >> /\ new.tail # file.tail
  <2>1. BelongsTo(new.tail, {c})
    BY <1>4, <1>6, <1>7, <1>17
  <2>2. \A i \in 1..Len(new.lines) : BelongsTo(new.lines[i], {c})
    <3>1. \A i \in 1..Len(<< >>) : FALSE
      OBVIOUS
    <3>2. QED BY <1>6, <1>13, <1>17, <3>1 DEF n
  <2>3. QED BY <1>11, <1>15, <2>1, <2>2 DEF FinishedBelongTo, OwnRun
<1>18. CASE ~BeginsWithRecord(file)
  <2>1. FinishedBelongTo(file, {c}) /\ BelongsTo(file.tail, {c})
    BY <1>18 DEF OwnRun
  <2>2. FinishedBelongTo(new, {c}) /\ BelongsTo(new.tail, {c})
    BY <1>14, <2>1
  <2>3. QED BY <1>11, <1>15, <2>2 DEF OwnRun
<1>19. QED BY <1>16, <1>17, <1>18

LEMMA OwnBeginnings ==
  /\ \A file \in Beginnings : OwnFile(file) /\ \A c \in Configs : OwnRun(file, c)
  /\ \A c \in Configs : OwnFile(HeaderFile(c)) /\ OwnRun(HeaderFile(c), c)
<1>1. \A t : <<t>>[1] = t /\ Len(<<t>>) = 1
  OBVIOUS
<1>2. /\ \A c : HeaderToken(c).kind = "header" /\ HeaderToken(c).fingerprint = c
      /\ Torn.kind = "torn"
  BY TokenKinds
<1>3. \A W : BelongsTo(<< >>, W) /\ BelongsTo(<<Torn>>, W)
             /\ \A c : BelongsTo(<<HeaderToken(c)>>, W)
  <2>1. ~Decodes(<< >>)
    BY DEF Decodes
  <2>2. <<Torn>>[1].kind = "torn" /\ \A c : <<HeaderToken(c)>>[1].kind = "header"
    BY <1>1, <1>2
  <2>3. QED BY <2>1, <2>2 DEF BelongsTo, IsRecord
<1>4. ASSUME NEW file \in Beginnings
      PROVE  OwnFile(file) /\ \A c \in Configs : OwnRun(file, c)
  <2>1. file.lines = << >>
    BY BeginningsOk
  <2>2. \A W : BelongsTo(file.tail, W)
    <3>1. CASE file = EmptyFile
      BY <1>3, <3>1, BeginningsOk
    <3>2. CASE file = File(<< >>, <<Torn>>)
      <4>1. File(<< >>, <<Torn>>).tail = <<Torn>>
        BY DEF File
      <4>2. QED BY <1>3, <3>2, <4>1
    <3>3. CASE \E c \in Configs : file = File(<< >>, <<HeaderToken(c)>>)
      <4>1. PICK c \in Configs : file = File(<< >>, <<HeaderToken(c)>>)
        BY <3>3
      <4>2. File(<< >>, <<HeaderToken(c)>>).tail = <<HeaderToken(c)>>
        BY DEF File
      <4>3. QED BY <1>3, <4>1, <4>2
    <3>4. QED BY <3>1, <3>2, <3>3 DEF Beginnings
  <2>3. \A W : FinishedBelongTo(file, W)
    <3>1. \A i \in 1..Len(<< >>) : FALSE
      OBVIOUS
    <3>2. QED BY <2>1, <3>1 DEF FinishedBelongTo
  <2>4. \A c : ~HeaderIs(file, c)
    BY <2>1 DEF HeaderIs
  <2>5. QED BY <2>2, <2>3, <2>4 DEF OwnFile, OwnRun
<1>5. ASSUME NEW c \in Configs
      PROVE  OwnFile(HeaderFile(c)) /\ OwnRun(HeaderFile(c), c)
  <2> DEFINE line == <<HeaderToken(c)>>
             all == <<line>>
             file == HeaderFile(c)
  <2>1. file.lines = all /\ file.tail = << >>
    BY DEF HeaderFile, File
  <2> HIDE DEF file
  <2>2. all[1] = line /\ Len(all) = 1 /\ \A i \in 1..1 : i = 1
    OBVIOUS
  <2>3. line[1] = HeaderToken(c) /\ \A W : BelongsTo(line, W)
    BY <1>1, <1>3
  <2> HIDE DEF line, all
  <2>4. \A W : FinishedBelongTo(file, W) /\ BelongsTo(file.tail, W)
    BY <1>3, <2>1, <2>2, <2>3 DEF FinishedBelongTo
  <2>5. ASSUME NEW d, HeaderIs(file, d)
        PROVE  d = c
    <3>1. line = <<HeaderToken(d)>>
      BY <2>1, <2>2, <2>5 DEF HeaderIs
    <3>2. HeaderToken(c) = HeaderToken(d)
      BY <1>1, <2>3, <3>1
    <3>3. QED BY <1>2, <3>2
  <2>6. QED BY <2>4, <2>5 DEF OwnFile, OwnRun, file
<1>6. QED BY <1>4, <1>5

\* A start that succeeds owns the log, or finds no header that says whose it is.
LEMMA OwnStart ==
  ASSUME NEW file, FileOk(file), OwnFile(file), NEW c \in Configs, LoadOk(file, c)
  PROVE  OwnRun(file, c)
<1> DEFINE fc == Load(file, c).fork_choice
<1>1. /\ AllDecode(file)
      /\ \A i \in 1..Len(file.lines) : Taken(file.lines[i], c, fc)
  BY FileLoaded
<1>2. file.lines \in Seq(Seq(Tokens) \ {<< >>}) /\ file.tail \in Seq(Tokens)
  BY DEF FileOk
<1> HIDE DEF fc
<1>3. file.lines # << >> => 1 \in 1..Len(file.lines) /\ file.lines[1] \in Seq(Tokens)
  <2>1. \A s \in Seq(Seq(Tokens) \ {<< >>}) :
          s # << >> => 1 \in 1..Len(s) /\ s[1] \in Seq(Tokens) \ {<< >>}
    OBVIOUS
  <2>2. QED BY <1>2, <2>1
<1>4. \A t : <<t>>[1] = t
  OBVIOUS
<1>5. ASSUME NEW d \in Configs, HeaderIs(file, d)
      PROVE  d = c
  <2>1. file.lines[1][1] = HeaderToken(d) /\ Taken(file.lines[1], c, fc)
    BY <1>1, <1>3, <1>4, <1>5 DEF HeaderIs
  <2>2. QED BY <2>1, TokenKinds DEF Taken
<1>6. CASE file.lines = << >>
  <2>1. FinishedBelongTo(file, {c})
    <3>1. \A i \in 1..Len(<< >>) : FALSE
      OBVIOUS
    <3>2. QED BY <1>6, <3>1 DEF FinishedBelongTo
  <2>2. BeginsWithRecord(file) \/ BelongsTo(file.tail, {c})
    BY <1>6 DEF BelongsTo, IsRecord, BeginsWithRecord
  <2>3. QED BY <1>5, <2>1, <2>2 DEF OwnRun
<1>7. CASE file.lines # << >>
  <2> DEFINE line == file.lines[1]
             t == line[1]
  <2>1. Decodes(line) /\ line \in Seq(Tokens) /\ Taken(line, c, fc)
    BY <1>1, <1>3, <1>7 DEF AllDecode
  <2>2. Len(line) = 1 /\ t # Torn
    BY <2>1 DEF Decodes
  <2>3. t \in Tokens /\ line = <<t>>
    BY <2>1, <2>2
  <2> HIDE DEF t
  <2>4. t.kind = "header" \/ t.kind = "record"
    BY <2>2, <2>3, TokenKinds
  <2>5. CASE t.kind = "record"
    <3>1. BeginsWithRecord(file)
      BY <1>7, <2>1, <2>5 DEF BeginsWithRecord, t
    <3>2. QED BY <1>5, <3>1 DEF OwnRun
  <2>6. CASE t.kind = "header"
    <3>1. t.fingerprint \in Configs /\ t = HeaderToken(t.fingerprint)
      BY <2>3, <2>6, TokenKinds
    <3>2. HeaderIs(file, t.fingerprint)
      BY <1>7, <2>3, <3>1 DEF HeaderIs
    <3>3. t.fingerprint = c
      BY <1>5, <3>1, <3>2
    <3>4. FinishedBelongTo(file, {c}) /\ BelongsTo(file.tail, {c})
      BY <1>1, <3>1, <3>2, <3>3 DEF OwnFile
    <3>5. QED BY <1>5, <3>4 DEF OwnRun
  <2>7. QED BY <2>4, <2>5, <2>6
<1>8. QED BY <1>6, <1>7

-----------------------------------------------------------------------------
(* What an acknowledgement promises                                          *)

\* The block has a finished record, or the log cannot be read at all.
Kept(file, hash) ==
  \E i \in 1..Len(file.lines) :
    \/ ~Decodes(file.lines[i])
    \/ IsRecord(file.lines[i]) /\ file.lines[i][1].block.hash = hash

LEMMA KeptAfter ==
  ASSUME NEW file, NEW new, LinesKept(file, new), NEW hash, Kept(file, hash)
  PROVE  Kept(new, hash)
<1>1. PICK i \in 1..Len(file.lines) :
        \/ ~Decodes(file.lines[i])
        \/ IsRecord(file.lines[i]) /\ file.lines[i][1].block.hash = hash
  BY DEF Kept
<1>2. i \in 1..Len(new.lines) /\ new.lines[i] = file.lines[i]
  BY DEF LinesKept
<1>3. QED BY <1>1, <1>2 DEF Kept

LEMMA KeptWhenFinished ==
  ASSUME NEW file, FileOk(file), NEW b \in Blocks, NEW c \in Configs
  PROVE  Kept(Finished(file, Record(b, c)), b.hash)
<1> DEFINE R == Record(b, c)
           line == Append(file.tail, R)
           X == Seq(Tokens) \ {<< >>}
           new == Finished(file, R)
<1>1. R \in Tokens /\ R.kind = "record" /\ R.block = b
  BY TokenKinds DEF Tokens
<1>2. file.lines \in Seq(X) /\ file.tail \in Seq(Tokens)
  BY DEF FileOk
<1> HIDE DEF R
<1>3. line \in X /\ (Decodes(line) => line[1] = R)
  BY <1>1, <1>2, AppendedLine
<1>4. new.lines = Append(file.lines, line)
  BY DEF Finished, File
<1> HIDE DEF line, X, new
<1>5. /\ Len(new.lines) = Len(file.lines) + 1 /\ new.lines[Len(file.lines) + 1] = line
      /\ Len(file.lines) \in Nat
  BY <1>2, <1>3, <1>4, OneLonger
<1>6. Len(file.lines) + 1 \in 1..Len(new.lines)
  BY <1>5
<1>7. ~Decodes(line) \/ (IsRecord(line) /\ line[1].block.hash = b.hash)
  BY <1>1, <1>3 DEF IsRecord
<1>8. QED BY <1>5, <1>6, <1>7 DEF Kept, new, R

LEMMA KeptLoaded ==
  ASSUME NEW file, FileOk(file), NEW c, LoadOk(file, c), NEW hash, Kept(file, hash)
  PROVE  hash \in Known(Load(file, c).fork_choice)
<1>1. /\ AllDecode(file)
      /\ \A i \in 1..Len(file.lines) : Taken(file.lines[i], c, Load(file, c).fork_choice)
  BY FileLoaded
<1>2. PICK i \in 1..Len(file.lines) :
        \/ ~Decodes(file.lines[i])
        \/ IsRecord(file.lines[i]) /\ file.lines[i][1].block.hash = hash
  BY DEF Kept
<1>3. QED BY <1>1, <1>2 DEF AllDecode, Taken, IsRecord

-----------------------------------------------------------------------------
(* What a replay gives                                                       *)

\* The configuration c reads the log, and reads it as fc.
Replays(file, c, fc) == LoadOk(file, c) /\ Load(file, c).fork_choice = fc

LEMMA NothingRead == \A c : ReadLines(<< >>, c) = ReadNothing
BY Reads!FoldEmpty DEF ReadLines

LEMMA OneMoreLineRead ==
  ASSUME NEW lines \in Seq(Seq(Tokens)), NEW line \in Seq(Tokens), NEW c
  PROVE  ReadLines(Append(lines, line), c) = ReadLine(ReadLines(lines, c), line, c, FALSE)
<1> DEFINE X == Seq(Tokens)
<1> HIDE DEF X
<1>1. Reads!Fold(c, ReadNothing, Append(lines, line))
        = ReadStep(c, Reads!Fold(c, ReadNothing, lines), line)
  <2>1. lines \in Seq(X) /\ line \in X
    BY DEF X
  <2>2. QED BY <2>1, Reads!FoldAppend
<1>2. QED BY <1>1 DEF ReadLines, ReadStep

\* A log without blocks reads as an empty fork choice under the configuration that
\* began it.
LEMMA BeginningsReplay ==
  ASSUME NEW c \in Configs
  PROVE  /\ Replays(EmptyFile, c, EmptyForkChoice)
         /\ Replays(File(<< >>, <<HeaderToken(c)>>), c, EmptyForkChoice)
         /\ Replays(File(<< >>, <<Torn>>), c, EmptyForkChoice)
         /\ Replays(HeaderFile(c), c, EmptyForkChoice)
<1> DEFINE H == HeaderToken(c)
<1>1. \A t : <<t>>[1] = t /\ Len(<<t>>) = 1 /\ <<t>> # << >>
  OBVIOUS
<1>2. H \in Tokens /\ H # Torn /\ H.kind = "header" /\ H.fingerprint = c /\ Torn \in Tokens
  BY TokenKinds DEF Tokens
<1>3. /\ ReadNothing.result = "Reading" /\ ReadNothing.fork_choice = EmptyForkChoice
      /\ ~ReadNothing.seen_header /\ ~ReadNothing.seen_block
  BY DEF ReadNothing
<1> HIDE DEF H
<1>4. \A unfinished :
        LET new == ReadLine(ReadNothing, <<H>>, c, unfinished)
        IN  new = [ReadNothing EXCEPT !.seen_header = TRUE]
  BY <1>1, <1>2, <1>3 DEF ReadLine, Decodes, ReadHeader
<1> DEFINE hasHeader == [ReadNothing EXCEPT !.seen_header = TRUE]
<1>5. hasHeader.result = "Reading" /\ hasHeader.fork_choice = EmptyForkChoice
  BY DEF ReadNothing
<1> HIDE DEF hasHeader
<1>6. \A reader : ReadLine(reader, << >>, c, TRUE) = reader
  BY DEF ReadLine
<1>7. ASSUME NEW file, FileOk(file), Load(file, c).result # "Fatal",
             Load(file, c).fork_choice = EmptyForkChoice
      PROVE  Replays(file, c, EmptyForkChoice)
  BY <1>7, FileLoaded DEF Replays
<1>8. Replays(EmptyFile, c, EmptyForkChoice)
  <2>1. Load(EmptyFile, c) = ReadNothing
    <3>1. Load(EmptyFile, c) = ReadLine(ReadLines(<< >>, c), << >>, c, TRUE)
      BY LoadIsFold, BeginningsOk
    <3>2. QED BY <1>6, <3>1, NothingRead
  <2>2. FileOk(EmptyFile)
    BY BeginningsOk DEF Beginnings
  <2>3. QED BY <1>3, <1>7, <2>1, <2>2
<1>9. Replays(File(<< >>, <<H>>), c, EmptyForkChoice)
  <2>1. File(<< >>, <<H>>).lines = << >> /\ File(<< >>, <<H>>).tail = <<H>>
    BY DEF File
  <2>2. Load(File(<< >>, <<H>>), c) = hasHeader
    <3>1. Load(File(<< >>, <<H>>), c) = ReadLine(ReadLines(<< >>, c), <<H>>, c, TRUE)
      BY <2>1, LoadIsFold
    <3>2. QED BY <1>4, <3>1, NothingRead DEF hasHeader
  <2>3. FileOk(File(<< >>, <<H>>))
    BY BeginningsOk DEF Beginnings, H
  <2>4. QED BY <1>5, <1>7, <2>2, <2>3
<1>10. Replays(File(<< >>, <<Torn>>), c, EmptyForkChoice)
  <2>1. File(<< >>, <<Torn>>).lines = << >> /\ File(<< >>, <<Torn>>).tail = <<Torn>>
    BY DEF File
  <2>2. Load(File(<< >>, <<Torn>>), c) = [ReadNothing EXCEPT !.result = "EndOfLog"]
    <3>1. Load(File(<< >>, <<Torn>>), c) = ReadLine(ReadLines(<< >>, c), <<Torn>>, c, TRUE)
      BY <2>1, LoadIsFold
    <3>2. ~Decodes(<<Torn>>)
      BY <1>1 DEF Decodes
    <3>3. QED BY <1>1, <1>3, <3>1, <3>2, NothingRead DEF ReadLine
  <2>3. FileOk(File(<< >>, <<Torn>>))
    BY BeginningsOk DEF Beginnings
  <2>4. [ReadNothing EXCEPT !.result = "EndOfLog"].result = "EndOfLog"
        /\ [ReadNothing EXCEPT !.result = "EndOfLog"].fork_choice = EmptyForkChoice
    BY DEF ReadNothing
  <2>5. QED BY <1>7, <2>2, <2>3, <2>4
<1>11. Replays(HeaderFile(c), c, EmptyForkChoice)
  <2> DEFINE line == <<H>>
  <2>1. HeaderFile(c).lines = <<line>> /\ HeaderFile(c).tail = << >>
    BY DEF HeaderFile, File, H
  <2>2. line \in Seq(Tokens)
    BY <1>2
  <2>3. ReadLine(ReadNothing, line, c, FALSE) = hasHeader
    BY <1>4 DEF hasHeader
  <2> HIDE DEF line
  <2>4. << >> \in Seq(Seq(Tokens))
    OBVIOUS
  <2>5. ReadLines(Append(<< >>, line), c) = hasHeader
    BY <2>2, <2>3, <2>4, OneMoreLineRead, NothingRead
  <2>6. Load(HeaderFile(c), c) = hasHeader
    BY <1>6, <2>1, <2>5, LoadIsFold, Singletons
  <2>7. FileOk(HeaderFile(c))
    BY BeginningsOk
  <2>8. QED BY <1>5, <1>7, <2>6, <2>7
<1>12. QED BY <1>8, <1>9, <1>10, <1>11 DEF H

\* The reader that has taken a block.
WithBlock(reader, b) == [reader EXCEPT !.fork_choice = InsertBlock(@, b), !.seen_block = TRUE]

\* A record of a block that attaches is read into the fork choice.
LEMMA RecordRead ==
  ASSUME NEW reader, reader.result = "Reading", NEW b \in Blocks, NEW w,
         InsertResult(reader.fork_choice, b) = "Ok", NEW c, NEW unfinished
  PROVE  ReadLine(reader, <<Record(b, w)>>, c, unfinished) = WithBlock(reader, b)
<1> DEFINE R == Record(b, w)
<1>1. R.kind = "record" /\ R.block = b /\ R # Torn
  BY TokenKinds DEF Torn, Record
<1> HIDE DEF R
<1>2. <<R>>[1] = R /\ Len(<<R>>) = 1 /\ <<R>> # << >>
  OBVIOUS
<1>3. ReadLine(reader, <<R>>, c, unfinished) = ReadRecord(reader, b)
  BY <1>1, <1>2 DEF ReadLine, Decodes
<1>4. QED BY <1>3 DEF ReadRecord, WithBlock, R

\* A log that replays, then appended to without stopping or stopped anywhere: if all its
\* finished lines decode, it replays again, and if the append is finished, with the block.
LEMMA ReplayAfter ==
  ASSUME NEW file, FileOk(file), NEW c \in Configs, NEW fc, Replays(file, c, fc),
         NEW b \in Blocks, Attaches(fc, b), NEW w \in Configs,
         NEW new \in StoppedAfter(file, Record(b, w)), AllDecode(new)
  PROVE  /\ LoadOk(new, c)
         /\ new = Finished(file, Record(b, w)) => Replays(new, c, InsertBlock(fc, b))
<1> DEFINE R == Record(b, w)
           before == ReadLines(file.lines, c)
<1>1. /\ R \in Tokens /\ Torn \in Tokens
  BY TokenKinds DEF Tokens
<1>2. /\ file.lines \in Seq(Seq(Tokens)) /\ file.tail \in Seq(Tokens)
      /\ file.lines \in Seq(Seq(Tokens) \ {<< >>})
  BY FileType DEF FileOk
<1>3. Load(file, c).result # "Fatal" /\ Load(file, c).fork_choice = fc /\ before.result = "Reading"
  BY FileLoaded DEF Replays
<1>4. Load(file, c) = ReadLine(before, file.tail, c, TRUE)
  BY LoadIsFold
<1>5. InsertResult(fc, b) = "Ok"
  BY DEF Attaches
<1>6. ReaderOk(before)
  BY <1>2, LinesRead
<1>7. FileOk(new)
  BY FileAfter
<1>8. LoadOk(new, c) <=> Load(new, c).result # "Fatal"
  BY <1>7, FileLoaded
<1> HIDE DEF R, before
<1>9. file.tail = << >> => before.fork_choice = fc
  BY <1>3, <1>4 DEF ReadLine
<1>10. ASSUME file.tail = << >>, NEW unfinished
       PROVE  /\ ReadLine(before, <<R>>, c, unfinished).result = "Reading"
              /\ ReadLine(before, <<R>>, c, unfinished).fork_choice = InsertBlock(fc, b)
  <2>1. ReadLine(before, <<R>>, c, unfinished) = WithBlock(before, b)
    <3>1. before.result = "Reading" /\ InsertResult(before.fork_choice, b) = "Ok"
      BY <1>3, <1>5, <1>9, <1>10
    <3>2. QED BY <3>1, RecordRead DEF R
  <2>2. before = [result |-> before.result, fork_choice |-> before.fork_choice,
                  seen_header |-> before.seen_header, seen_block |-> before.seen_block]
    BY <1>6 DEF ReaderOk
  <2> DEFINE fc2 == InsertBlock(fc, b)
  <2>3. ReadLine(before, <<R>>, c, unfinished)
          = [before EXCEPT !.fork_choice = fc2, !.seen_block = TRUE]
    BY <1>9, <1>10, <2>1 DEF WithBlock
  <2> HIDE DEF fc2
  <2>4. QED BY <1>3, <2>2, <2>3 DEF fc2
<1>11. CASE new = Finished(file, R)
  <2> DEFINE line == Append(file.tail, R)
  <2>1. /\ line \in Seq(Tokens) \ {<< >>}
        /\ Decodes(line) => file.tail = << >>
        /\ file.tail = << >> => line = <<R>>
    BY <1>1, <1>2, AppendedLine
  <2>2. new.lines = Append(file.lines, line) /\ new.tail = << >>
    BY <1>11 DEF Finished, File
  <2> HIDE DEF line
  <2>3. /\ Len(new.lines) = Len(file.lines) + 1 /\ new.lines[Len(file.lines) + 1] = line
        /\ Len(file.lines) \in Nat
    BY <1>2, <2>1, <2>2, OneLonger
  <2>4. Len(file.lines) + 1 \in 1..Len(new.lines)
    BY <2>3
  <2>5. Decodes(line)
    BY <2>3, <2>4 DEF AllDecode
  <2>6. line = <<R>> /\ file.tail = << >> /\ line \in Seq(Tokens)
    BY <2>1, <2>5
  <2>7. ReadLines(new.lines, c) = ReadLine(before, line, c, FALSE)
    <3>1. ReadLines(Append(file.lines, line), c)
            = ReadLine(ReadLines(file.lines, c), line, c, FALSE)
      BY <1>2, <2>6, OneMoreLineRead
    <3>2. QED BY <2>2, <3>1 DEF before
  <2>8. Load(new, c) = ReadLines(new.lines, c)
    BY <2>2, LoadIsFold DEF ReadLine
  <2>9. Load(new, c).result = "Reading" /\ Load(new, c).fork_choice = InsertBlock(fc, b)
    BY <1>10, <2>6, <2>7, <2>8
  <2>10. QED BY <1>8, <2>9 DEF Replays
<1>12. CASE new # Finished(file, R)
  <2>1. /\ new.lines = file.lines
        /\ \/ new.tail = file.tail
           \/ \E t \in {R, Torn} : new.tail = Append(file.tail, t)
    <3>1. \/ new = file
          \/ new = File(file.lines, Append(file.tail, R))
          \/ new = File(file.lines, Append(file.tail, Torn))
      BY <1>12 DEF StoppedAfter, R
    <3>2. QED BY <3>1 DEF File
  <2>2. Load(new, c) = ReadLine(before, new.tail, c, TRUE)
    BY <2>1, LoadIsFold DEF before
  <2>3. CASE new.tail = file.tail
    BY <1>3, <1>4, <1>8, <1>12, <2>2, <2>3 DEF R
  <2>4. ASSUME NEW t \in {R, Torn}, new.tail = Append(file.tail, t)
        PROVE  Load(new, c).result # "Fatal"
    <3>0. t \in Tokens
      BY <1>1
    <3>1. /\ new.tail \in Seq(Tokens) \ {<< >>}
          /\ Decodes(new.tail) => file.tail = << >> /\ t # Torn
          /\ file.tail = << >> => new.tail = <<t>>
      <4> DEFINE line == Append(file.tail, t)
      <4>1. /\ line \in Seq(Tokens) \ {<< >>}
            /\ Decodes(line) => file.tail = << >> /\ t # Torn
            /\ file.tail = << >> => line = <<t>>
        BY <1>2, <3>0, AppendedLine
      <4>2. QED BY <2>4, <4>1
    <3>2. CASE Decodes(new.tail)
      <4>1. new.tail = <<R>> /\ file.tail = << >>
        BY <3>1, <3>2
      <4>2. Load(new, c).result = "Reading"
        BY <1>10, <2>2, <4>1
      <4>3. QED BY <4>2
    <3>3. CASE ~Decodes(new.tail)
      <4>1. ReadTo(before, new.tail, c, TRUE, Load(new, c))
        BY <1>6, <2>2, <3>1, LineRead
      <4>2. Load(new, c).result = "EndOfLog"
        BY <1>3, <3>1, <3>3, <4>1 DEF ReadTo
      <4>3. QED BY <4>2
    <3>4. QED BY <3>2, <3>3
  <2>5. QED BY <1>8, <1>12, <2>1, <2>3, <2>4 DEF R
<1>13. QED BY <1>11, <1>12 DEF R

-----------------------------------------------------------------------------
(* The inductive invariant                                                   *)

LoggedHashes == {b.hash : b \in Blocks}

LogTypes ==
  /\ FileOk(log)
  /\ phase \in {"Down", "Up", "Refused"}
  /\ running \in Configs
  /\ ForkChoiceInv(fork_choice)
  /\ chain = BestChain(fork_choice)
  /\ acknowledged \subseteq LoggedHashes
  /\ failed_appends \in 0..MaxFailedAppends
  /\ torn_crashes \in 0..MaxTornCrashes
  /\ clean_stops \in 0..MaxCleanStops

Ownership ==
  /\ OwnFile(log)
  /\ phase = "Up" => OwnRun(log, running)

Ledger ==
  /\ \A h \in acknowledged : Kept(log, h)
  /\ phase = "Up" => acknowledged \subseteq Known(fork_choice)

Replayable ==
  (AllDecode(log) /\ failed_appends = 0) =>
    /\ \E c \in Configs : LoadOk(log, c)
    /\ phase = "Up" => Replays(log, running, fork_choice)

LogInv == LogTypes /\ Ownership /\ Ledger /\ Replayable

LEMMA BoundFacts == MaxFailedAppends \in Nat /\ MaxTornCrashes \in Nat /\ MaxCleanStops \in Nat
BY LogAssumption

\* What an older node left.
LEMMA InheritedOk ==
  ASSUME NEW file \in InheritedLogs
  PROVE  /\ FileOk(file) /\ OwnFile(file)
         /\ \A c \in Configs : AllDecode(file) => LoadOk(file, c)
<1>1. /\ file \in [lines : Seq(Seq(OldTokens) \ {<< >>}), tail : Seq(OldTokens)]
      /\ \A c \in Configs :
           (\A i \in 1..Len(file.lines) : Decodes(file.lines[i])) => LoadOk(file, c)
  BY LogAssumption
<1>2. \A c \in Configs : AllDecode(file) => LoadOk(file, c)
  BY <1>1 DEF AllDecode
<1>3. \A t \in OldTokens : t \in Tokens /\ t.kind # "header"
  BY TokenKinds DEF OldTokens, Tokens
<1>4. /\ file = [lines |-> file.lines, tail |-> file.tail]
      /\ file.lines \in Seq(Seq(OldTokens) \ {<< >>}) /\ file.tail \in Seq(OldTokens)
  BY <1>1
<1>5. \A s \in Seq(OldTokens) : s \in Seq(Tokens) /\ \A i \in 1..Len(s) : s[i] \in OldTokens
  BY <1>3
<1> DEFINE X == Seq(OldTokens) \ {<< >>}
           Y == Seq(Tokens) \ {<< >>}
<1>6. \A s \in X : s \in Y
  BY <1>5
<1>7. /\ \A i \in 1..Len(file.lines) : file.lines[i] \in X
      /\ file.lines \in Seq(Y)
      /\ file.lines # << >> => 1 \in 1..Len(file.lines)
  <2> HIDE DEF X, Y
  <2>1. file.lines \in Seq(X)
    BY <1>4 DEF X
  <2>2. QED BY <1>6, <2>1
<1>8. \A s \in X : 1 \in 1..Len(s)
  OBVIOUS
<1>9. \A i \in 1..Len(file.lines) : \A j \in 1..Len(file.lines[i]) :
        file.lines[i][j].kind # "header"
  BY <1>3, <1>5, <1>7
<1>10. \A j \in 1..Len(file.tail) : file.tail[j].kind # "header"
  BY <1>3, <1>4, <1>5
<1>11. FileOk(file)
  BY <1>4, <1>5, <1>7, <1>9, <1>10 DEF FileOk, File
<1>12. ASSUME NEW c \in Configs
       PROVE  ~HeaderIs(file, c)
  <2>1. ASSUME file.lines # << >>
        PROVE  file.lines[1][1].kind # "header"
    BY <1>7, <1>8, <1>9, <2>1
  <2>2. <<HeaderToken(c)>>[1] = HeaderToken(c) /\ HeaderToken(c).kind = "header"
    BY TokenKinds
  <2>3. QED BY <2>1, <2>2 DEF HeaderIs
<1>13. QED BY <1>2, <1>11, <1>12 DEF OwnFile

LEMMA InitLog == Init => LogInv
<1> SUFFICES ASSUME Init PROVE LogInv
  OBVIOUS
<1>1. FileOk(log) /\ OwnFile(log) /\ \A c \in Configs : AllDecode(log) => LoadOk(log, c)
  BY InheritedOk DEF Init
<1>2. ForkChoiceInv(fork_choice) /\ chain = BestChain(fork_choice)
  <2>1. Known(EmptyForkChoice) = {}
    BY DEF Known, EmptyForkChoice
  <2>2. QED BY <2>1, EmptyInv, BestChainReplays DEF Init
<1>3. QED BY <1>1, <1>2, BoundFacts DEF Init, LogInv, LogTypes, Ownership, Ledger, Replayable

LEMMA LinesKeptOn ==
  ASSUME NEW x, NEW y, NEW z, LinesKept(x, y), LinesKept(y, z)
  PROVE  LinesKept(x, z)
<1>1. ASSUME NEW i \in 1..Len(x.lines)
      PROVE  z.lines[i] = x.lines[i]
  <2>1. i \in 1..Len(y.lines)
    BY DEF LinesKept
  <2>2. QED BY <2>1 DEF LinesKept
<1>2. QED BY <1>1 DEF LinesKept

\* What the running node leaves of its log, however its append went.
StillGood(new) ==
  /\ FileOk(new) /\ OwnFile(new) /\ OwnRun(new, running)
  /\ LinesKept(log, new)
  /\ (AllDecode(new) /\ failed_appends = 0) => LoadOk(new, running)

LEMMA AppendOutcome ==
  ASSUME LogInv, phase = "Up", NEW b \in Blocks, Attaches(fork_choice, b),
         NEW measured \in BOOLEAN
  PROVE  LET all == AppendedTokens(log, b, measured)
             done == Write(log, all)
         IN  /\ StillGood(done)
             /\ Kept(done, b.hash)
             /\ (AllDecode(done) /\ failed_appends = 0) =>
                  Replays(done, running, InsertBlock(fork_choice, b))
             /\ \A tokens \in Interrupted(all) : StillGood(Write(log, tokens))
<1> DEFINE R == Record(b, running)
           H == HeaderToken(running)
           all == AppendedTokens(log, b, measured)
           begun == IF Opens(log, measured) THEN HeaderFile(running) ELSE log
           new(tokens) == Write(log, tokens)
           clean == failed_appends = 0
<1>1. /\ FileOk(log) /\ running \in Configs /\ OwnFile(log) /\ OwnRun(log, running)
      /\ (AllDecode(log) /\ clean) => Replays(log, running, fork_choice)
  BY DEF LogInv, LogTypes, Ownership, Replayable
<1>2. /\ new(all) = Finished(begun, R)
      /\ \A tokens \in Interrupted(all) :
           \/ new(tokens) \in StoppedAfter(begun, R)
           \/ log = EmptyFile /\ new(tokens) \in {EmptyFile, File(<< >>, <<H>>), File(<< >>, <<Torn>>)}
  <2>1. log = File(log.lines, log.tail)
    BY <1>1 DEF FileOk
  <2>2. QED BY <2>1, Appends
<1>3. /\ FileOk(begun) /\ OwnFile(begun) /\ OwnRun(begun, running)
      /\ LinesKept(log, begun)
      /\ (AllDecode(begun) /\ clean) => Replays(begun, running, fork_choice)
  <2>1. CASE Opens(log, measured)
    <3> log = EmptyFile
      BY <2>1 DEF Opens
    <3>1. AllDecode(EmptyFile)
      <4>1. \A i \in 1..Len(<< >>) : FALSE
        OBVIOUS
      <4>2. QED BY <4>1, BeginningsOk DEF AllDecode
    <3>2. clean => fork_choice = EmptyForkChoice
      BY <1>1, <2>1, <3>1, BeginningsReplay DEF Replays
    <3>3. QED BY <1>1, <2>1, <3>2, BeginningsOk, OwnBeginnings, BeginningsReplay
  <2>2. CASE ~Opens(log, measured)
    <3>1. LinesKept(log, log)
      <4>1. Len(log.lines) \in Nat
        BY <1>1, FileType
      <4>2. QED BY <4>1 DEF LinesKept
    <3>2. QED BY <1>1, <2>2, <3>1
  <2>3. QED BY <2>1, <2>2
<1> HIDE DEF begun, all, new, clean
<1>4. ASSUME NEW file \in StoppedAfter(begun, R)
      PROVE  /\ StillGood(file)
             /\ (AllDecode(file) /\ clean /\ file = Finished(begun, R)) =>
                  Replays(file, running, InsertBlock(fork_choice, b))
  <2>1. R \in Tokens
    BY <1>1 DEF Tokens
  <2>2. FileOk(file)
    BY <1>1, <1>3, FileAfter
  <2>3. OwnFile(file) /\ OwnRun(file, running)
    BY <1>1, <1>3, OwnAfter
  <2>4. LinesKept(begun, file)
    <3> HIDE DEF R
    <3>1. QED BY <1>3, <2>1, LinesAfter
  <2>5. LinesKept(log, file)
    BY <1>3, <2>4, LinesKeptOn
  <2>6. ASSUME AllDecode(file), clean
        PROVE  /\ LoadOk(file, running)
               /\ file = Finished(begun, R) => Replays(file, running, InsertBlock(fork_choice, b))
    <3>1. AllDecode(begun)
      BY <2>4, <2>6, AllDecodedBefore
    <3>2. Replays(begun, running, fork_choice)
      BY <1>3, <2>6, <3>1
    <3>3. QED BY <1>1, <1>3, <2>6, <3>2, ReplayAfter
  <2>7. QED BY <2>2, <2>3, <2>5, <2>6 DEF StillGood, clean
<1>5. ASSUME log = EmptyFile, NEW file \in {EmptyFile, File(<< >>, <<H>>), File(<< >>, <<Torn>>)}
      PROVE  StillGood(file)
  <2>1. file \in Beginnings
    BY <1>1, <1>5 DEF Beginnings
  <2>2. LoadOk(file, running)
    BY <1>1, BeginningsReplay DEF Replays
  <2>3. QED BY <1>1, <1>5, <2>1, <2>2, BeginningsOk, OwnBeginnings DEF StillGood
<1>6. new(all) \in StoppedAfter(begun, R)
  BY <1>2 DEF StoppedAfter
<1>7. Kept(new(all), b.hash)
  BY <1>1, <1>2, <1>3, KeptWhenFinished
<1>8. \A tokens \in Interrupted(all) : StillGood(new(tokens))
  BY <1>2, <1>4, <1>5
<1>9. QED BY <1>2, <1>4, <1>6, <1>7, <1>8 DEF all, new, clean

-----------------------------------------------------------------------------
(* The steps                                                                 *)

\* The fork choice after a block that attaches.
LEMMA AcceptedBlock ==
  ASSUME LogInv, NEW b \in Blocks, Accept(b)
  PROVE  /\ phase = "Up" /\ phase' = "Up" /\ running' = running
         /\ Attaches(fork_choice, b)
         /\ fork_choice' = InsertBlock(fork_choice, b)
         /\ ForkChoiceInv(fork_choice') /\ chain' = BestChain(fork_choice')
         /\ Known(fork_choice) \cup {b.hash} \subseteq Known(fork_choice')
         /\ b.hash \in LoggedHashes
<1>1. /\ Attaches(fork_choice, b) /\ ForkChoiceInv(fork_choice)
      /\ fork_choice' = InsertBlock(fork_choice, b)
  BY DEF Accept, LogInv, LogTypes
<1>2. /\ ForkChoiceInv(InsertBlock(fork_choice, b))
      /\ Grows(fork_choice, InsertBlock(fork_choice, b))
      /\ b.hash \in Known(InsertBlock(fork_choice, b))
  BY <1>1, InsertKeepsInv, InsertGrows, KnownAfterInsert DEF Attaches
<1>3. QED BY <1>1, <1>2 DEF Accept, Grows, LoggedHashes

LEMMA StartStep ==
  ASSUME LogInv, NEW c \in Configs, Start(c)
  PROVE  LogInv'
<1> DEFINE fc == Load(log, c).fork_choice
<1>1. /\ FileOk(log) /\ OwnFile(log) /\ ForkChoiceInv(fork_choice) /\ chain = BestChain(fork_choice)
      /\ \A h \in acknowledged : Kept(log, h)
  BY DEF LogInv, LogTypes, Ownership, Ledger
<1>2. /\ running' = c /\ phase # "Up"
      /\ UNCHANGED <<log, acknowledged, failed_appends, torn_crashes, clean_stops>>
  BY DEF Start
<1>3. CASE LoadOk(log, c)
  <2>1. phase' = "Up" /\ fork_choice' = fc /\ chain' = BestChain(fc)
    BY <1>3 DEF Start
  <2>2. ForkChoiceInv(fc)
    BY <1>1, FileLoaded
  <2>3. OwnRun(log, c)
    BY <1>1, <1>3, OwnStart
  <2>4. acknowledged \subseteq Known(fc)
    BY <1>1, <1>3, KeptLoaded
  <2>5. Replays(log, c, fc)
    BY <1>3 DEF Replays
  <2> HIDE DEF fc
  <2>6. LogTypes'
    BY <1>2, <2>1, <2>2 DEF LogInv, LogTypes
  <2>7. Ownership' /\ Ledger'
    BY <1>1, <1>2, <2>1, <2>3, <2>4 DEF Ownership, Ledger
  <2>8. Replayable'
    BY <1>2, <1>3, <2>1, <2>5 DEF Replayable
  <2>9. QED BY <2>6, <2>7, <2>8 DEF LogInv
<1>4. CASE ~LoadOk(log, c)
  <2>1. phase' = "Refused" /\ UNCHANGED <<fork_choice, chain>>
    BY <1>4 DEF Start
  <2>2. QED BY <1>1, <1>2, <2>1 DEF LogInv, LogTypes, Ownership, Ledger, Replayable
<1>5. QED BY <1>3, <1>4

LEMMA AppendOkStep ==
  ASSUME LogInv, NEW b \in Blocks, NEW measured \in BOOLEAN, AppendOk(b, measured)
  PROVE  LogInv'
<1> DEFINE done == Write(log, AppendedTokens(log, b, measured))
<1>1. Accept(b) /\ log' = done /\ acknowledged' = acknowledged \cup {b.hash}
      /\ UNCHANGED <<failed_appends, torn_crashes, clean_stops>>
  BY DEF AppendOk
<1>2. /\ phase = "Up" /\ phase' = "Up" /\ running' = running
      /\ Attaches(fork_choice, b)
      /\ fork_choice' = InsertBlock(fork_choice, b)
      /\ ForkChoiceInv(fork_choice') /\ chain' = BestChain(fork_choice')
      /\ Known(fork_choice) \cup {b.hash} \subseteq Known(fork_choice')
      /\ b.hash \in LoggedHashes
  BY <1>1, AcceptedBlock
<1>3. /\ StillGood(done)
      /\ Kept(done, b.hash)
      /\ (AllDecode(done) /\ failed_appends = 0) =>
           Replays(done, running, InsertBlock(fork_choice, b))
  BY <1>2, AppendOutcome
<1> HIDE DEF done
<1>4. /\ FileOk(done) /\ OwnFile(done) /\ OwnRun(done, running) /\ LinesKept(log, done)
      /\ (AllDecode(done) /\ failed_appends = 0) => LoadOk(done, running)
  BY <1>3 DEF StillGood
<1>5. LogTypes'
  BY <1>1, <1>2, <1>4 DEF LogInv, LogTypes
<1>6. Ownership'
  BY <1>1, <1>2, <1>4 DEF Ownership
<1>7. Ledger'
  <2>1. \A h \in acknowledged : Kept(done, h)
    BY <1>4, KeptAfter DEF LogInv, Ledger
  <2>2. acknowledged \subseteq Known(fork_choice)
    BY <1>2 DEF LogInv, Ledger
  <2>3. QED BY <1>1, <1>2, <1>3, <2>1, <2>2 DEF Ledger
<1>8. Replayable'
  <2>1. running \in Configs
    BY DEF LogInv, LogTypes
  <2>2. QED BY <1>1, <1>2, <1>3, <1>4, <2>1 DEF Replayable
<1>9. QED BY <1>5, <1>6, <1>7, <1>8 DEF LogInv

LEMMA AppendFailsStep ==
  ASSUME LogInv, NEW b \in Blocks, NEW measured \in BOOLEAN, AppendFails(b, measured)
  PROVE  LogInv'
<1>1. Accept(b) /\ failed_appends < MaxFailedAppends /\ failed_appends' = failed_appends + 1
      /\ UNCHANGED <<acknowledged, torn_crashes, clean_stops>>
  BY DEF AppendFails
<1>2. /\ phase = "Up" /\ phase' = "Up" /\ running' = running
      /\ Attaches(fork_choice, b)
      /\ ForkChoiceInv(fork_choice') /\ chain' = BestChain(fork_choice')
      /\ Known(fork_choice) \cup {b.hash} \subseteq Known(fork_choice')
  BY <1>1, AcceptedBlock
<1>3. StillGood(log')
  <2>1. PICK tokens \in Interrupted(AppendedTokens(log, b, measured)) : log' = Write(log, tokens)
    BY DEF AppendFails
  <2>2. QED BY <1>2, <2>1, AppendOutcome
<1>4. FileOk(log') /\ OwnFile(log') /\ OwnRun(log', running) /\ LinesKept(log, log')
  BY <1>3 DEF StillGood
<1>5. failed_appends' \in 0..MaxFailedAppends /\ failed_appends' # 0
  BY <1>1, BoundFacts DEF LogInv, LogTypes
<1>6. LogTypes'
  BY <1>1, <1>2, <1>4, <1>5 DEF LogInv, LogTypes
<1>7. Ownership'
  BY <1>2, <1>4 DEF Ownership
<1>8. Ledger'
  <2>1. \A h \in acknowledged : Kept(log', h)
    BY <1>4, KeptAfter DEF LogInv, Ledger
  <2>2. acknowledged \subseteq Known(fork_choice)
    BY <1>2 DEF LogInv, Ledger
  <2>3. QED BY <1>1, <1>2, <2>1, <2>2 DEF Ledger
<1>9. Replayable'
  BY <1>5 DEF Replayable
<1>10. QED BY <1>6, <1>7, <1>8, <1>9 DEF LogInv

\* The node that is down has an empty fork choice.
LEMMA Halted ==
  ASSUME Halt
  PROVE  /\ phase' = "Down" /\ running' = running
         /\ ForkChoiceInv(fork_choice') /\ chain' = BestChain(fork_choice')
<1>1. Known(EmptyForkChoice) = {}
  BY DEF Known, EmptyForkChoice
<1>2. QED BY <1>1, EmptyInv, BestChainReplays DEF Halt

LEMMA CrashStep ==
  ASSUME LogInv, NEW b \in Blocks, NEW measured \in BOOLEAN, CrashInAppend(b, measured)
  PROVE  LogInv'
<1>1. /\ phase = "Up" /\ Attaches(fork_choice, b) /\ Halt
      /\ torn_crashes < MaxTornCrashes /\ torn_crashes' = torn_crashes + 1
      /\ UNCHANGED <<acknowledged, failed_appends, clean_stops>>
  BY DEF CrashInAppend
<1>2. StillGood(log')
  <2>1. PICK tokens \in Interrupted(AppendedTokens(log, b, measured)) : log' = Write(log, tokens)
    BY DEF CrashInAppend
  <2>2. QED BY <1>1, <2>1, AppendOutcome
<1>3. /\ FileOk(log') /\ OwnFile(log') /\ LinesKept(log, log')
      /\ (AllDecode(log') /\ failed_appends = 0) => LoadOk(log', running)
  BY <1>2 DEF StillGood
<1>4. /\ phase' = "Down" /\ running' = running
      /\ ForkChoiceInv(fork_choice') /\ chain' = BestChain(fork_choice')
  BY <1>1, Halted
<1>5. torn_crashes' \in 0..MaxTornCrashes
  BY <1>1, BoundFacts DEF LogInv, LogTypes
<1>6. LogTypes'
  BY <1>1, <1>3, <1>4, <1>5 DEF LogInv, LogTypes
<1>7. \A h \in acknowledged : Kept(log', h)
  BY <1>3, KeptAfter DEF LogInv, Ledger
<1>8. running \in Configs
  BY DEF LogInv, LogTypes
<1>9. Ownership' /\ Ledger' /\ Replayable'
  BY <1>1, <1>3, <1>4, <1>7, <1>8 DEF Ownership, Ledger, Replayable
<1>10. QED BY <1>6, <1>9 DEF LogInv

LEMMA StopStep ==
  ASSUME LogInv, StopBetweenAppends
  PROVE  LogInv'
<1>1. /\ Halt /\ clean_stops < MaxCleanStops /\ clean_stops' = clean_stops + 1
      /\ UNCHANGED <<log, acknowledged, failed_appends, torn_crashes>>
  BY DEF StopBetweenAppends
<1>2. /\ phase' = "Down" /\ running' = running
      /\ ForkChoiceInv(fork_choice') /\ chain' = BestChain(fork_choice')
  BY <1>1, Halted
<1>3. clean_stops' \in 0..MaxCleanStops
  BY <1>1, BoundFacts DEF LogInv, LogTypes
<1>4. LogTypes'
  BY <1>1, <1>2, <1>3 DEF LogInv, LogTypes
<1>5. Ownership' /\ Ledger' /\ Replayable'
  BY <1>1, <1>2 DEF LogInv, Ownership, Ledger, Replayable
<1>6. QED BY <1>4, <1>5 DEF LogInv

\* The file is safe to read under any configuration, and the running node is what the
\* file says, whatever was interrupted and however often the node was restarted.
THEOREM LogInvariance == Spec => []LogInv
<1>1. LogInv /\ [Next]_vars => LogInv'
  <2> SUFFICES ASSUME LogInv, [Next]_vars PROVE LogInv'
    OBVIOUS
  <2>1. CASE UNCHANGED vars
    BY <2>1 DEF vars, LogInv, LogTypes, Ownership, Ledger, Replayable, OwnRun
  <2>2. CASE Next
    BY <2>2, StartStep, AppendOkStep, AppendFailsStep, CrashStep, StopStep DEF Next
  <2>3. QED BY <2>1, <2>2
<1>2. QED BY <1>1, InitLog, PTL DEF Spec

-----------------------------------------------------------------------------
(* The properties                                                            *)

LEMMA LinesTyped ==
  ASSUME NEW line \in Seq(Tokens)
  PROVE  IsLine(line)
<1>1. line = [i \in 1..Len(line) |-> line[i]] /\ \A i \in 1..Len(line) : line[i] \in Tokens
  OBVIOUS
<1>2. \A t \in Tokens : IsToken(t)
  BY TokenKinds DEF IsToken, Tokens
<1>3. QED BY <1>1, <1>2 DEF IsLine

LEMMA TypesTyped ==
  ASSUME LogInv
  PROVE  TypeOK
<1>1. /\ log.lines \in Seq(Seq(Tokens)) /\ log.tail \in Seq(Tokens)
      /\ \A i \in 1..Len(log.lines) : log.lines[i] \in Seq(Tokens)
  BY FileType DEF LogInv, LogTypes
<1>2. (\A i \in 1..Len(log.lines) : IsLine(log.lines[i])) /\ IsLine(log.tail)
  BY <1>1, LinesTyped
<1>3. HeaderOnlyFirst
  <2> DEFINE lines == Append(log.lines, log.tail)
             n == Len(log.lines)
  <2>1. /\ Len(lines) = n + 1 /\ lines[n + 1] = log.tail
        /\ \A i \in 1..n : lines[i] = log.lines[i]
        /\ \A i \in 1..(n + 1) : i \in 1..n \/ i = n + 1
    <3> DEFINE X == Seq(Tokens)
    <3>1. log.lines \in Seq(X) /\ log.tail \in X
      BY <1>1
    <3> HIDE DEF X
    <3>2. QED BY <3>1, OneLonger
  <2>2. log.lines = << >> => n = 0
    OBVIOUS
  <2> HIDE DEF lines, n
  <2>3. /\ \A i \in 1..n : \A j \in 1..Len(log.lines[i]) :
             log.lines[i][j].kind = "header" => i = 1 /\ j = 1
        /\ \A j \in 1..Len(log.tail) : log.tail[j].kind = "header" => log.lines = << >> /\ j = 1
    BY DEF LogInv, LogTypes, FileOk, n
  <2>4. ASSUME NEW i \in 1..Len(lines), NEW j \in 1..Len(lines[i]), lines[i][j].kind = "header"
        PROVE  i = 1 /\ j = 1
    <3>1. CASE i \in 1..n
      BY <2>1, <2>3, <2>4, <3>1
    <3>2. CASE i = n + 1
      BY <2>1, <2>2, <2>3, <2>4, <3>2
    <3>3. QED BY <2>1, <3>1, <3>2
  <2>5. QED BY <2>4 DEF HeaderOnlyFirst, lines
<1>4. ForkChoiceType(fork_choice) /\ chain \in Seq(Blocks)
  BY BestChainReplays DEF LogInv, LogTypes, ForkChoiceInv, TreeInv
<1>5. QED BY <1>2, <1>3, <1>4 DEF LogInv, LogTypes, TypeOK, LoggedHashes

\* The log holds lines of whole or torn headers and records, a header only as its first
\* token, and the variables of the node that writes it keep their types.
THEOREM LogTypeCorrect == Spec => []TypeOK
BY LogInvariance, TypesTyped, PTL

\* append_block returning Ok means that the block is there after any number of
\* interrupted appends and restarts under any configuration: start_node refuses rather
\* than skip it.
THEOREM AcknowledgedAlwaysSurvive == Spec => []AcknowledgedSurvive
<1>1. LogInv => AcknowledgedSurvive
  BY DEF LogInv, Ledger, AcknowledgedSurvive
<1>2. QED BY <1>1, LogInvariance, PTL

\* While no append failed and nothing was glued to an unfinished line, load_chains would
\* restore exactly the fork choice and the chain that the node has in memory.
THEOREM UndamagedLogAlwaysReplays == Spec => []UndamagedLogReplays
<1>1. LogInv => UndamagedLogReplays
  <2> SUFFICES ASSUME LogInv, Undamaged, failed_appends = 0
               PROVE  /\ \E c \in Configs : LoadOk(log, c)
                      /\ phase = "Up" => /\ LoadOk(log, running)
                                         /\ Load(log, running).fork_choice = fork_choice
                                         /\ BestChain(Load(log, running).fork_choice) = chain
    BY DEF UndamagedLogReplays
  <2>1. AllDecode(log)
    BY DEF Undamaged, AllDecode
  <2>2. QED BY <2>1 DEF LogInv, LogTypes, Replayable, Replays
<1>2. QED BY <1>1, LogInvariance, PTL

\* The records that a running node has read or written are its own configuration's, unless
\* the first line of the log is a record: the fingerprint of load_chains keeps the
\* configurations apart even when the header was torn.
THEOREM AlwaysOneConfiguration == Spec => []OneConfiguration
<1>1. LogInv => OneConfiguration
  <2> SUFFICES ASSUME LogInv, phase = "Up", ~BeginsWithRecord(log)
               PROVE  RecordsBy \subseteq {running}
    BY DEF OneConfiguration
  <2> DEFINE lines == Append(log.lines, log.tail)
             n == Len(log.lines)
  <2>1. /\ Len(lines) = n + 1 /\ lines[n + 1] = log.tail
        /\ \A i \in 1..n : lines[i] = log.lines[i]
        /\ \A i \in 1..(n + 1) : i \in 1..n \/ i = n + 1
        /\ n \in Nat /\ lines \in Seq(Seq(Tokens))
    <3> DEFINE X == Seq(Tokens)
    <3>1. log.lines \in Seq(X) /\ log.tail \in X
      BY FileType DEF LogInv, LogTypes
    <3> HIDE DEF X
    <3>2. /\ Len(lines) = n + 1 /\ lines[n + 1] = log.tail
          /\ \A i \in 1..n : lines[i] = log.lines[i]
          /\ \A i \in 1..(n + 1) : i \in 1..n \/ i = n + 1
          /\ n \in Nat /\ lines \in Seq(X)
      BY <3>1, OneLonger
    <3>3. QED BY <3>2 DEF X
  <2>2. Lines = {lines[i] : i \in 1..Len(lines)}
    <3>1. DOMAIN lines = 1..Len(lines)
      BY <2>1
    <3>2. QED BY <3>1 DEF Lines, ToSet
  <2> HIDE DEF lines, n
  <2>3. \A i \in 1..n : log.lines[i] \in Lines
    BY <2>1, <2>2
  <2>4. log.tail \in Lines
    <3>1. n + 1 \in 1..Len(lines)
      BY <2>1
    <3>2. QED BY <2>1, <2>2, <3>1
  <2>5. \A line \in Lines : line = log.tail \/ \E i \in 1..n : line = log.lines[i]
    BY <2>1, <2>2
  <2>6. RecordsBy = {line[1].by : line \in {l \in Lines : IsRecord(l)}}
    BY DEF RecordsBy, IsRecord
  <2>7. FinishedBelongTo(log, {running}) /\ BelongsTo(log.tail, {running})
    BY DEF LogInv, Ownership, OwnRun
  <2>8. ASSUME NEW line \in Lines, IsRecord(line)
        PROVE  line[1].by = running
    <3>1. CASE line = log.tail
      BY <2>7, <2>8, <3>1 DEF BelongsTo
    <3>2. CASE \E i \in 1..n : line = log.lines[i]
      BY <2>7, <2>8, <3>2 DEF FinishedBelongTo, BelongsTo, n
    <3>3. QED BY <2>5, <3>1, <3>2
  <2>9. QED BY <2>6, <2>8
<1>2. QED BY <1>1, LogInvariance, PTL

\* What load_chains restores, and what the running node makes of it, is the heaviest chain
\* of the blocks it has, and this chain replays.
THEOREM RestoredStateAlwaysValid == Spec => []RestoredStateValid
<1>1. LogInv => RestoredStateValid
  <2> SUFFICES ASSUME LogInv
               PROVE  RestoredStateValid
    OBVIOUS
  <2>1. TypeOK
    BY TypesTyped
  <2>2. ForkChoiceInv(fork_choice) /\ chain = BestChain(fork_choice)
    BY DEF LogInv, LogTypes
  <2>3. ChainFromBlocksOk(chain)
    BY <2>2, BestChainReplays
  <2>4. QED BY <2>1, <2>2, <2>3 DEF RestoredStateValid
<1>2. QED BY <1>1, LogInvariance, PTL
=============================================================================
