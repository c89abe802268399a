---------------------------- MODULE StreamFramer ----------------------------
(***************************************************************************)
(* ADJsonStreamFramer: cuts a TCP byte stream into complete JSON values.   *)
(* One framer serves one connection from one thread; feed() appends what a *)
(* recv() returned, scans on from where it stopped and compacts the buffer *)
(* once at the end.  A byte is its class: the scanner tells no more apart. *)
(* Offsets count from 0, as in the code.                                   *)
(***************************************************************************)
EXTENDS Naturals, Sequences

CONSTANTS MaxMsg,    \* max_msg
          MaxChunk,  \* bytes one recv() returns (bound)
          MaxBytes   \* bytes fed between two resets (bound)

Bytes == {"open", "close", "quote", "backslash", "sep", "other"}

ASSUME FramerAssumption ==
    MaxMsg \in Nat \ {0} /\ MaxChunk \in Nat /\ MaxBytes \in Nat

VARIABLES
    buf, ready, scan, start, depth, inString, escape, error,
    consumed,   \* local of feed(): bytes of buf no longer needed
    pc,         \* inside or outside feed()
    \* ghosts
    stream,     \* every byte fed since the last reset()
    base,       \* how many of them were erased from buf
    cuts,       \* where in stream each message was found
    taken,      \* messages next() has handed out
    trail       \* the depth and the mode after each byte scanned

scanner == <<start, depth, inString, escape>>
ghosts == <<stream, base, cuts, taken>>
framerVars == <<buf, ready, scan, scanner, error, consumed, pc, ghosts, trail>>

\* The flags of the scanner as one mode.
Mode == IF ~inString THEN "object" ELSE IF escape THEN "escape" ELSE "string"
Scanned == trail' = Append(trail, [deep |-> depth, mode |-> Mode]')

Byte == buf[scan + 1]
Scanning == pc = "scan" /\ scan < Len(buf)
Inside == depth > 0
-----------------------------------------------------------------------------
(* feed()                                                                  *)

\* After an error feed() returns -1 and changes nothing until reset().
Feed(chunk) ==
    /\ pc = "idle"
    /\ ~error
    /\ Len(stream) + Len(chunk) <= MaxBytes
    /\ buf' = buf \o chunk
    /\ stream' = stream \o chunk
    /\ consumed' = 0
    /\ pc' = "scan"
    /\ UNCHANGED <<ready, scan, scanner, error, base, cuts, taken, trail>>

\* Between messages.
Skip ==
    /\ Scanning /\ ~Inside
    /\ Byte = "sep"
    /\ consumed' = scan + 1
    /\ scan' = scan + 1
    /\ UNCHANGED <<buf, ready, scanner, error, pc, ghosts>>
    /\ Scanned

Begin ==
    /\ Scanning /\ ~Inside
    /\ Byte = "open"
    /\ start' = scan
    /\ depth' = 1
    /\ inString' = FALSE /\ escape' = FALSE
    /\ scan' = scan + 1
    /\ UNCHANGED <<buf, ready, error, consumed, pc, ghosts>>
    /\ Scanned

Bug_TooLongByOne == scan - start + 1 >= MaxMsg
TooLong == scan - start + 1 > MaxMsg

\* Garbage outside a message, or a message that grows too long.
Fail ==
    /\ Scanning
    /\ \/ ~Inside /\ Byte \notin {"sep", "open"}
       \/ Inside /\ TooLong
    /\ error' = TRUE
    /\ buf' = <<>>
    /\ scan' = 0 /\ start' = 0 /\ depth' = 0
    /\ pc' = "idle"
    /\ UNCHANGED <<ready, inString, escape, consumed, ghosts, trail>>

\* Inside a string a backslash takes the next byte with it.
EscapeAfter == ~escape /\ Byte = "backslash"

StringByte ==
    /\ Scanning /\ Inside /\ ~TooLong
    /\ inString
    /\ escape' = EscapeAfter
    /\ inString' = (escape \/ Byte # "quote")
    /\ scan' = scan + 1
    /\ UNCHANGED <<buf, ready, start, depth, error, consumed, pc, ghosts>>
    /\ Scanned

\* Outside a string brackets count, whatever their shape.
ObjectByte ==
    /\ Scanning /\ Inside /\ ~TooLong
    /\ ~inString
    /\ ~(Byte = "close" /\ depth = 1)
    /\ inString' = (Byte = "quote")
    /\ depth' = CASE Byte = "open" -> depth + 1
                  [] Byte = "close" -> depth - 1
                  [] OTHER -> depth
    /\ scan' = scan + 1
    /\ UNCHANGED <<buf, ready, start, escape, error, consumed, pc, ghosts>>
    /\ Scanned

Complete ==
    /\ Scanning /\ Inside /\ ~TooLong
    /\ ~inString
    /\ Byte = "close" /\ depth = 1
    /\ depth' = 0
    /\ ready' = Append(ready, SubSeq(buf, start + 1, scan + 1))
    /\ cuts' = Append(cuts, [from |-> base + start + 1, to |-> base + scan + 1])
    /\ consumed' = scan + 1
    /\ scan' = scan + 1
    /\ UNCHANGED <<buf, start, inString, escape, error, pc, stream, base, taken>>
    /\ Scanned

\* Everything is scanned: what lies before the message in work is erased, and
\* the offsets follow.
Erased == IF Inside /\ start > consumed THEN start ELSE consumed
Bug_StartAfter == start
StartAfter == IF Inside THEN start - Erased ELSE start

FeedEnd ==
    /\ pc = "scan"
    /\ scan = Len(buf)
    /\ buf' = SubSeq(buf, Erased + 1, Len(buf))
    /\ scan' = scan - Erased
    /\ start' = StartAfter
    /\ base' = base + Erased
    /\ pc' = "idle"
    /\ UNCHANGED <<ready, depth, inString, escape, error, consumed, stream,
                   cuts, taken, trail>>
-----------------------------------------------------------------------------
(* next() and reset()                                                      *)

NextMessage ==
    /\ pc = "idle"
    /\ ready # <<>>
    /\ taken' = Append(taken, Head(ready))
    /\ ready' = Tail(ready)
    /\ UNCHANGED <<buf, scan, scanner, error, consumed, pc, stream, base, cuts,
                   trail>>

Reset ==
    /\ pc = "idle"
    /\ buf' = <<>> /\ ready' = <<>>
    /\ scan' = 0 /\ start' = 0 /\ depth' = 0
    /\ inString' = FALSE /\ escape' = FALSE /\ error' = FALSE
    /\ stream' = <<>> /\ base' = 0 /\ cuts' = <<>> /\ taken' = <<>>
    /\ trail' = <<>>
    /\ UNCHANGED <<consumed, pc>>

FramerInit ==
    /\ buf = <<>> /\ ready = <<>>
    /\ scan = 0 /\ start = 0 /\ depth = 0
    /\ inString = FALSE /\ escape = FALSE /\ error = FALSE
    /\ consumed = 0 /\ pc = "idle"
    /\ stream = <<>> /\ base = 0 /\ cuts = <<>> /\ taken = <<>>
    /\ trail = <<>>

Chunks == UNION {[1..n -> Bytes] : n \in 1..MaxChunk}

FramerNext ==
    \/ \E chunk \in Chunks : Feed(chunk)
    \/ Skip \/ Begin \/ Fail \/ StringByte \/ ObjectByte \/ Complete \/ FeedEnd
    \/ NextMessage \/ Reset

FramerSpec == FramerInit /\ [][FramerNext]_framerVars
-----------------------------------------------------------------------------
(* The reference: which words over Bytes are messages                      *)

\* Words of W with one more byte, and with a pair and what it encloses.
Followed(W, B) == {Append(w, b) : w \in W, b \in B}
Pair(w, left, o, right) == w \o <<left>> \o o \o <<right>>
Enclosing(W, left, In, right) ==
    {Pair(w, left, o, right) : w \in W, o \in In}

\* Insides of a string with n bytes.
StringBody[n \in 0..MaxMsg] ==
    IF n = 0 THEN {<<>>}
    ELSE Followed(StringBody[n - 1], Bytes \ {"quote", "backslash"})
         \cup IF n = 1 THEN {}
              ELSE Followed(Followed(StringBody[n - 2], {"backslash"}), Bytes)

\* Insides of an object or array with n bytes.
ObjectBody[n \in 0..MaxMsg] ==
    IF n = 0 THEN {<<>>}
    ELSE Followed(ObjectBody[n - 1], {"sep", "other", "backslash"})
         \cup UNION {
           Enclosing(ObjectBody[n - k], "quote", StringBody[k - 2], "quote")
           \cup
           Enclosing(ObjectBody[n - k], "open", ObjectBody[k - 2], "close") :
           k \in 2..n}

Messages == UNION {Enclosing({<<>>}, "open", ObjectBody[n], "close") :
                      n \in {k \in 0..MaxMsg : k + 2 <= MaxMsg}}

\* What follows the last message found, without its leading separators.
LastCut == IF cuts = <<>> THEN 0 ELSE cuts[Len(cuts)].to
OnlySeps(from, to) == \A i \in from..to : stream[i] = "sep"
RestFrom == {i \in (LastCut + 1)..Len(stream) :
               stream[i] # "sep" /\ OnlySeps(LastCut + 1, i - 1)}
HasMessage(from) ==
    \E to \in from..Len(stream) : SubSeq(stream, from, to) \in Messages
-----------------------------------------------------------------------------
(* Properties                                                              *)

\* Wherever recv() split the stream, the messages handed out are JSON values
\* of the stream, unchanged, in order, with nothing but separators between
\* them.
MessagesAreExact ==
    LET all == taken \o ready
    IN  /\ Len(all) = Len(cuts)
        /\ \A i \in DOMAIN cuts :
             /\ all[i] = SubSeq(stream, cuts[i].from, cuts[i].to)
             /\ all[i] \in Messages
             /\ OnlySeps((IF i = 1 THEN 0 ELSE cuts[i - 1].to) + 1,
                         cuts[i].from - 1)

\* feed() reports an error exactly when the stream has one.  Without an error
\* no complete message is left in the buffer, and the buffer holds less than
\* one message; a connection is given up only for garbage between messages or
\* for a message longer than max_msg, never for one that was merely split.
VerdictIsRight ==
    /\ pc = "idle" /\ ~error =>
         /\ buf = SubSeq(stream, base + 1, Len(stream))
         /\ Len(buf) <= MaxMsg
         /\ \A from \in RestFrom : stream[from] = "open" /\ ~HasMessage(from)
    /\ error => \E from \in RestFrom :
                  \/ stream[from] # "open"
                  \/ Len(stream) - from + 1 > MaxMsg /\ ~HasMessage(from)
-----------------------------------------------------------------------------
(* The inductive invariant                                                 *)

Modes == {"object", "string", "escape"}
Marks == [deep : Nat, mode : Modes]
Spans == [from : Nat, to : Nat]
FramerTypeOK ==
    /\ buf \in Seq(Bytes) /\ stream \in Seq(Bytes)
    /\ ready \in Seq(Seq(Bytes)) /\ taken \in Seq(Seq(Bytes))
    /\ cuts \in Seq(Spans)
    /\ trail \in Seq(Marks)
    /\ scan \in Nat /\ start \in Nat /\ depth \in Nat /\ consumed \in Nat
    /\ base \in Nat /\ pc \in {"idle", "scan"}
    /\ inString \in BOOLEAN /\ escape \in BOOLEAN /\ error \in BOOLEAN

\* Places in the stream: the last byte scanned, the first of the message in
\* work.
At == base + scan
From == base + start + 1

\* The buffer is the end of the stream.  Between two calls of feed() it has
\* the message in work and nothing else.
BufferInv ==
    /\ base <= Len(stream) /\ buf = SubSeq(stream, base + 1, Len(stream))
    /\ At <= Len(stream)
    /\ Inside => start < scan /\ scan <= start + MaxMsg
    /\ pc = "idle" => At = Len(stream) /\ (IF Inside THEN start = 0 ELSE scan = 0)
    /\ pc = "scan" => IF Inside THEN consumed <= start ELSE consumed = scan

\* One byte, inside a message: where the scanner is after it.
Moves(x, b, y) ==
    CASE x.mode = "string" ->
           /\ y.deep = x.deep
           /\ y.mode = CASE b = "quote" -> "object" [] b = "backslash" -> "escape"
                         [] OTHER -> "string"
      [] x.mode = "escape" -> y.deep = x.deep /\ y.mode = "string"
      [] x.mode = "object" ->
           /\ y.deep = CASE b = "open" -> x.deep + 1 [] b = "close" -> x.deep - 1
                         [] OTHER -> x.deep
           /\ y.mode = IF b = "quote" THEN "string" ELSE "object"
TrailInv ==
    /\ Len(trail) = At
    /\ ~Inside => ~inString
    /\ escape => inString
    /\ trail # <<>> => trail[At].deep = depth /\ trail[At].mode = Mode
    /\ Inside =>
         /\ stream[From] = "open"
         /\ trail[From].deep = 1 /\ trail[From].mode = "object"
         /\ \A i \in From..At : trail[i].deep > 0
         /\ \A i \in From..(At - 1) : Moves(trail[i], stream[i + 1], trail[i + 1])

\* What was found lies in the stream; behind it there are separators up to
\* where the scanner, or the message in work, is.
CutsInv ==
    /\ \A i \in DOMAIN cuts : /\ cuts[i].from \in 1..cuts[i].to
                              /\ cuts[i].to <= Len(stream)
    /\ ~error => /\ LastCut <= At
                 /\ Inside => LastCut < From
                 /\ OnlySeps(LastCut + 1, IF Inside THEN From - 1 ELSE At)

\* After an error nothing is scanned any more.
ErrorInv ==
    error => /\ pc = "idle"
             /\ \E from \in RestFrom :
                  \/ stream[from] # "open"
                  \/ Len(stream) - from + 1 > MaxMsg /\ ~HasMessage(from)

FramerInv ==
    /\ FramerTypeOK /\ (~error => BufferInv /\ TrailInv)
    /\ CutsInv /\ ErrorInv /\ MessagesAreExact
=============================================================================
