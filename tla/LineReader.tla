----------------------------- MODULE LineReader -----------------------------
(***************************************************************************)
(* Reading one event file (conformance/src/sources.ts): a JSON Lines file  *)
(* is read a chunk at a time and split into lines, a JSON document is read *)
(* whole, while another process may append to the file or truncate it.     *)
(*                                                                         *)
(* A file is a sequence of bytes, a text a sequence of characters.  Lead   *)
(* and Trail are the two bytes of the one character wider than a byte.  An *)
(* event is written {...} with no brace inside, and Deep stands for more   *)
(* nesting than the reader admits.                                         *)
(***************************************************************************)
EXTENDS Naturals, SequencesExt

CONSTANTS
  Alphabet,      \* the bytes the writer of the file uses
  MaxFile,       \* bound: the largest the file gets
  MaxTruncate,   \* bound: how often it is truncated
  ChunkBytes,    \* CHUNK_BYTES
  MaxLine,       \* MAX_LINE_BYTES
  MaxDocument    \* MAX_DOCUMENT_BYTES

Lead == "lead"
Trail == "trail"
Deep == "deep"
Newline == "newline"
Blank == " "
Wide == "wide"              \* the character Lead and Trail encode
Replacement == "U+FFFD"     \* what a decoder makes of a broken encoding

ASSUME AlphabetAssumption == Alphabet \subseteq {"{", "}", Blank, Newline, Lead, Trail, Deep}
ASSUME SizesAssumption ==
  /\ {MaxFile, MaxTruncate, MaxLine, MaxDocument} \subseteq Nat
  /\ ChunkBytes \in Nat \ {0}

VARIABLES
  file,        \* what the file holds now
  truncated,   \* how often it was truncated
  mode,        \* "lines", "limited" (wholeFileLimit) or "document"
  phase,       \* closed, reading, splitting, tail, drained, then done or left
  descriptor,  \* "none", "open" or "closed"
  size,        \* what fstat said when the file was opened
  seen,        \* every byte read so far; a descriptor's offset is its length
  carry,       \* StringDecoder holds a Lead back
  pending,     \* characters read and not yet split off
  number,      \* lines split off
  items,       \* what the stream has yielded: events, and at most one failure
  suspended    \* an event has been yielded and the consumer has it

fileVars == <<file, truncated>>
vars == <<fileVars, mode, phase, descriptor, size, seen, carry, pending, number, items, suspended>>

-----------------------------------------------------------------------------
(* Text. *)

DecodeByte(st, b) ==
  LET text == IF st.carry /\ b # Trail THEN Append(st.text, Replacement) ELSE st.text
  IN CASE b = Lead -> [text |-> text, carry |-> TRUE]
       [] b = Trail -> [text |-> Append(text, IF st.carry THEN Wide ELSE Replacement),
                        carry |-> FALSE]
       [] OTHER -> [text |-> Append(text, b), carry |-> FALSE]

DecodeFrom(st, bytes) ==
  LET after[n \in 0 .. Len(bytes)] ==
        IF n = 0 THEN st ELSE DecodeByte(after[n - 1], bytes[n])
  IN after[Len(bytes)]

(* Slip: each chunk decoded on its own. *)
DecodePerChunk(text, held, bytes) ==
  LET st == DecodeFrom([text |-> text, carry |-> FALSE], bytes)
  IN [st EXCEPT !.text = IF st.carry THEN Append(@, Replacement) ELSE @, !.carry = FALSE]

(* decoder.write(chunk), appended to a text. *)
Decode(text, held, bytes) == DecodeFrom([text |-> text, carry |-> held], bytes)

(* Slip: the byte held back is appended as it is. *)
FlushRaw(text, held) == IF held THEN Append(text, Lead) ELSE text

(* decoder.end() *)
Flush(text, held) == IF held THEN Append(text, Replacement) ELSE text

Occurrences(c, text) == Cardinality({i \in DOMAIN text : text[i] = c})

(* In UTF-8, the wide character takes two bytes and the replacement three. *)
ByteLength(text) == Len(text) + Occurrences(Wide, text) + 2 * Occurrences(Replacement, text)

TooLong(text) == Len(text) * 3 > MaxLine /\ ByteLength(text) > MaxLine

Whitespace == {Blank, Newline}

Trim(text) ==
  LET solid == {i \in DOMAIN text : text[i] \notin Whitespace}
  IN IF solid = {} THEN << >>
     ELSE SubSeq(text, CHOOSE i \in solid : \A j \in solid : i <= j,
                       CHOOSE i \in solid : \A j \in solid : i >= j)

(* JSON.parse and nestedTooDeep. *)
Judge(text) ==
  LET t == Trim(text) IN
  IF /\ Len(t) > 1 /\ t[1] = "{" /\ t[Len(t)] = "}"
     /\ \A i \in 2 .. Len(t) - 1 : t[i] \notin {"{", "}"}
  THEN IF Contains(t, Deep) THEN "too-deep" ELSE "event"
  ELSE "malformed"

Event(n, text) == [kind |-> "event", line |-> n, text |-> Trim(text)]
Failure(why) == [kind |-> "failure", why |-> why]

-----------------------------------------------------------------------------
Init ==
  /\ file = << >> /\ truncated = 0
  /\ mode \in {"lines", "limited", "document"}
  /\ phase = "closed" /\ descriptor = "none"
  /\ size = 0 /\ seen = << >>
  /\ carry = FALSE /\ pending = << >> /\ number = 0
  /\ items = << >> /\ suspended = FALSE

(* The other process. *)
Write ==
  /\ Len(file) < MaxFile
  /\ \E b \in Alphabet : file' = Append(file, b)
  /\ UNCHANGED <<truncated, mode, phase, descriptor, size, seen, carry, pending, number,
                 items, suspended>>

Truncate ==
  /\ truncated < MaxTruncate
  /\ file # << >>
  /\ file' = << >>
  /\ truncated' = truncated + 1
  /\ UNCHANGED <<mode, phase, descriptor, size, seen, carry, pending, number, items, suspended>>

(* The stream is over; `finally` has closed the descriptor. *)
Finish(yielded) ==
  /\ phase' = "done"
  /\ descriptor' = IF descriptor = "none" THEN "none" ELSE "closed"
  /\ items' = items \o yielded
  /\ suspended' = FALSE

(* A path that cannot be opened, or is no regular file. *)
OpenFails ==
  /\ phase = "closed"
  /\ Finish(<<Failure("unreadable")>>)
  /\ UNCHANGED <<fileVars, mode, size, seen, carry, pending, number>>

(* openRegularFile, and the size checks made before anything is read. *)
Open ==
  /\ phase = "closed"
  /\ size' = Len(file)
  /\ IF mode # "lines" /\ Len(file) > MaxDocument
     THEN /\ phase' = "done" /\ descriptor' = "closed"
          /\ items' = <<Failure("too-large")>>
     ELSE /\ phase' = "reading" /\ descriptor' = "open"
          /\ UNCHANGED items
  /\ UNCHANGED <<fileVars, mode, seen, carry, pending, number, suspended>>

(* readSync throws. *)
ReadFails ==
  /\ phase = "reading"
  /\ Finish(<<Failure("unreadable")>>)
  /\ UNCHANGED <<fileVars, mode, size, seen, carry, pending, number>>

(* What one readSync may return: a part of what lies past the offset.      *)
Available(limit) ==
  {SubSeq(file, Len(seen) + 1, Len(seen) + n) :
     n \in {k \in 1 .. limit : Len(seen) + k <= Len(file)}}

(* Slip: the limit is checked when the file is opened and never again. *)
ReadChunkUnlimited ==
  /\ phase = "reading" /\ mode # "document"
  /\ \E bytes \in Available(ChunkBytes) :
       /\ seen' = seen \o bytes
       /\ LET st == Decode(pending, carry, bytes)
          IN pending' = st.text /\ carry' = st.carry
  /\ phase' = "splitting"
  /\ suspended' = FALSE
  /\ UNCHANGED <<fileVars, mode, size, number, descriptor, items>>

ReadChunk ==
  /\ phase = "reading" /\ mode # "document"
  /\ \E bytes \in Available(ChunkBytes) :
       /\ seen' = seen \o bytes
       /\ IF mode = "limited" /\ Len(seen') > MaxDocument
          THEN /\ Finish(<<Failure("grew")>>)
               /\ UNCHANGED <<carry, pending>>
          ELSE /\ LET st == Decode(pending, carry, bytes)
                  IN pending' = st.text /\ carry' = st.carry
               /\ phase' = "splitting"
               /\ suspended' = FALSE
               /\ UNCHANGED <<descriptor, items>>
  /\ UNCHANGED <<fileVars, mode, size, number>>

(* The consumer of the stream has an item and the generators stand still:  *)
(* after the last one the descriptor is yet to be closed.                  *)
HandOver(item, next) ==
  /\ phase' = next
  /\ items' = items \o <<item>>
  /\ suspended' = (item.kind = "event")

(* The consumer's side of one line: streamFile's loop over readLines.      *)
(* Blank lines are skipped, a line that is no event is the last.           *)
TakeLine(text, next) ==
  /\ number' = number + 1
  /\ IF TooLong(text) THEN Finish(<<Failure("line-too-long")>>)
     ELSE /\ IF Trim(text) = << >>
             THEN phase' = next /\ suspended' = FALSE /\ UNCHANGED items
             ELSE IF Judge(text) = "event" THEN HandOver(Event(number + 1, text), next)
             ELSE HandOver(Failure(Judge(text)), "drained")
          /\ UNCHANGED descriptor

NewlineAt(text) == SelectInSeq(text, LAMBDA c : c = Newline)

SplitLine ==
  /\ phase = "splitting"
  /\ NewlineAt(pending) # 0
  /\ TakeLine(SubSeq(pending, 1, NewlineAt(pending) - 1), "splitting")
  /\ pending' = SubSeq(pending, NewlineAt(pending) + 1, Len(pending))
  /\ UNCHANGED <<fileVars, mode, size, seen, carry>>

(* No more line in the chunk: a line that has not ended is measured too.   *)
KeepRest ==
  /\ phase = "splitting"
  /\ NewlineAt(pending) = 0
  /\ IF TooLong(pending) THEN Finish(<<Failure("line-too-long")>>)
     ELSE phase' = "reading" /\ suspended' = FALSE /\ UNCHANGED <<descriptor, items>>
  /\ UNCHANGED <<fileVars, mode, size, seen, carry, pending, number>>

(* Slip: the end of the file is where it was when the file was opened. *)
EndOfFileAtSize ==
  /\ phase = "reading" /\ mode # "document"
  /\ Len(seen) = size
  /\ pending' = Flush(pending, carry)
  /\ carry' = FALSE
  /\ phase' = "tail"
  /\ suspended' = FALSE
  /\ UNCHANGED <<fileVars, mode, descriptor, size, seen, number, items>>

(* readSync returns 0. *)
EndOfFile ==
  /\ phase = "reading" /\ mode # "document"
  /\ Len(seen) >= Len(file)
  /\ pending' = Flush(pending, carry)
  /\ carry' = FALSE
  /\ phase' = "tail"
  /\ suspended' = FALSE
  /\ UNCHANGED <<fileVars, mode, descriptor, size, seen, number, items>>

(* The last line need not end in a newline. *)
LastLine ==
  /\ phase = "tail"
  /\ IF pending = << >> THEN Finish(<< >>) /\ UNCHANGED number
     ELSE TakeLine(pending, "drained")
  /\ pending' = << >>
  /\ UNCHANGED <<fileVars, mode, size, seen, carry>>

(* Asked for more than there is. *)
Drain ==
  /\ phase = "drained"
  /\ Finish(<< >>)
  /\ UNCHANGED <<fileVars, mode, size, seen, carry, pending, number>>

(* The consumer throws while it holds an event: the generators return.     *)
Abandon ==
  /\ suspended
  /\ phase' = "left"
  /\ descriptor' = "closed"
  /\ suspended' = FALSE
  /\ UNCHANGED items
  /\ UNCHANGED <<fileVars, mode, size, seen, carry, pending, number>>

(* readTextFile: one byte more than the size is asked for.                 *)
ReadDocument ==
  /\ phase = "reading" /\ mode = "document"
  /\ Len(seen) <= size
  /\ \E bytes \in Available(size + 1 - Len(seen)) : seen' = seen \o bytes
  /\ UNCHANGED <<fileVars, mode, phase, descriptor, size, carry, pending, number, items, suspended>>

(* Slip: what the file has grown by is left out. *)
FinishDocumentAsOpened ==
  /\ phase = "reading" /\ mode = "document"
  /\ Len(seen) > size \/ Len(seen) >= Len(file)
  /\ LET st == Decode(<< >>, FALSE, IF Len(seen) > size THEN Front(seen) ELSE seen)
         text == Flush(st.text, st.carry)
     IN IF Judge(text) # "event" THEN Finish(<<Failure(Judge(text))>>)
        ELSE HandOver(Event(0, text), "drained") /\ descriptor' = "closed"
  /\ UNCHANGED <<fileVars, mode, size, seen, carry, pending, number>>

(* The buffer is full or the file has ended.  A document is judged whole;  *)
(* one that is an array yields all its events or none, here as one.        *)
FinishDocument ==
  /\ phase = "reading" /\ mode = "document"
  /\ Len(seen) > size \/ Len(seen) >= Len(file)
  /\ LET st == Decode(<< >>, FALSE, seen)
         text == Flush(st.text, st.carry)
     IN IF Len(seen) > size THEN Finish(<<Failure("changed")>>)
        ELSE IF Judge(text) # "event" THEN Finish(<<Failure(Judge(text))>>)
        ELSE HandOver(Event(0, text), "drained") /\ descriptor' = "closed"
  /\ UNCHANGED <<fileVars, mode, size, seen, carry, pending, number>>

Proceed ==
  \/ Open
  \/ ReadChunk \/ SplitLine \/ KeepRest \/ EndOfFile \/ LastLine \/ Drain
  \/ ReadDocument \/ FinishDocument

Next == Proceed \/ OpenFails \/ ReadFails \/ Abandon \/ Write \/ Truncate

Spec == Init /\ [][Next]_vars

(* The reader is a synchronous loop: it runs whenever it has a step.  That *)
(* a read fails is never relied on.                                        *)
FairSpec == Spec /\ WF_vars(Proceed)

-----------------------------------------------------------------------------
(***************************************************************************)
(* Properties.                                                             *)
(***************************************************************************)
(* A text holds characters and no byte of a broken encoding. *)
Characters == (Alphabet \ {Lead, Trail}) \cup {Wide, Replacement}
Texts == Seq(Characters)

TypeOK ==
  /\ file \in Seq(Alphabet) /\ seen \in Seq(Alphabet) /\ pending \in Texts
  /\ carry \in BOOLEAN /\ suspended \in BOOLEAN
  /\ mode \in {"lines", "limited", "document"}
  /\ phase \in {"closed", "reading", "splitting", "tail", "drained", "done", "left"}
  /\ descriptor \in {"none", "open", "closed"}
  /\ size \in Nat /\ number \in Nat

(* A failure is the last thing a stream yields. *)
Failed == items # << >> /\ Last(items).kind = "failure"
Events == IF Failed THEN Front(items) ELSE items
Failures == IF Failed THEN {Last(items).why} ELSE {}

(* What a reader with unlimited memory makes of the bytes: the whole text  *)
(* decoded at once, split at its newlines, judged line by line up to the   *)
(* first line that is no event.                                            *)
WholeOf(bytes) == LET st == Decode(<< >>, FALSE, bytes) IN Flush(st.text, st.carry)

WholeText == WholeOf(seen)

LinesOf(text) ==
  LET lines[n \in 0 .. Len(text)] ==
        IF n = 0 THEN << << >> >>
        ELSE IF text[n] = Newline THEN Append(lines[n - 1], << >>)
        ELSE [lines[n - 1] EXCEPT ![Len(lines[n - 1])] = Append(@, text[n])]
  IN lines[Len(text)]

Fatal(text) == TooLong(text) \/ (Trim(text) # << >> /\ Judge(text) # "event")

EventsOf(lines) ==
  LET upTo[n \in 0 .. Len(lines)] ==
        IF n = 0 THEN << >>
        ELSE IF Trim(lines[n]) = << >> \/ \E m \in 1 .. n : Fatal(lines[m]) THEN upTo[n - 1]
        ELSE Append(upTo[n - 1], Event(n, lines[n]))
  IN upTo[Len(lines)]

Reference == EventsOf(LinesOf(WholeText))

ReferenceFails == \E n \in DOMAIN LinesOf(WholeText) : Fatal(LinesOf(WholeText)[n])

(* The characters of the events that are kept. *)
Kept(events) ==
  LET kept[n \in 0 .. Len(events)] ==
        IF n = 0 THEN 0 ELSE kept[n - 1] + Len(events[n].text)
  IN kept[Len(events)]

(* Chunking leaves no trace (readLines, streamFile): at every moment the   *)
(* events yielded are the first events of what was read, under their line  *)
(* numbers; a stream that ran to its end, or to a line that is no event,   *)
(* yielded them all, and failed exactly if there is such a line.           *)
EventsAreTheLines ==
  mode # "document" =>
    /\ IsPrefix(Events, Reference)
    /\ phase \in {"drained", "done"} /\ Failures \cap {"unreadable", "too-large", "grew"} = {}
         => Events = Reference /\ (ReferenceFails <=> Failures # {})

(* The reader holds one chunk and one line of at most MaxLine bytes.  Where *)
(* events are kept, all that is kept fits MaxDocument, even of a file that *)
(* grew after its size was taken.                                          *)
HeldIsBounded ==
  /\ Len(pending) <= MaxLine + ChunkBytes + 1
  /\ mode # "lines" => Kept(Events) <= MaxDocument

(* A line that has ended can no longer change; a document can, until it    *)
(* has been read.                                                          *)
SettledIn(how, bytes) ==
  IF how = "document" THEN << >> ELSE EventsOf(Front(LinesOf(WholeOf(bytes))))

AllIn(how, bytes) ==
  IF how # "document" THEN EventsOf(LinesOf(WholeOf(bytes)))
  ELSE IF Judge(WholeOf(bytes)) = "event" THEN <<Event(0, WholeOf(bytes))>> ELSE << >>

Ended ==
  CASE phase = "left" -> "left"
    [] phase \in {"drained", "done"} ->
         IF Failures \cap {"unreadable", "too-large", "grew", "changed"} # {} THEN "broken"
         ELSE IF phase = "drained" /\ Failures = {} THEN "last" ELSE "whole"
    [] OTHER -> "no"

Stream == INSTANCE EventStream WITH
  Settled <- SettledIn, Whole <- AllIn,
  format <- mode, read <- seen, yielded <- Events, ended <- Ended

(* "Streams every event in every input path" (sources.ts:482), one at a    *)
(* time: an event is yielded when its line has ended, in the order of the  *)
(* lines and never taken back, whatever is appended to the file or cut     *)
(* off; nothing follows the end; and only a failure to read, or the        *)
(* consumer, keeps an event from being yielded.                            *)
ImplementsStream == Stream!Spec

(* Every stream ends and gives its descriptor back, whichever way it is    *)
(* left and whatever happens to the file meanwhile.                        *)
StreamEnds == <>(phase \in {"done", "left"} /\ descriptor # "open")
=============================================================================
