------------------------------ MODULE Transforms -------------------------------
(***************************************************************************)
(* Streams over streams: what is written is handed through a function, and *)
(* read back through the inverse one.                                      *)
(***************************************************************************)
EXTENDS Integers, Sequences, SequencesExt

(***************************************************************************)
(* otransform (fast_io_freestanding_impl/transformers/otransform.h): an    *)
(* output stream that hands its block to a function, which writes what it  *)
(* makes of it to the stream below and may leave a rest.  The functions    *)
(* are binary_to_text (text.h), which puts '\r' before '\n' and leaves     *)
(* nothing, and block_processor (block_processor.h) over a block_cipher,   *)
(* which works in place on whole blocks, leaves the rest, and ends with a  *)
(* padded block (flush_proxy).                                             *)
(*                                                                         *)
(* A character is named by its place in the text that clients give; [n]    *)
(* carries the calls of the cipher it went through, so that a character    *)
(* handed over twice, lost, or enciphered twice shows.                     *)
(***************************************************************************)

CONSTANTS
    Obj,       \* the otransform objects; each is built over a stream of its own
    Kinds,     \* the functions: "text", "cipher"
    BufferSize,\* buffer_size
    BlockSize, \* block_size of the cipher
    Texts,     \* bound: the texts that are given, as sequences over Character
    MaxWrite,  \* bound: the longest write
    MaxTrouble,\* bound: flushes and exceptions, together
    BelowThrows\* the stream below may throw

Character == {"x", "cr", "nl"}

ASSUME ObjAssumption == Obj \subseteq Nat \ {0}
ASSUME BufferAssumption == BufferSize \in Nat \ {0} /\ BlockSize \in 1 .. BufferSize
ASSUME TextsAssumption == Texts \subseteq Seq(Character)
ASSUME BoundsAssumption == MaxWrite \in Nat /\ MaxTrouble \in Nat
ASSUME KindsAssumption == Kinds \subseteq {"text", "cipher"}

VARIABLES
    kind,      \* the function
    text,      \* what the clients have to give to each stream
    life,      \* "unborn", "live", "moved", "dead" or "wild"
    buf,       \* the characters before position
    under,     \* the stream that each object holds
    rest,      \* what is left of a write in progress
    out,       \* what each stream below got
    calls,     \* how often the cipher over it was called
    given,     \* history: how much of its text was given
    again,     \* history: characters were handed over and kept
    lost,      \* history: characters were dropped
    trouble    \* history: flushes and exceptions so far

object == <<life, buf, under, rest>>
stream == <<out, calls, given, again, lost>>
transformVars == <<kind, text, object, stream, trouble>>

TransformInit ==
    /\ kind \in Kinds
    /\ text \in [Obj -> Texts]
    /\ life = [o \in Obj |-> "unborn"]
    /\ buf = [o \in Obj |-> <<>>]
    /\ under = [o \in Obj |-> o]
    /\ rest = [o \in Obj |-> 0]
    /\ out = [d \in Obj |-> <<>>]
    /\ calls = [d \in Obj |-> 0]
    /\ given = [d \in Obj |-> 0]
    /\ again = [d \in Obj |-> FALSE]
    /\ lost = [d \in Obj |-> FALSE]
    /\ trouble = 0

Named(i) == [id |-> i, n |-> <<>>]
Cr == Named(0)
Pad == Named(-1)
IdRange(i, j) == [k \in 1 .. (j - i + 1) |-> Named(i + k - 1)]

\* Calls are made one after the other, on defined states.
AtRest == \A o \in Obj : rest[o] = 0 /\ life[o] # "wild"
Live(o) == life[o] = "live" /\ AtRest
(***************************************************************************)
(* The functions.  A call with the block s makes something for the stream  *)
(* below (made), leaves the block as it then is (block) and did not take   *)
(* its last characters (kept).                                             *)
(***************************************************************************)

Result(made, block, kept, n, fate) ==
    [made |-> made, block |-> block, kept |-> kept, calls |-> n, fate |-> fate]

\* binary_to_text::write_proxy
AsText(d, s) ==
    FlattenSeq([i \in DOMAIN s |->
        IF text[d][s[i].id] = "nl" THEN <<Cr, s[i]>> ELSE <<s[i]>>])

\* The cipher goes over s in place; m is the number of its next call.
Enciphered(s, m) ==
    [i \in DOMAIN s |-> [s[i] EXCEPT !.n = Append(@, m + (i - 1) \div BlockSize)]]

\* A bug: a part of a block is taken too.
PartsToo(d, s) ==
    LET done == Enciphered(s, calls[d])
    IN  Result(done, done, 0, (Len(s) + BlockSize - 1) \div BlockSize, "ok")

\* block_processor::write_proxy takes whole blocks.
WholeBlocks(d, s) ==
    LET whole == (Len(s) \div BlockSize) * BlockSize
        done == Enciphered(SubSeq(s, 1, whole), calls[d])
    IN  Result(done, done \o SubSeq(s, whole + 1, Len(s)),
               Len(s) - whole, whole \div BlockSize, "ok")

\* block_processor::flush_proxy: then block_cipher::digest has pkcs7_padding
\* fill the rest to a block, which is enciphered too.  Without a rest that
\* padding does not end: its index is unsigned and counts down to
\* block_size - remaining_length, which is zero.
FlushProxy(d, s) ==
    LET f == WholeBlocks(d, s)
        tail == SubSeq(s, Len(s) - f.kept + 1, Len(s))
        padded == tail \o [i \in 1 .. (BlockSize - f.kept) |-> Pad]
    IN  IF f.kept = 0 THEN [f EXCEPT !.fate = "wild"]
        ELSE Result(f.made \o Enciphered(padded, calls[d] + f.calls),
                    f.block, 0, f.calls + 1, "ok")

\* The stream below throws: of a text some pieces may have been written; the
\* cipher has gone over the block, and nothing was written.
Thrown(d, s) ==
    IF kind = "text"
    THEN {Result(SubSeq(AsText(d, s), 1, k), s, 0, 0, "throws") :
             k \in 0 .. Len(AsText(d, s))}
    ELSE {[WholeBlocks(d, s) EXCEPT !.made = <<>>, !.fate = "throws"]}

Results(d, s, final) ==
    {IF kind = "text" THEN Result(AsText(d, s), s, 0, 0, "ok")
     ELSE IF final THEN FlushProxy(d, s) ELSE WholeBlocks(d, s)}
    \cup IF BelowThrows /\ trouble < MaxTrouble THEN Thrown(d, s) ELSE {}

Troubled(r) == IF r.fate = "throws" THEN trouble + 1 ELSE trouble

\* What r does to the stream below.
Goes(d, r) ==
    /\ out' = [out EXCEPT ![d] = @ \o r.made]
    /\ calls' = [calls EXCEPT ![d] = @ + r.calls]
(***************************************************************************)
(* Construction and writing.                                               *)
(***************************************************************************)

Build(o) ==
    /\ AtRest /\ life[o] = "unborn" /\ \A e \in Obj : e < o => life[e] # "unborn"
    /\ life' = [life EXCEPT ![o] = "live"]
    /\ UNCHANGED <<kind, text, buf, under, rest, stream, trouble>>

\* k more characters of the text go into the block.
Copied(o, k) ==
    LET d == under[o] IN buf[o] \o IdRange(given[d] + 1, given[d] + k)

Has(o, k) == given[under[o]] + k <= Len(text[under[o]])

\* write: what fits with room to spare is copied.
Write(o, k) ==
    /\ Live(o) /\ Has(o, k)
    /\ IF Len(buf[o]) + k < BufferSize
       THEN /\ buf' = [buf EXCEPT ![o] = Copied(o, k)]
            /\ given' = [given EXCEPT ![under[o]] = @ + k]
            /\ UNCHANGED rest
       ELSE rest' = [rest EXCEPT ![o] = k] /\ UNCHANGED <<buf, given>>
    /\ UNCHANGED <<kind, text, life, under, out, calls, again, lost, trouble>>

\* A bug: the block starts afresh, as if the function took all of it.
RestDropped(s, r) == IF r.fate = "throws" THEN r.block ELSE <<>>

\* The block after the function: its rest at the front, or all of it.
Rest(s, r) ==
    IF r.fate = "throws" THEN r.block
    ELSE SubSeq(s, Len(s) - r.kept + 1, Len(s))

\* One turn of otransform_write: the block is filled, and handed over when it
\* is full; what threw ends the call.
Turn(o) ==
    LET d == under[o]
        room == BufferSize - Len(buf[o])
        l == IF rest[o] < room THEN rest[o] ELSE room
        s == Copied(o, l)
    IN  /\ rest[o] > 0
        /\ given' = [given EXCEPT ![d] = @ + l]
        /\ \/ /\ Len(s) < BufferSize
              /\ buf' = [buf EXCEPT ![o] = s]
              /\ rest' = [rest EXCEPT ![o] = 0]
              /\ UNCHANGED <<out, calls, again, trouble>>
           \/ /\ Len(s) = BufferSize
              /\ \E r \in Results(d, s, FALSE) :
                  /\ Goes(d, r)
                  /\ buf' = [buf EXCEPT ![o] = Rest(s, r)]
                  /\ rest' = [rest EXCEPT ![o] = IF r.fate = "throws" THEN 0 ELSE @ - l]
                  /\ again' = [again EXCEPT ![d] = @ \/ r.fate = "throws"]
                  /\ trouble' = Troubled(r)
        /\ UNCHANGED <<kind, text, life, under, lost>>

\* put: a character, after overflow when the block is full, which ignores how
\* much the function took.
Put(o) ==
    LET d == under[o] s == buf[o]
    IN  /\ Live(o) /\ Has(o, 1)
        /\ \/ /\ Len(s) < BufferSize
              /\ buf' = [buf EXCEPT ![o] = Copied(o, 1)]
              /\ given' = [given EXCEPT ![d] = @ + 1]
              /\ UNCHANGED <<out, calls, again, lost, trouble>>
           \/ /\ Len(s) = BufferSize
              /\ \E r \in Results(d, s, FALSE) :
                  /\ Goes(d, r)
                  /\ trouble' = Troubled(r)
                  /\ IF r.fate = "throws"
                     THEN /\ buf' = [buf EXCEPT ![o] = r.block]
                          /\ again' = [again EXCEPT ![d] = TRUE]
                          /\ UNCHANGED <<given, lost>>
                     ELSE /\ buf' = [buf EXCEPT ![o] =
                                        IdRange(given[d] + 1, given[d] + 1)]
                          /\ given' = [given EXCEPT ![d] = @ + 1]
                          /\ lost' = [lost EXCEPT ![d] = @ \/ r.kept > 0]
                          /\ UNCHANGED again
        /\ UNCHANGED <<kind, text, life, under, rest>>
(***************************************************************************)
(* flush, moves and the destructor.                                        *)
(***************************************************************************)

\* flush: position stays where it is.
Flush(o) ==
    LET d == under[o]
    IN  /\ Live(o) /\ trouble < MaxTrouble
        /\ \E r \in Results(d, buf[o], TRUE) :
            /\ Goes(d, r)
            /\ buf' = [buf EXCEPT ![o] = r.block]
            /\ life' = [life EXCEPT ![o] = IF r.fate = "wild" THEN "wild" ELSE @]
        /\ again' = [again EXCEPT ![d] = @ \/ kind = "cipher" \/ buf[o] # <<>>]
        /\ trouble' = trouble + 1
        /\ UNCHANGED <<kind, text, under, rest, given, lost>>

\* close: nothing after a move, else what flush does; exceptions are caught,
\* and what was pending is gone with them.
Close(o, next) ==
    LET d == under[o]
    IN  \/ /\ life[o] = "moved"
           /\ life' = next
           /\ UNCHANGED <<out, calls, lost, trouble>>
        \/ /\ life[o] = "live"
           /\ \E r \in Results(d, buf[o], TRUE) :
               /\ Goes(d, r)
               /\ lost' = [lost EXCEPT ![d] = @ \/ r.fate = "throws"]
               /\ life' = IF r.fate = "wild" THEN [life EXCEPT ![o] = "wild"] ELSE next
               /\ trouble' = Troubled(r)

Destroy(o) ==
    /\ AtRest
    /\ Close(o, [life EXCEPT ![o] = "dead"])
    /\ buf' = [buf EXCEPT ![o] = <<>>]
    /\ UNCHANGED <<kind, text, under, rest, given, again>>

\* A bug: the source keeps its position.
LeaveSourceLive(r) == "live"

\* other.position=-1
LeaveSource(r) == "moved"

\* o was built from, or takes, what r holds; the block of r stays as it is.
Takes(o, r) ==
    /\ buf' = [buf EXCEPT ![o] = buf[r]]
    /\ under' = [under EXCEPT ![o] = under[r]]

MoveConstruct(o, r) ==
    /\ AtRest /\ life[o] = "unborn" /\ life[r] \in {"live", "moved"}
    /\ life' = [life EXCEPT ![o] = life[r], ![r] = LeaveSource(r)]
    /\ Takes(o, r)
    /\ UNCHANGED <<kind, text, rest, stream, trouble>>

MoveAssign(o, r) ==
    /\ AtRest /\ o # r /\ life[r] \in {"live", "moved"}
    /\ Close(o, [life EXCEPT ![o] = life[r], ![r] = LeaveSource(r)])
    /\ IF life'[o] = "wild" THEN UNCHANGED <<buf, under>> ELSE Takes(o, r)
    /\ UNCHANGED <<kind, text, rest, given, again>>

TransformNext ==
    \E o \in Obj :
        \/ Build(o) \/ Turn(o) \/ Put(o) \/ Flush(o) \/ Destroy(o)
        \/ \E k \in 1 .. MaxWrite : Write(o, k)
        \/ \E r \in Obj : MoveConstruct(o, r) \/ MoveAssign(o, r)
-------------------------------------------------------------------------------

TransformOK ==
    /\ life \in [Obj -> {"unborn", "live", "moved", "dead", "wild"}]
    /\ \A o \in Obj : Len(buf[o]) <= BufferSize /\ under[o] \in Obj
    /\ \A d \in Obj : given[d] <= Len(text[d])
    /\ \A o, r \in Obj :
          o # r /\ life[o] = "live" /\ life[r] = "live" => under[o] # under[r]

Holder(d) == {o \in Obj : life[o] = "live" /\ under[o] = d}
Pending(d) == IF Holder(d) = {} THEN <<>> ELSE buf[CHOOSE o \in Holder(d) : TRUE]

\* What should be below for the first k characters of the text of d.
AsGiven(d, k) ==
    IF kind = "text" THEN AsText(d, IdRange(1, k)) ELSE Enciphered(IdRange(1, k), 0)

\* Without a flush and without an exception the stream below has the whole
\* text given so far but for what is pending in the block, in order and once:
\* neither a write over several blocks, the rest a function leaves, a move nor
\* the destructor repeats or drops a character, or has the cipher go over it
\* twice or out of turn.  A finished cipher stream ends with one padded block.
HandedOnce ==
    \A d \in Obj :
        life[d] # "unborn" /\ (\A o \in Obj : life[o] # "wild") /\ ~again[d] /\ ~lost[d]
        => LET told == AsGiven(d, given[d] - Len(Pending(d)))
           IN  /\ Pending(d) = IdRange(given[d] - Len(Pending(d)) + 1, given[d])
               /\ IF kind = "cipher" /\ Holder(d) = {} /\ given[d] > 0
                  THEN /\ IsPrefix(told, out[d]) /\ Len(out[d]) % BlockSize = 0
                       /\ Len(out[d]) - given[d] \in 1 .. BlockSize
                  ELSE out[d] = told

\* A flush or an exception repeats characters and never drops any: what was
\* given is in the block or below, until close swallows an exception, or
\* overflow a rest, which takes a block_size that buffer_size is no multiple of.
NothingLost ==
    \A d \in Obj :
        /\ life[d] # "unborn" /\ (\A o \in Obj : life[o] # "wild") /\ ~lost[d] =>
              \A i \in 1 .. given[d] :
                  \E e \in ToSet(out[d] \o Pending(d)) : e.id = i
        /\ lost[d] => trouble > 0 \/ (kind = "cipher" /\ BufferSize % BlockSize # 0)

\* The padding of a cipher stream runs wild only when it was flushed or closed
\* with a text that ends at a block boundary: a text of another length that is
\* given in any pieces, through any moves, ends well.
WildOnlyAligned ==
    \A o \in Obj : life[o] = "wild" =>
        kind = "cipher" /\ (given[under[o]] % BlockSize = 0 \/ lost[under[o]])

(***************************************************************************)
(* itransform (transformers/itransform.h) with text_to_binary (text.h)     *)
(* behind an otransform with binary_to_text: once the output streams are   *)
(* finished, a reader takes the text of one of them back, through read and *)
(* through underflow, and should get what the clients gave.                *)
(***************************************************************************)

CONSTANTS
    InSize,    \* buffer_size of the itransform
    MaxRead    \* bound: the longest read

ASSUME InSizeAssumption == InSize \in Nat \ {0} /\ MaxRead \in Nat

VARIABLES
    from,      \* the stream that is read, 0 before
    consumed,  \* how much of it the function took
    block,     \* the block of the itransform up to position_end
    position,  \* how much of it was read
    returned,  \* what the reader got
    ended      \* the reader was told that the stream is at its end

reader == <<from, consumed, block, position, returned, ended>>
pipeVars == <<transformVars, reader>>

PipeInit ==
    TransformInit /\ from = 0 /\ consumed = 0 /\ block = <<>> /\ position = 0 /\ returned = <<>>
         /\ ended = FALSE

CharOf(e) == IF e.id = 0 THEN "cr" ELSE text[from][e.id]

\* A bug: a '\r' in the last place does not look at what follows.
ReadProxyShort(m) ==
    LET f[i \in 1 .. Len(m) + 2, room \in 0 .. InSize] ==
            IF i > Len(m) \/ room = 0 THEN [chars |-> <<>>, next |-> i]
            ELSE LET pair == room > 1 /\ CharOf(m[i]) = "cr" /\ i < Len(m)
                             /\ CharOf(m[i + 1]) = "nl"
                     more == IF pair THEN f[i + 2, room - 1] ELSE f[i + 1, room - 1]
                 IN  [more EXCEPT !.chars =
                        <<IF pair THEN m[i + 1] ELSE m[i]>> \o @]
    IN  f[consumed + 1, InSize]

\* text_to_binary::read_proxy over the rest of the stream m: "\r\n" becomes
\* '\n'; after another '\r' the character that follows is taken as it is, when
\* there is room for it.
ReadProxy(m) ==
    LET f[room \in 0 .. InSize] == [i \in 1 .. Len(m) + 2 |->
            IF i > Len(m) \/ room = 0 THEN [chars |-> <<>>, next |-> i]
            ELSE IF CharOf(m[i]) # "cr" \/ i = Len(m) \/ (room = 1 /\ CharOf(m[i + 1]) # "nl")
            THEN LET more == f[IF CharOf(m[i]) = "cr" THEN 0 ELSE room - 1][i + 1]
                 IN  [more EXCEPT !.chars = <<m[i]>> \o @]
            ELSE IF CharOf(m[i + 1]) = "nl"
            THEN [f[room - 1][i + 2] EXCEPT !.chars = <<m[i + 1]>> \o @]
            ELSE [f[room - 2][i + 2] EXCEPT !.chars = <<m[i], m[i + 1]>> \o @]]
    IN  f[InSize][consumed + 1]

Open(d) ==
    /\ from = 0 /\ kind = "text"
    /\ life[d] # "unborn" /\ \A o \in Obj : life[o] \in {"unborn", "moved", "dead"}
    /\ from' = d
    /\ UNCHANGED <<transformVars, consumed, block, position, returned, ended>>

Least(i, j) == IF i < j THEN i ELSE j

\* read: the rest of the block, then the block is filled once, also when the
\* request was met with its last character.
ReadBack(k) ==
    LET first == SubSeq(block, position + 1, position + Least(k, Len(block) - position))
        fill == ReadProxy(out[from])
        second == SubSeq(fill.chars, 1, Least(k - Len(first), Len(fill.chars)))
    IN  /\ from # 0
        /\ \/ /\ position + Len(first) < Len(block)
              /\ position' = position + Len(first)
              /\ returned' = returned \o first
              /\ UNCHANGED <<consumed, block, ended>>
           \/ /\ position + Len(first) = Len(block)
              /\ block' = fill.chars /\ consumed' = fill.next - 1
              /\ position' = Len(second)
              /\ returned' = returned \o first \o second
              /\ ended' = (k > 0 /\ first \o second = <<>>)
        /\ UNCHANGED <<transformVars, from>>

\* An iterator that is at the end of the block calls underflow.
Underflow ==
    LET fill == ReadProxy(out[from])
    IN  /\ from # 0 /\ position = Len(block)
        /\ block' = fill.chars /\ consumed' = fill.next - 1
        /\ position' = 0
        /\ ended' = (fill.chars = <<>>)
        /\ UNCHANGED <<transformVars, from, returned>>

PipeNext ==
    \/ from = 0 /\ TransformNext /\ UNCHANGED reader
    \/ \E d \in Obj : Open(d)
    \/ \E k \in 1 .. MaxRead : ReadBack(k)
    \/ Underflow

PipeSpec == PipeInit /\ [][PipeNext]_pipeVars
-------------------------------------------------------------------------------

\* A text in which no '\r' stands before a '\n', and that was written without a
\* flush or an exception, comes back as it was given, whichever way the
\* "\r\n" lie over the blocks of either side, and its end is only told when
\* all of it was read.
RoundTrip ==
    from # 0 /\ ~again[from] /\ ~lost[from]
             /\ (\A i \in 1 .. Len(text[from]) - 1 :
                    ~(text[from][i] = "cr" /\ text[from][i + 1] = "nl"))
    => /\ IsPrefix(returned, IdRange(1, given[from]))
       /\ ended => returned = IdRange(1, given[from])

\* Each character of a stream that nothing disturbed is below once and as the
\* function makes it, with no two objects over the same stream.
EachOnce == TransformOK /\ HandedOnce

\* A flush or an exception loses nothing, and only a cipher stream that ends at a
\* block boundary runs wild.
NothingDropped == NothingLost /\ WildOnlyAligned
================================================================================
