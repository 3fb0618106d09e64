----------------------------- MODULE Admission ------------------------------
(***************************************************************************)
(* What the receiver makes of a request before it opens a file: the header *)
(* checks of receive_transfer (rust/filedrop-core/src/transfer/server.rs), *)
(* sanitize_filename and safe_join (security/filename.rs, path.rs), and    *)
(* the headers send_file sets (transfer/client.rs).  Receiver goes on from *)
(* there: its FileName and its offsets are what this module admits.        *)
(*                                                                         *)
(* A name is a sequence of characters, one of each class the code tells    *)
(* apart; a Windows device name counts as one character, in either case.   *)
(* A header cannot carry NUL or another control character but a tab, which *)
(* fares as the forbidden characters do.                                   *)
(***************************************************************************)
EXTENDS Integers, SequencesExt

CONSTANTS
    MaxLen,     \* MAX_FILENAME_LEN
    MaxU64,     \* bound: the largest u64
    Peers,      \* requests any peer may send, as header records
    Sends,      \* calls of send_file: the file's name and size, and where to resume
    None        \* an absent header, a numeral that is none, a verdict not given

Separators == {"/", "\\"}
Dot == "."
Blank == " "
Forbidden == "*"    \* < > : " | ? * and tab
Device == "CON"     \* WINDOWS_RESERVED, whatever its case
Wide == "wide"      \* not visible ASCII
Chars == Separators \cup {Dot, Blank, Forbidden, Device, Wide, "x"}

\* The characters of a path: a header's, and what the receiver adds itself.
Letters == Chars \cup {"_", "unnamed_file", "received"}

RangeHeader ==
    LET Numeral == Int \cup {None}
    IN  [unit : {"bytes", "items"}, start : Numeral, end : Numeral, of : Numeral]

ASSUME AdmissionAssumption ==
    /\ MaxLen \in Nat \ {0}
    /\ MaxU64 \in Nat
    /\ Peers \subseteq [name : Seq(Chars) \cup {None}, total : Int \cup {None},
                        range : RangeHeader \cup {None}]
    /\ Sends \subseteq [name : Seq(Chars), size : 0..MaxU64, resume : 0..MaxU64]
    /\ None \notin Seq(Letters) \cup Seq(Seq(Letters)) \cup RangeHeader

VARIABLES
    call,       \* the call of send_file that made the request; None: another peer's
    headers,    \* the request's headers
    verdict     \* what the handler decided

vars == <<call, headers, verdict>>

Start(s, from) == SubSeq(s, from, Len(s))

\* s without the characters of C at its two ends.
Trim(s, C) ==
    LET kept == {i \in 1..Len(s) : s[i] \notin C}
    IN  IF kept = {} THEN <<>> ELSE SubSeq(s, Min(kept), Max(kept))

\* The k-th of a set of positions, and s at such positions in their order.
Nth(S, k) == CHOOSE i \in S : Cardinality({j \in S : j < i}) = k - 1

At(s, positions) == [k \in 1..Cardinality(positions) |-> s[Nth(positions, k)]]

-----------------------------------------------------------------------------
(* sanitize_filename.                                                      *)

\* Mutant of Stripped: only the slash separates.
StrippedSlashOnly(name) == Start(name, SelectLastInSeq(name, LAMBDA c : c = "/") + 1)

\* What follows the last separator.
Stripped(name) == Start(name, SelectLastInSeq(name, LAMBDA c : c \in Separators) + 1)

Trimmed(name) ==
    LET base == Stripped(name)
    IN  Trim(At(base, {i \in 1..Len(base) : base[i] # Forbidden}), {Dot, Blank})

Stem(name) ==
    LET dot == SelectInSeq(name, LAMBDA c : c = Dot)
    IN  IF dot = 0 THEN name ELSE SubSeq(name, 1, dot - 1)

\* Mutant of Usable: the whole name is compared, not its stem.
UsableExactly(name) ==
    LET base == IF name = <<>> THEN <<"unnamed_file">> ELSE name
    IN  IF base = <<Device>> THEN <<"_">> \o base ELSE base

\* A fallback for nothing, an underscore before a device name.
Usable(name) ==
    LET base == IF name = <<>> THEN <<"unnamed_file">> ELSE name
    IN  IF Stem(base) = <<Device>> THEN <<"_">> \o base ELSE base

Extension(name) ==
    LET dot == SelectLastInSeq(name, LAMBDA c : c = Dot)
    IN  IF dot > 1 THEN Start(name, dot) ELSE <<>>

\* The stem gives way: saturating_sub, then truncate.
Cut(name) ==
    IF Len(name) <= MaxLen THEN name
    ELSE LET ext == Extension(name)
             keep == Max({0, MaxLen - Len(ext)})
             stem == SubSeq(name, 1, Len(name) - Len(ext))
         IN  SubSeq(stem, 1, Min({keep, Len(stem)})) \o ext

SanitizeFilename(name) == Cut(Usable(Trimmed(name)))

-----------------------------------------------------------------------------
(* safe_join.                                                              *)

\* From position i up to the next separator.
Component(s, i) ==
    SubSeq(s, i, Min({j \in i..(Len(s) + 1) : j = Len(s) + 1 \/ s[j] \in Separators}) - 1)

\* Path::components after the separators were made one: a leading separator is
\* the root, and empty components and, but for a leading one, dots are skipped.
Components(s) ==
    LET begins == {i \in 1..Len(s) : /\ s[i] \notin Separators
                                     /\ i = 1 \/ s[i - 1] \in Separators
                                     /\ Component(s, i) # <<Dot>>}
    IN  [k \in 1..Cardinality(begins) |-> Component(s, Nth(begins, k))]

Rooted(s) == s # <<>> /\ s[1] \in Separators

\* Mutant of SafeJoin: parent directories are joined like the rest.
SafeJoinParents(base, s) ==
    IF Rooted(s) \/ Components(s) = <<>> \/ \A i \in 1..Len(s) : s[i] = Blank
    THEN None ELSE base \o Components(s)

\* The joined path, or None for Err: an empty or blank name, one that resolves
\* to nothing, an absolute path, a parent directory.
SafeJoin(base, s) ==
    IF \/ Rooted(s) \/ Components(s) = <<>>
       \/ \A i \in 1..Len(s) : s[i] = Blank
       \/ Contains(Components(s), <<Dot, Dot>>)
    THEN None ELSE base \o Components(s)

-----------------------------------------------------------------------------
(* The two sides of a request.                                             *)

\* HTTP drops the blanks around a header's value.
OnTheWire(name) == Trim(name, {Blank})

\* The headers of send_file.
HeadersOf(send) ==
    [name |-> OnTheWire(send.name), total |-> send.size,
     range |-> IF send.resume = 0 THEN None
               ELSE [unit |-> "bytes", start |-> send.resume,
                     end |-> Max({0, send.size - 1}), of |-> send.size]]

\* to_str: visible ASCII or nothing.
Readable(name) == name # None /\ ~Contains(name, Wide)

\* str::parse::<u64>.
Parses(numeral) == numeral \in 0..MaxU64

\* Mutant of ResumeOffset: the number after the dash.
ResumeOffsetEnd(range) ==
    IF range = None THEN 0
    ELSE IF range.unit = "bytes" /\ Parses(range.start) THEN range.end ELSE 0

\* parse_resume_offset(..).unwrap_or(0): what it cannot read starts a new upload.
ResumeOffset(range) ==
    IF range = None THEN 0
    ELSE IF range.unit = "bytes" /\ Parses(range.start) THEN range.start ELSE 0

Received == <<<<"received">>>>

Refused(why) == [admitted |-> FALSE, why |-> why]

Init ==
    /\ \/ \E h \in Peers : headers = [h EXCEPT !.name = IF @ = None THEN @ ELSE OnTheWire(@)] /\ call = None
       \/ \E s \in Sends : headers = HeadersOf(s) /\ call = s
    /\ verdict = None

\* Missing, or not ASCII: 400.
RefuseName ==
    /\ verdict = None
    /\ ~Readable(headers.name)
    /\ verdict' = Refused("filename")
    /\ UNCHANGED <<call, headers>>

\* Missing, or no u64: 400.
RefuseSize ==
    /\ verdict = None
    /\ Readable(headers.name)
    /\ ~Parses(headers.total)
    /\ verdict' = Refused("total")
    /\ UNCHANGED <<call, headers>>

\* The name is sanitized, joined, and the offset parsed; 400 if the join fails.
Decide ==
    /\ verdict = None
    /\ Readable(headers.name)
    /\ Parses(headers.total)
    /\ LET path == SafeJoin(Received, SanitizeFilename(headers.name))
       IN  verdict' = IF path = None THEN Refused("path")
                      ELSE [admitted |-> TRUE, path |-> path, total |-> headers.total,
                            offset |-> ResumeOffset(headers.range)]
    /\ UNCHANGED <<call, headers>>

Next == RefuseName \/ RefuseSize \/ Decide

Spec == Init /\ [][Next]_vars

-----------------------------------------------------------------------------
(* Properties.                                                             *)

Admitted == verdict # None /\ verdict.admitted

FinalName == Last(verdict.path)

\* One path component, neither this directory nor the one above.
Plain(c) ==
    c \notin {<<>>, <<Dot>>, <<Dot, Dot>>} /\ \A i \in 1..Len(c) : c[i] \notin Separators

\* Whatever name a peer announces, the file goes directly into the
\* received-files directory: the sanitizer leaves one component that safe_join
\* accepts, also after the cut, so no upload is refused for the name's shape
\* (filename.rs:22-62, path.rs:14-62, server.rs:125-134).
AlwaysDirectlyReceived ==
    /\ verdict # None /\ ~verdict.admitted => verdict.why # "path"
    /\ Admitted => verdict.path = Received \o <<FinalName>> /\ Plain(FinalName)

\* A received name is within the limit, unless its extension alone is not;
\* one that was not cut is fit for every file system and, sent on by its
\* receiver, keeps: sanitizing is idempotent (filename.rs:12-62).
NameKeeps ==
    Admitted =>
        /\ Len(FinalName) <= Max({MaxLen, Len(Extension(Usable(Trimmed(headers.name))))})
        /\ Len(Usable(Trimmed(headers.name))) <= MaxLen =>
              /\ Stem(FinalName) # <<Device>>
              /\ {FinalName[1], Last(FinalName)} \cap {Dot, Blank} = {}
              /\ ~Contains(FinalName, Forbidden)
              /\ SanitizeFilename(OnTheWire(FinalName)) = FinalName

\* safe_join by itself, on a name nobody sanitized: the path is below the base,
\* by plain components only, or there is none (path.rs:6-14).
JoinContained ==
    headers.name # None =>
        LET path == SafeJoin(Received, headers.name)
        IN  path # None =>
                /\ IsStrictPrefix(Received, path)
                /\ \A i \in 2..Len(path) : Plain(path[i])

\* What send_file asks for is what the receiver does: the size and the offset
\* of the resume arrive, and a file is refused only if its name is not ASCII
\* (client.rs:83-100, server.rs:103-139, 256-262).
SendArrives ==
    (call # None /\ verdict # None) =>
        IF Contains(call.name, Wide) THEN ~verdict.admitted
        ELSE Admitted /\ verdict.total = call.size /\ verdict.offset = call.resume
=============================================================================
