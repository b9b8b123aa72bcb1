-------------------------------- MODULE Wire --------------------------------
(***************************************************************************)
(* One variant of libcdvar in use: a signature arrives character by        *)
(* character; for some signatures a sender marshals values, the bytes      *)
(* reach a receiver, intact or with one byte changed or missing, and the   *)
(* receiver reads them, or skips whole values, until it ends the read.     *)
(***************************************************************************)
EXTENDS DVar

CONSTANTS
  SigChars,       \* the characters signatures are made of
  SigSeeds,       \* longer signatures, not built character by character
  MaxSig,         \* bound: length up to which characters are appended
  Bodies,         \* the signatures for which values are marshalled
  VariantTypes,   \* the signatures a sender puts into variants
  Values(_),      \* what a sender passes for a format character
  MaxLog,         \* bound: values a sender writes before it closes its arrays
  DamageBytes     \* what a damaged byte may become

ASSUME WireAssumption == MaxSig \in Nat /\ MaxLog \in Nat

VARIABLES
  phase,    \* "sig", "write", "sent", "read" or "done"
  sig,      \* the signature
  var,      \* the CDVar
  log,      \* history: the format characters and values written
  rlog,     \* history: those read
  how       \* history: "intact", or what happened to the data or the read

wireVars == <<phase, sig, var, log, rlog, how>>

\* The types of a signature of several types.
RECURSIVE TypesOf(_)
TypesOf(str) ==
  IF str = <<>> THEN <<>>
  ELSE LET type == NewFromSignature(str)
       IN  type \o TypesOf(SubSeq(str, Len(type) + 1, Len(str)))

NoVar == BeginRead(FALSE, <<>>, <<>>)

WInit ==
  /\ phase = "sig" /\ sig = <<>> /\ var = NoVar
  /\ log = <<>> /\ rlog = <<>> /\ how = "intact"

SigSeed(s) ==
  /\ phase = "sig" /\ sig = <<>>
  /\ sig' = s
  /\ UNCHANGED <<phase, var, log, rlog, how>>

AddChar(c) ==
  /\ phase = "sig" /\ Len(sig) < MaxSig
  /\ sig' = Append(sig, c)
  /\ UNCHANGED <<phase, var, log, rlog, how>>

WriteBegin(big, body) ==
  /\ phase = "sig" /\ sig = <<>>
  /\ phase' = "write" /\ sig' = body
  /\ var' = BeginWrite(big, TypesOf(body))
  /\ UNCHANGED <<log, rlog, how>>

\* What a reader gets for an argument of the writer.
Passed(c, arg) ==
  CASE c \in (Openers \ {"<"}) \cup Closers -> <<>>
    [] c \in {"<", "s", "o", "g"} -> Bytes(arg)
    [] c = "b" -> U32(IF Number(arg) = 0 THEN 0 ELSE 1)
    [] OTHER -> arg

WriteOne(c, arg) ==
  /\ var' = Write(var, c, IF c = "<" THEN NewFromSignature(arg) ELSE arg)
  /\ log' = Append(log, <<c, Passed(c, arg)>>)
  /\ UNCHANGED <<phase, sig, rlog, how>>

WriteElement ==
  /\ phase = "write" /\ var.poison = Ok /\ Cur(var).n > 0
  /\ Cur(var).container = "a" => Len(log) < MaxLog
  /\ LET c == StreamChar(Cur(var).types[Cur(var).i].element)
     IN  \E arg \in (IF c = "<" THEN VariantTypes
                     ELSE IF c \in Openers THEN {<<>>} ELSE Values(c)) :
           WriteOne(c, arg)

WriteClose ==
  /\ phase = "write" /\ var.poison = Ok /\ Len(var.levels) > 1
  /\ Cur(var).n = 0 \/ Cur(var).container = "a"
  /\ WriteOne(Closer(var), <<>>)

\* c_dvar_end_write(): the bytes are on their way, or there was an error.
WriteEnd ==
  /\ phase = "write"
  /\ var.poison # Ok \/ (Len(var.levels) = 1 /\ Cur(var).n = 0)
  /\ IF WriteResult(var) = Ok
     THEN /\ phase' = "sent"
          /\ var' = [Rewind(var) EXCEPT !.data = WrittenBytes(var)]
          /\ UNCHANGED how
     ELSE phase' = "done" /\ var' = Rewind(var) /\ how' = "unwritten"
  /\ UNCHANGED <<sig, log, rlog>>

Damage(k, b) ==
  /\ phase = "sent" /\ how = "intact" /\ k \in DOMAIN var.data
  /\ var' = [var EXCEPT !.data[k] = b]
  /\ how' = "damaged"
  /\ UNCHANGED <<phase, sig, log, rlog>>

Truncate ==
  /\ phase = "sent" /\ how = "intact" /\ var.data # <<>>
  /\ var' = [var EXCEPT !.data = Front(@)]
  /\ how' = "damaged"
  /\ UNCHANGED <<phase, sig, log, rlog>>

ReadBegin ==
  /\ phase = "sent"
  /\ phase' = "read"
  /\ var' = BeginRead(var.big, TypesOf(sig), var.data)
  /\ UNCHANGED <<sig, log, rlog, how>>

Unfinished == phase = "read" /\ var.poison = Ok
              /\ (AtElement(var) \/ Len(var.levels) > 1)

\* The reader asks for what must come next; for a variant it takes any type
\* or insists on one.
ReadStep(expect) ==
  /\ Unfinished
  /\ LET l == Cur(var)
         c == IF AtElement(var) THEN StreamChar(l.types[l.i].element)
              ELSE Closer(var)
     IN  /\ c # "<" => expect = <<>>
         /\ var' = Read(var, c, expect)
         /\ rlog' = Append(rlog, <<c, IF c \in Closers THEN <<>> ELSE var'.out>>)
         /\ how' = IF how # "damaged" /\ var'.poison = "TypeMismatch"
                   THEN "mismatch" ELSE how
  /\ UNCHANGED <<phase, sig, log>>

SkipStep ==
  /\ Unfinished /\ AtElement(var)
  /\ var' = Skip(var)
  /\ how' = IF how = "intact" THEN "skipped" ELSE how
  /\ UNCHANGED <<phase, sig, log, rlog>>

\* c_dvar_end_read(), its result left as the poison.
ReadEnd ==
  /\ phase = "read" /\ ~Unfinished
  /\ phase' = "done"
  /\ var' = [Rewind(var) EXCEPT !.poison = ReadResult(var)]
  /\ UNCHANGED <<sig, log, rlog, how>>

\* c_dvar_deinit()
Again ==
  /\ phase = "done" \/ (phase = "sig" /\ Len(sig) >= MaxSig)
  /\ phase' = "sig" /\ sig' = <<>> /\ var' = NoVar
  /\ log' = <<>> /\ rlog' = <<>> /\ how' = "intact"

WNext ==
  \/ \E s \in SigSeeds : SigSeed(s)
  \/ \E c \in SigChars : AddChar(c)
  \/ \E big \in BOOLEAN, body \in Bodies : WriteBegin(big, body)
  \/ WriteElement
  \/ WriteClose
  \/ WriteEnd
  \/ \E k \in DOMAIN var.data, b \in DamageBytes : Damage(k, b)
  \/ Truncate
  \/ ReadBegin
  \/ \E expect \in {<<>>} \cup {NewFromSignature(t) : t \in VariantTypes} :
       ReadStep(expect)
  \/ SkipStep
  \/ ReadEnd
  \/ Again

WSpec == WInit /\ [][WNext]_wireVars

(***************************************************************************)
(* Properties                                                              *)
(***************************************************************************)
\* What "one complete type" means, by the grammar: str is one, with a arrays
\* and t tuples around it.
RECURSIVE WellFormed(_, _, _), Members(_, _, _)
WellFormed(str, a, t) ==
  LET n == Len(str)
  IN  \/ n = 1 /\ str[1] \in DOMAIN Builtins
      \/ /\ n > 1 /\ str[1] = "a" /\ a < DepthMax \div 2
         /\ \/ WellFormed(Tail(str), a + 1, t)
            \/ /\ n > 4 /\ str[2] = "{" /\ str[n] = "}" /\ t < DepthMax \div 2
               /\ str[3] \in Basic
               /\ WellFormed(SubSeq(str, 4, n - 1), a + 1, t + 1)
      \/ /\ n > 2 /\ str[1] = "(" /\ str[n] = ")" /\ t < DepthMax \div 2
         /\ Members(SubSeq(str, 2, n - 1), a, t + 1)
Members(str, a, t) ==
  \E k \in DOMAIN str :
    /\ WellFormed(SubSeq(str, 1, k), a, t)
    /\ k = Len(str) \/ Members(SubSeq(str, k + 1, Len(str)), a, t)

\* The one-pass check of signatures from peers (c_dvar_is_type(),
\* c_dvar_is_signature()) accepts exactly what the grammar and its depth
\* and length limits allow, and the parser that runs on what it accepted
\* (c_dvar_type_new_from_signature()) takes all of it, with element lengths
\* that delimit well-formed types, as the readers' iterators rely on.
SignaturesAgree ==
  phase = "sig" =>
    /\ IsType(sig) <=> Len(sig) <= LengthMax /\ WellFormed(sig, 0, 0)
    /\ IsSignature(sig) <=>
         sig = <<>> \/ (Len(sig) <= LengthMax /\ Members(sig, 0, 0))
    /\ IsType(sig) =>
         LET type == NewFromSignature(sig)
             part(k) == SubSeq(sig, k, k + type[k].length - 1)
         IN  /\ TypeEquals(type, sig) /\ type[1].length = Len(sig)
             /\ \A k \in DOMAIN type :
                  type[k].element \in (DOMAIN Builtins) \cup {"a", "("} =>
                    k + type[k].length - 1 <= Len(sig)
                    /\ WellFormed(part(k), 0, 0)

\* Whatever was marshalled, in either byte order and with the buffer growing
\* in between, is read back value by value, and the read ends with success;
\* skipping values does not make intact data look corrupt.
RoundTrip ==
  /\ phase = "read" /\ how = "intact" =>
       var.poison = Ok /\ IsPrefix(rlog, log)
  /\ phase = "done" /\ how \in {"intact", "skipped"} =>
       var.poison = Ok /\ (how = "intact" => rlog = log)

\* One value read element by element, as a caller that wants it all does.
RECURSIVE ReadValue(_, _)
ReadValue(v, depth) ==
  IF v.poison # Ok THEN v
  ELSE LET l == Cur(v)
           c == IF AtElement(v) THEN StreamChar(l.types[l.i].element)
                ELSE Closer(v)
           d == CASE c \in Openers -> depth + 1 [] c \in Closers -> depth - 1
                  [] OTHER -> depth
           w == Read(v, c, <<>>)
       IN  IF d = 0 THEN w ELSE ReadValue(w, d)

\* Data from a peer, damaged or not, never lets a container of the reader
\* reach past the container around it or past the buffer; and skipping a
\* value (c_dvar_ff(), with its leap over arrays of fixed elements) accepts
\* exactly the data that reading the value accepts, and ends at the same
\* place.
ReaderSound ==
  phase = "read" =>
    /\ \A k \in DOMAIN var.levels :
         LET l == var.levels[k]
             bound == IF k = 1 THEN Len(var.data)
                      ELSE var.levels[k - 1].ib + var.levels[k - 1].nb
         IN  l.nb >= 0 /\ l.ib + l.nb <= bound
    /\ Unfinished /\ AtElement(var) =>
         LET s == Skip(var)
             r == ReadValue(var, 0)
         IN  /\ (s.poison = Ok) <=> (r.poison = Ok)
             /\ s.poison = Ok => s.levels = r.levels

\* What is written is read back, and what is not was refused in time.
MarshallingSound == RoundTrip /\ ReaderSound
=============================================================================
