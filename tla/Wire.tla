---------------------------------- MODULE Wire ----------------------------------
(********************************************************************************)
(* The canonical codec (codec.cpp) and the payloads it carries.  A value is     *)
(* plain in all its fields but one, which is at any of its edges; it is encoded,*)
(* the payload arrives whole, cut short or followed by more, and is decoded     *)
(* (decode_payload).  A text is its length, a collection its count.             *)
(********************************************************************************)
EXTENDS WireFormat, FiniteSets

VARIABLES
  message,         \* the type of the payload
  value,           \* [its fields -> what the sender has]
  phase,           \* "new", "refused", "encoded", "arrived", "decoded", "rejected"
  payload,         \* the cells of the payload
  damaged,         \* it did not arrive as it was encoded
  decoded          \* <<name, value>> of every field decoded

payloadVars == <<message, value, phase, payload, damaged, decoded>>

Plain(f) == IF f.kind = "name" THEN 1 ELSE 0

\* What a value of the program may hold: no enumerator past the last, any length.
Edges(f) ==
  CASE f.kind \in {"int", "enum"} -> {0, 1}
    [] f.kind = "name" -> {1, f.limit}
    [] OTHER -> {0, 1, f.limit, f.limit + 1}

PayloadInit ==
  /\ message \in DOMAIN Written
  /\ LET fields == Written[message]
     IN  \E i \in DOMAIN fields : \E v \in Edges(fields[i]) :
           value = [j \in DOMAIN fields |-> IF j = i THEN v ELSE Plain(fields[j])]
  /\ phase = "new" /\ payload = <<>> /\ damaged = FALSE /\ decoded = <<>>

Zeros(n) == [j \in 1..n |-> 0]
SizeOf(fields) ==
  LET sum[i \in 0..Len(fields)] == IF i = 0 THEN 0 ELSE sum[i - 1] + fields[i].size
  IN  sum[Len(fields)]

\* Cells after the field itself: the text, or the elements of the collection.
Content(f, v) ==
  CASE f.kind \in {"text", "name"} -> v
    [] f.kind = "list" -> v * SizeOf(f.sub)
    [] OTHER -> 0

(********************************************************************************)
(* The writer and the reader.                                                   *)
(********************************************************************************)
\* text and count check their bound; everything else is written as it is.
Writes(f, v) == f.kind \in {"text", "name", "list"} => v <= f.limit

Put(f, v) == <<v>> \o Zeros(f.size - 1) \o Zeros(Content(f, v))

Encodes(fields, v) == \A i \in DOMAIN fields : Writes(fields[i], v[i])

Encoding(fields, v) ==
  LET written[i \in 0..Len(fields)] == IF i = 0 THEN <<>> ELSE written[i - 1] \o Put(fields[i], v[i])
  IN  written[Len(fields)]

\* One field read: its value is within its bound and its content is there.
Take(reader, f, cells) ==
  LET end == reader.at + f.size
      v   == cells[reader.at + 1]
  IN  IF /\ reader.ok /\ end <= Len(cells)
         /\ f.kind # "int" => v <= f.limit
         /\ f.kind = "name" => v > 0
         /\ end + Content(f, v) <= Len(cells)
      THEN [ok |-> TRUE, at |-> end + Content(f, v), out |-> Append(reader.out, <<f.name, v>>)]
      ELSE [ok |-> FALSE, at |-> reader.at, out |-> <<>>]

Reading(fields, cells) ==
  LET reader[i \in 0..Len(fields)] ==
        IF i = 0 THEN [ok |-> TRUE, at |-> 0, out |-> <<>>] ELSE Take(reader[i - 1], fields[i], cells)
  IN  reader[Len(fields)]

\* decode_payload: the value, and nothing after it.
DecodedPrefix(fields, cells) == Reading(fields, cells)

Decoded(fields, cells) ==
  LET reader == Reading(fields, cells)
  IN  [reader EXCEPT !.ok = @ /\ reader.at = Len(cells)]

(********************************************************************************)
(* The steps of a payload.                                                      *)
(********************************************************************************)
Encode ==
  /\ phase = "new"
  /\ IF Encodes(Written[message], value)
     THEN phase' = "encoded" /\ payload' = Encoding(Written[message], value)
     ELSE phase' = "refused" /\ UNCHANGED payload
  /\ UNCHANGED <<message, value, damaged, decoded>>

Arrive(cells) ==
  /\ phase = "encoded" /\ phase' = "arrived"
  /\ payload' = cells /\ damaged' = (cells # payload)
  /\ UNCHANGED <<message, value, decoded>>

Intact   == Arrive(payload)
CutShort == \E n \in {0, Len(payload) \div 2, Len(payload) - 1} : Arrive(SubSeq(payload, 1, n))
Extended == Arrive(Append(payload, 0))

Decode ==
  /\ phase = "arrived"
  /\ LET reader == Decoded(ReadBack[message], payload)
     IN  /\ phase' = IF reader.ok THEN "decoded" ELSE "rejected"
         /\ decoded' = reader.out
  /\ UNCHANGED <<message, value, payload, damaged>>

PayloadNext == Encode \/ Intact \/ CutShort \/ Extended \/ Decode

PayloadSpec == PayloadInit /\ [][PayloadNext]_payloadVars

(********************************************************************************)
(* Properties.                                                                  *)
(********************************************************************************)
\* What one side encodes the other decodes, to the same value of the same member,
\* at every bound of every field: the two functions of each type agree on order,
\* width and limits.
RoundTrip ==
  ~damaged =>
    /\ phase # "rejected"
    /\ phase = "decoded" =>
         decoded = [i \in DOMAIN value |-> <<Written[message][i].name, value[i]>>]

\* A payload that lost its end or has something after it is never taken for a value
\* (Reader::take and expect_end).
DamageIsRejected == damaged => phase # "decoded"
=================================================================================
