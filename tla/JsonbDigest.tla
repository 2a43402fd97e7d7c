----------------------------- MODULE JsonbDigest -----------------------------
(***************************************************************************)
(* The function jsonb_digest (src/src/jsonb_digest.rs) over the tokens of  *)
(* src/src/iterable_jsonb.rs.  A unique index on the digest stands for     *)
(* uniqueness of the value itself, so equal values must have one digest    *)
(* and different values different ones.                                    *)
(*                                                                         *)
(* A value is what JsonbIteratorNext returns for it, one event after the   *)
(* other: this is how PostgreSQL compares two of them, too.  A scalar at   *)
(* the top is stored as an array marked as a raw scalar.  WJB_ELEM and     *)
(* WJB_VALUE are one event here: they differ in what comes before them.    *)
(*                                                                         *)
(* Text is a sequence of bytes, none of them 0 (PostgreSQL stores no such  *)
(* text).  SHA-512 is taken to have no collisions: the digest is the       *)
(* sequence of bytes that was hashed.                                      *)
(***************************************************************************)
EXTENDS Integers, Sequences

CONSTANTS Jsonbs,     \* the values compared
          IndexBytes  \* width of the token index, 8 in the code

VARIABLES pair,       \* the two values that are digested, one after the other
          turn,       \* which of them
          iter,       \* JsonbIterator: the events still to come
          rawScalar, idx, hasher,
          digests

jdVars == <<pair, turn, iter, rawScalar, idx, hasher, digests>>

----------------------------------------------------------------------------
(* Values *)

Bytes == 1..255

Digits == 48..57

\* A number as it was written: a sign and digits, and digits after the point.
Scalars == [kind : {"null"}] \cup [kind : {"bool"}, b : BOOLEAN]
             \cup [kind : {"string"}, text : Seq(Bytes)]
             \cup [kind : {"number"}, int : Seq({45} \cup Digits), frac : Seq(Digits)]

JsonbEvents == [type : {"BEGIN_OBJECT", "END_OBJECT", "END_ARRAY"}]
                 \cup [type : {"BEGIN_ARRAY"}, rawScalar : BOOLEAN]
                 \cup [type : {"KEY"}, text : Seq(Bytes)]
                 \cup [type : {"SCALAR"}, val : Scalars]

BeginsRaw(e) == e.type = "BEGIN_ARRAY" /\ e.rawScalar

IsRaw(s) == BeginsRaw(s[1])

IsJsonb(s) ==
  /\ s \in Seq(JsonbEvents) /\ s # <<>>
  /\ IF IsRaw(s)
     THEN Len(s) = 3 /\ s[2].type = "SCALAR" /\ s[3].type = "END_ARRAY"
     ELSE /\ s[1].type \in {"BEGIN_ARRAY", "BEGIN_OBJECT"}
          /\ \A i \in DOMAIN s : ~BeginsRaw(s[i])

\* A jsonb is smaller than 256 MB: the last byte of an index is 0.
ASSUME JDAssumption ==
  /\ IndexBytes \in Nat \ {0}
  /\ \A s \in Jsonbs : IsJsonb(s) /\ Len(s) < 256 ^ (IndexBytes - 1)

----------------------------------------------------------------------------

\* (mutant) the number as it was written.
AsWritten(n) == IF n.frac = <<>> THEN n.int ELSE n.int \o <<46>> \o n.frac

\* The place of the last digit that is not 0.
Significant(frac) ==
  CHOOSE n \in 0..Len(frac) : /\ n # 0 => frac[n] # 48
                              /\ \A k \in (n + 1)..Len(frac) : frac[k] = 48

\* numeric_normalize: no trailing zero after the point, no point without digits.
Normalized(n) ==
  LET frac == SubSeq(n.frac, 1, Significant(n.frac))
  IN  IF frac = <<>> THEN n.int ELSE n.int \o <<46>> \o frac

\* idx.to_le_bytes()
LittleEndian(n) == [b \in 1..IndexBytes |-> (n \div (256 ^ (b - 1))) % 256]

ScalarByte(v) == CASE v.kind = "null"   -> 1
                   [] v.kind = "bool"   -> IF v.b THEN 2 ELSE 3
                   [] v.kind = "string" -> 4
                   [] v.kind = "number" -> 5

TypeByte(e) == CASE e.type = "SCALAR"       -> ScalarByte(e.val)
                 [] e.type = "KEY"          -> 10
                 [] e.type = "BEGIN_OBJECT" -> 11
                 [] e.type = "END_OBJECT"   -> 12
                 [] e.type = "BEGIN_ARRAY"  -> 13
                 [] e.type = "END_ARRAY"    -> 14

Content(e) == CASE e.type = "KEY" -> e.text
                [] e.type = "SCALAR" /\ e.val.kind = "string" -> e.val.text
                [] e.type = "SCALAR" /\ e.val.kind = "number" -> Normalized(e.val)
                [] OTHER -> <<>>

TokenBytes(e) == <<TypeByte(e)>> \o Content(e)

\* The brackets of the array a raw scalar is stored in are no tokens.
Skipped(e) == BeginsRaw(e) \/ (e.type = "END_ARRAY" /\ rawScalar)

Update(e) == LittleEndian(idx) \o TokenBytes(e)

----------------------------------------------------------------------------

JDInit == /\ pair = <<>> /\ turn = 0 /\ iter = <<>> /\ rawScalar = FALSE
          /\ idx = 0 /\ hasher = <<>> /\ digests = <<>>

Compare == /\ turn = 0
           /\ pair' \in Jsonbs \X Jsonbs
           /\ turn' = 1
           /\ iter' = pair'[1]
           /\ UNCHANGED <<rawScalar, idx, hasher, digests>>

NextToken == /\ iter # <<>>
             /\ iter' = Tail(iter)
             /\ IF Skipped(Head(iter))
                THEN UNCHANGED <<idx, hasher>>
                ELSE idx' = idx + 1 /\ hasher' = hasher \o Update(Head(iter))
             /\ rawScalar' = (rawScalar \/ BeginsRaw(Head(iter)))
             /\ UNCHANGED <<pair, turn, digests>>

Finalize == /\ turn \in {1, 2} /\ iter = <<>>
            /\ digests' = Append(digests, hasher)
            /\ turn' = turn + 1
            /\ iter' = IF turn = 1 THEN pair[2] ELSE <<>>
            /\ rawScalar' = FALSE /\ idx' = 0 /\ hasher' = <<>>
            /\ UNCHANGED pair

JDNext == Compare \/ NextToken \/ Finalize

JDSpec == JDInit /\ [][JDNext]_jdVars

----------------------------------------------------------------------------
(* Properties *)

Digit(frac, i) == IF i \in DOMAIN frac THEN frac[i] ELSE 48

SameScalar(v, w) ==
  /\ v.kind = w.kind
  /\ v.kind = "bool" => v.b = w.b
  /\ v.kind = "string" => v.text = w.text
  /\ v.kind = "number" =>
       /\ v.int = w.int
       /\ \A i \in DOMAIN v.frac \cup DOMAIN w.frac : Digit(v.frac, i) = Digit(w.frac, i)

SameEvent(e, f) ==
  /\ e.type = f.type
  /\ e.type = "BEGIN_ARRAY" => e.rawScalar = f.rawScalar
  /\ e.type = "KEY" => e.text = f.text
  /\ e.type = "SCALAR" => SameScalar(e.val, f.val)

\* The equality of jsonb (compareJsonbContainers): numbers by value.
SemanticallyEqual(s, t) == Len(s) = Len(t) /\ \A i \in DOMAIN s : SameEvent(s[i], t[i])

\* Two digests are equal exactly for semantically equal values
\* (jsonb_digest.rs:11-13): no text can imitate the bytes of other tokens.
DigestSeparates ==
  turn = 3 => ((digests[1] = digests[2]) <=> SemanticallyEqual(pair[1], pair[2]))

=============================================================================
