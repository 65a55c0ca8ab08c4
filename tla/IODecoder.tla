------------------------------ MODULE IODecoder ------------------------------
(***************************************************************************)
(* The line-protocol decoder of harness/io.py.  The client prints the     *)
(* result of one call as a JSON object; Client.run hands it to            *)
(* IOParser.parse, which picks the command's marshmallow schema and       *)
(* loads it into a namedtuple.  A schema is modelled as the sequence of   *)
(* its fields (attribute name, JSON key, kind, required, allow_none) and  *)
(* Dec as what marshmallow's load and the schema's post_load hook do.     *)
(*                                                                         *)
(* JSON values and decoded Python values are tagged records:              *)
(*   int, float (a number with a fraction, v its integer part), bool,    *)
(*   str, numstr (a string of digits, v their value), null, list and obj *)
(*   (a function of its keys) on the wire;                                *)
(*   int, null (None), str, bytes, ptr (c_void_p), list, rec (namedtuple) *)
(* after decoding.                                                         *)
(***************************************************************************)
EXTENDS Integers, Sequences, TLC

V(t, v) == [t |-> t, v |-> v]
JNull   == V("null", 0)
Ok(x)   == [ok |-> TRUE, val |-> x]
Err     == [ok |-> FALSE, val |-> JNull]

F(name, key, kind, req, none) ==
    [name |-> name, key |-> key, kind |-> kind, req |-> req, none |-> none]

\* fields.Integer(required=True), and the Errno field read from "errnum".
IntF(n)  == F(n, n, "int", TRUE, FALSE)
Errno   == F("errno", "errnum", "errno", TRUE, FALSE)
\* ByteList(allow_none=True), fields.Nested(Schema) and fields.Nested(Schema, required=True).
Buf(n)  == F(n, n, "bytes", FALSE, TRUE)
Nest(n, s)    == F(n, n, s, FALSE, FALSE)
NestReq(n, s) == F(n, n, s, TRUE, FALSE)

RetErr == <<IntF("retval"), Errno>>

\* StructTimespecSchema, StructStatSchema, StructStatxTimestampSchema,
\* StructStatxSchema and DirentStruct.
Structs ==
  LET ts == <<IntF("tv_sec"), IntF("tv_nsec")>> IN
  [ StructTimespec |-> ts,
    StructStatxTimestamp |-> ts,
    StructStat |-> <<IntF("st_dev"), IntF("st_ino"), IntF("st_mode"), IntF("st_nlink"),
                   IntF("st_uid"), IntF("st_gid"), IntF("st_rdev"), IntF("st_size"),
                   IntF("st_blksize"), IntF("st_blocks"), Nest("st_atim", "StructTimespec"),
                   Nest("st_mtim", "StructTimespec"), Nest("st_ctim", "StructTimespec")>>,
    StructStatx |-> <<IntF("stx_mask"), IntF("stx_blksize"), IntF("stx_attributes"),
                   IntF("stx_nlink"), IntF("stx_uid"), IntF("stx_gid"), IntF("stx_mode"),
                   IntF("stx_ino"), IntF("stx_size"), IntF("stx_blocks"),
                   IntF("stx_attributes_mask"), Nest("stx_atime", "StructStatxTimestamp"),
                   Nest("stx_btime", "StructStatxTimestamp"), Nest("stx_ctime", "StructStatxTimestamp"),
                   Nest("stx_mtime", "StructStatxTimestamp"), IntF("stx_rdev_major"),
                   IntF("stx_rdev_minor"), IntF("stx_dev_major"), IntF("stx_dev_minor")>>,
    DirentStruct |-> <<IntF("d_ino"), IntF("d_off"), IntF("d_reclen"), IntF("d_type"),
                   F("d_name", "d_name", "str", TRUE, FALSE)>> ]

\* IOParser.OutputSchemas: the schema of each command's output.
OutputSchemas ==
  LET rd  == <<Buf("buf"), IntF("retval"), Errno>>
      rdv == <<Buf("buf_0"), Buf("buf_1"), IntF("retval"), Errno>> IN
  [ mkdir |-> RetErr, open |-> RetErr,
    opendir |-> <<F("dirp", "dirp", "ptr", TRUE, TRUE), Errno>>,
    read |-> rd, pread |-> rd, readv |-> rdv, preadv |-> rdv,
    readdir |-> <<F("dirents", "dirents", "dirents", FALSE, TRUE), Errno>>,
    rmdir |-> RetErr, write |-> RetErr, pwrite |-> RetErr, writev |-> RetErr,
    pwritev |-> RetErr,
    stat  |-> <<IntF("retval"), NestReq("statbuf", "StructStat"), Errno>>,
    statx |-> <<IntF("retval"), NestReq("statbuf", "StructStatx"), Errno>>,
    lseek |-> RetErr, write_random |-> RetErr, write_validate |-> RetErr,
    truncate |-> RetErr, file_compare |-> RetErr ]

Keys(fs) == {fs[i].key : i \in DOMAIN fs}

\* Loading value x as a field of the given kind, and for a nested schema
\* the load of every field: a missing required field, a null where
\* allow_none is unset and an unknown key (unknown=RAISE) are
\* ValidationErrors; a missing optional field leaves the namedtuple in
\* post_load without an argument, a TypeError.  The field classes convert:
\*   - fields.Integer (not strict): int(value), which truncates a float and
\*     parses a string of digits; it refuses a bool;
\*   - Errno._deserialize: int(value), which also takes a bool as 0 or 1;
\*   - ByteList._deserialize: bytes(value): a list of ints in 0..255, or an
\*     int n (also a bool) giving n zero bytes;
\*   - DIR_p._deserialize: c_void_p(value), an int or a bool;
\*   - fields.Str: any string.
Numeric == {"int", "float", "numstr"}
Zeros(n) == V("bytes", [i \in 1..n |-> 0])
RECURSIVE Dec(_, _)
Dec(kind, x) ==
  CASE kind = "int" ->
         IF x.t \in Numeric THEN Ok(V("int", x.v)) ELSE Err
    [] kind = "errno" ->
         CASE x.t \in Numeric -> Ok(V("int", x.v))
           [] x.t = "bool"    -> Ok(V("int", IF x.v THEN 1 ELSE 0))
           [] OTHER           -> Err
    [] kind = "bytes" ->
         CASE x.t = "list" /\ \A i \in DOMAIN x.v : x.v[i].t = "int" /\ x.v[i].v \in 0..255
                -> Ok(V("bytes", [i \in DOMAIN x.v |-> x.v[i].v]))
           [] x.t = "int" /\ x.v >= 0 -> Ok(Zeros(x.v))
           [] x.t = "bool"            -> Ok(Zeros(IF x.v THEN 1 ELSE 0))
           [] OTHER                   -> Err
    [] kind = "ptr" ->
         CASE x.t = "int"  -> Ok(V("ptr", x.v))
           [] x.t = "bool" -> Ok(V("ptr", IF x.v THEN 1 ELSE 0))
           [] OTHER        -> Err
    [] kind = "str" ->
         IF x.t \in {"str", "numstr"} THEN Ok(x) ELSE Err
    [] kind = "dirents" ->
         IF x.t = "list" /\ \A i \in DOMAIN x.v : Dec("DirentStruct", x.v[i]).ok
         THEN Ok(V("list", [i \in DOMAIN x.v |-> Dec("DirentStruct", x.v[i]).val])) ELSE Err
    [] OTHER ->
         LET fs == (Structs @@ OutputSchemas)[kind]
             \* the value loaded for field f, None for an allowed null
             Field(f) == IF x.v[f.key].t = "null" THEN Ok(JNull) ELSE Dec(f.kind, x.v[f.key])
         IN  IF /\ x.t = "obj"
                /\ DOMAIN x.v = Keys(fs)
                /\ \A i \in DOMAIN fs :
                     /\ x.v[fs[i].key].t = "null" => fs[i].none
                     /\ Field(fs[i]).ok
             THEN Ok(V("rec", [n \in {fs[i].name : i \in DOMAIN fs} |->
                                 Field(CHOOSE f \in {fs[i] : i \in DOMAIN fs} : f.name = n).val]))
             ELSE Err

\* IOParser.parse: the schema of a known command loads the output, any
\* other command is a ValueError.
Parse(cmd, out) ==
    IF cmd \in DOMAIN OutputSchemas THEN Dec(cmd, out) ELSE Err

-----------------------------------------------------------------------------
(* What the decoder promises (spec.md 4.1, 8): the client prints every    *)
(* field of a result under its key, and decoding that output yields the  *)
(* result; output missing a field, with a null where none is allowed or  *)
(* with a value of the wrong type, and output of an unregistered command, *)
(* are rejected.                                                           *)

Schema == Structs @@ OutputSchemas

\* The key the client prints a field under: errno as "errnum", every other
\* field under its own name.
WireKey(n) == IF n = "errno" THEN "errnum" ELSE n

\* The client's printing of result r of the given kind.
RECURSIVE Enc(_, _)
Enc(kind, r) ==
  CASE r.t = "null"         -> JNull
    [] kind = "bytes"       -> V("list", [i \in DOMAIN r.v |-> V("int", r.v[i])])
    [] kind = "ptr"         -> V("int", r.v)
    [] kind = "dirents"     -> V("list", [i \in DOMAIN r.v |-> Enc("DirentStruct", r.v[i])])
    [] kind \in DOMAIN Schema ->
         LET fs == Schema[kind] IN
         V("obj", [k \in {WireKey(fs[i].name) : i \in DOMAIN fs} |->
                     LET f == CHOOSE f \in {fs[i] : i \in DOMAIN fs} : WireKey(f.name) = k
                     IN  Enc(f.kind, r.v[f.name])])
    [] OTHER                -> r

\* A result of the given kind whose integers are all distinct, from seed i.
RECURSIVE Sample(_, _)
Sample(kind, i) ==
  CASE kind \in {"int", "errno"} -> V("int", i)
    [] kind = "bytes"   -> V("bytes", <<i % 256>>)
    [] kind = "ptr"     -> V("ptr", i)
    [] kind = "str"     -> V("str", "entry")
    [] kind = "dirents" -> V("list", <<Sample("DirentStruct", 1), Sample("DirentStruct", 2)>>)
    [] OTHER ->
         LET fs == Schema[kind] IN
         V("rec", [n \in {fs[j].name : j \in DOMAIN fs} |->
                     LET j == CHOOSE j \in DOMAIN fs : fs[j].name = n
                     IN  Sample(fs[j].kind, 100 * i + j)])

\* The fields that may be null: a byte buffer (spec.md 4.1: an absent
\* buffer is null, apart from an empty one), and the DIR* of a failed
\* opendir and the listing of a failed readdir, which the client prints
\* as null.
SpecNullable(f) == f.kind \in {"bytes", "ptr", "dirents"}

\* The other values a field may legally hold: None where allowed, an empty
\* buffer, an empty or reversed directory listing.
Alts(f, i) ==
    {Sample(f.kind, i)}
    \cup (IF SpecNullable(f) THEN {JNull} ELSE {})
    \cup (IF f.kind = "bytes" THEN {V("bytes", <<>>)} ELSE {})
    \cup (IF f.kind = "dirents"
          THEN {V("list", <<>>), V("list", <<Sample("DirentStruct", 2), Sample("DirentStruct", 1)>>)}
          ELSE {})

Results(c) ==
    LET fs == OutputSchemas[c]
        base == Sample(c, 1)
    IN  UNION {{[base EXCEPT !.v[fs[i].name] = a] : a \in Alts(fs[i], i)} : i \in DOMAIN fs}

\* Values of the wrong type for field f printed as x: for an integer a
\* word, the number as a string of digits, with a fraction, or a bool; for
\* a buffer a word or its length as a number; a number for a string; a
\* word for anything else.
Mistyped(f, x) ==
    CASE f.kind \in {"int", "errno"} ->
           {V("str", "x"), V("numstr", x.v), V("float", x.v), V("bool", TRUE)}
      [] f.kind = "bytes" -> {V("str", "x"), V("int", Len(x.v))}
      [] f.kind = "str"   -> {V("int", 0)}
      [] OTHER            -> {V("str", "x")}

\* Output o of schema fs with one field missing, null where not allowed,
\* or of the wrong type.
Perturb(o, fs) ==
    LET k(i) == WireKey(fs[i].name) IN
    {V("obj", [j \in DOMAIN o.v \ {k(i)} |-> o.v[j]]) : i \in DOMAIN fs}
    \cup {[o EXCEPT !.v[k(i)] = JNull] : i \in {j \in DOMAIN fs : ~SpecNullable(fs[j])}}
    \cup UNION {{[o EXCEPT !.v[k(i)] = w] : w \in Mistyped(fs[i], o.v[k(i)])}
                : i \in DOMAIN fs}

\* Malformed output of command c, also inside its nested structures.
Malformed(c) ==
    LET fs == OutputSchemas[c]
        o  == Enc(c, Sample(c, 1))
        nested == {i \in DOMAIN fs : fs[i].kind \in DOMAIN Structs}
    IN  Perturb(o, fs)
        \cup UNION {{[o EXCEPT !.v[fs[i].name] = p] : p \in Perturb(o.v[fs[i].name], Structs[fs[i].kind])}
                    : i \in nested}
        \cup {V("str", "x")}

\* A call the client makes that IOParser has no schema for.
Unregistered == "symlink"

VARIABLES cmd, out, want, got

vars == <<cmd, out, want, got>>

Init ==
    /\ got = JNull
    /\ \/ \E c \in DOMAIN OutputSchemas :
            \/ \E r \in Results(c) : cmd = c /\ out = Enc(c, r) /\ want = Ok(r)
            \/ \E o \in Malformed(c) : cmd = c /\ out = o /\ want = Err
       \/ cmd = Unregistered /\ out = Enc("mkdir", Sample("mkdir", 1)) /\ want = Err

\* Client.run: the command has printed out; IOParser.parse decodes it.
ClientRun ==
    /\ got = JNull
    /\ got' = [ok |-> Parse(cmd, out).ok, val |-> Parse(cmd, out).val]
    /\ UNCHANGED <<cmd, out, want>>

Spec == Init /\ [][ClientRun]_vars

\* The decoder returns exactly the result the client printed, field for
\* field (errno read from "errnum", None kept apart from an empty buffer,
\* directory entries in their order), and rejects malformed output and
\* unregistered commands instead of returning a partial record.
DecodeMatchesSpec == got # JNull => got = want

=============================================================================
