----------------------------- MODULE ShellParser -----------------------------
(***************************************************************************)
(* The shell-output parser of harness/cmd.py: ShellCommand.parsed_stdout  *)
(* hands the stdout of a command run by ShellClient to CommandParser,     *)
(* which splits it on whitespace and converts the words by position.      *)
(* A word is modelled by its shape: "dec" (decimal digits, int() takes    *)
(* it), "hex" (hexadecimal with letters) or "text"; and an id telling     *)
(* the words apart.                                                        *)
(***************************************************************************)
EXTENDS Integers, Sequences

W(k, id) == [k |-> k, id |-> id]
Err      == [ok |-> FALSE, rec |-> <<>>]
Ok(r)    == [ok |-> TRUE, rec |-> r]

\* int(s) and str(s) of one word.
Conv(type, w) == IF type = "int" THEN w.k = "dec" ELSE TRUE

\* StatOutputSchema: sixteen field names, and seventeen field types.
StatFieldNames ==
    <<"filename", "size", "blocks", "raw_mode", "uid", "gid", "device", "inode",
      "hard_links", "major", "minor", "last_access", "last_modification",
      "last_status_change", "creation", "transfer_size">>
StatFieldTypes ==
    <<"str", "int", "int", "str", "int", "int", "str", "int", "int", "str",
      "str", "int", "int", "int", "int", "int", "str">>

\* zip(types, words) and the conversions, then the namedtuple of the
\* names built from the values: it needs exactly one value per name.
Loads(names, types, words) ==
    LET n == IF Len(types) < Len(words) THEN Len(types) ELSE Len(words) IN
    IF /\ \A i \in 1..n : Conv(types[i], words[i])
       /\ n = Len(names)
    THEN Ok([f \in {names[i] : i \in 1..n} |->
               words[CHOOSE i \in 1..n : names[i] = f].id])
    ELSE Err

\* Md5sumOutputSchema: input.split() into a namedtuple of two fields.
Md5Loads(words) ==
    IF Len(words) = 2 THEN Ok([digest |-> words[1].id, filename |-> words[2].id])
    ELSE Err

\* CommandParser.parse.
Parse(cmd, words) ==
    CASE cmd = "stat"   -> Loads(StatFieldNames, StatFieldTypes, words)
      [] cmd = "md5sum" -> Md5Loads(words)
      [] OTHER          -> Err

-----------------------------------------------------------------------------
(* What the commands print.  A file name is one word or, if it holds a    *)
(* space, two.                                                             *)

Names == {<<W("text", "n1")>>, <<W("text", "n1"), W("text", "n2")>>}

\* The whole file name, as one field.
WholeName(n) == IF Len(n) = 1 THEN n[1].id ELSE "n1 n2"

\* stat --terse: "%n %s %b %f %u %g %D %i %h %t %T %X %Y %Z %W %o", and
\* " %C", the security context, when SELinux is enabled.
StatTerse(name, selinux) ==
    name \o <<W("dec", "size"), W("dec", "blocks"), W("hex", "raw_mode"),
              W("dec", "uid"), W("dec", "gid"), W("hex", "device"),
              W("dec", "inode"), W("dec", "hard_links"), W("hex", "major"),
              W("hex", "minor"), W("dec", "last_access"),
              W("dec", "last_modification"), W("dec", "last_status_change"),
              W("dec", "creation"), W("dec", "transfer_size")>>
         \o (IF selinux THEN <<W("text", "context")>> ELSE <<>>)

\* md5sum FILE: "<digest>  <file name>".
Md5sum(name) == <<W("hex", "digest")>> \o name

VARIABLES cmd, name, selinux, got, parsed

vars == <<cmd, name, selinux, got, parsed>>

Init ==
    /\ cmd \in {"stat", "md5sum"}
    /\ name \in Names
    /\ selinux \in BOOLEAN
    /\ got = Err
    /\ parsed = FALSE

Printed == IF cmd = "stat" THEN StatTerse(name, selinux) ELSE Md5sum(name)

\* ShellCommand.parsed_stdout on the command's output.
ParsedStdout ==
    /\ ~parsed
    /\ parsed' = TRUE
    /\ got' = Parse(cmd, Printed)
    /\ UNCHANGED <<cmd, name, selinux>>

Spec == Init /\ [][ParsedStdout]_vars

\* Once parsed, the output of stat --terse or md5sum on a file yields a
\* record whose file name is the file's whole name (test_stat and
\* test_concat read .size and .digest from it); the spec's decoder turns
\* every well-formed output into its record.
ShellOutputDecodes ==
    [][parsed' /\ ~parsed => got'.ok /\ got'.rec.filename = WholeName(name)]_vars

=============================================================================
