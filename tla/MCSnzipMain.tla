----------------------------- MODULE MCSnzipMain -----------------------------
(***************************************************************************)
(* Small instances of SnzipMain for TLC: command lines and file systems.   *)
(***************************************************************************)
EXTENDS SnzipMain

a == <<"a">>
b == <<"b">>
sz(n) == Append(n, "sz")
snz(n) == Append(n, "snz")
snappy(n) == Append(n, "snappy")

MCPayloads == {"p", "q"}
MCAttributes == {"new", "old p", "old q", "x", "pipe"}
Text(p, len) == [j \in 1 .. len |-> Piece("plain", p, j)]
Two(f, p) == Encoded(f, Text(p, 1)) \o Encoded(f, <<Piece("plain", p, 2)>>)
File(d, attrs) == [data |-> d, attrs |-> attrs]

Command(prog, flags, t, args) ==
  [prog |-> prog, flags |-> flags, t |-> t, args |-> args, tty |-> FALSE]

(* Compressing two files, one of which another run may have left an output *)
(* of; an argument with a suffix that is passed over.                      *)
CompressCommands ==
  {Command({}, fl, t, args) :
     fl \in {{}, {"k"}}, t \in {NoFormat, "hadoop-snappy", "snzip"},
     args \in {<<a, b>>, <<sz(b), a>>}}

CompressFiles(names) ==
  {[n \in names |->
      IF n = a THEN File(Text("p", len), "old p")
      ELSE IF n = b THEN File(Text("q", 1), "old q")
      ELSE IF n \in {Stdin, Stdout} THEN EmptyFile
      ELSE IF n = sz(b) THEN stale
      ELSE Absent] :
     len \in {0, 2}, stale \in {Absent, File(Encoded("framing2", <<>>), "x")}}

(* Decompressing: framing2 by its header, hadoop-snappy, snappy-java, a    *)
(* truncated and a damaged file, and two files in one: behind an end mark, *)
(* with a second header that is skipped, refused or taken for a length.    *)
Cut(d) == SubSeq(d, 1, Len(d) - 1)
Damaged(d) == [d EXCEPT ![Len(d)].enc = "damaged"]

DecompressCommands ==
  {Command({}, {"d"} \cup fl, t, args) :
     fl \in {{}, {"k"}}, t \in {NoFormat, "snzip"},
     args \in {<<sz(a), snz(b)>>, <<snz(b), <<"c">>>>}} \cup
  {Command({"un"}, {}, t, <<sz(a), snappy(b)>>) : t \in {NoFormat, "raw"}} \cup
  {Command(pr, fl, t, <<sz(a), snz(b)>>) :
     pr \in {{}}, fl \in {{"h"}, {"?"}}, t \in {NoFormat}} \cup
  {Command({}, {}, "lzma", <<a>>)}

DecompressFiles(names) ==
  {[n \in names |->
      IF n = sz(a) THEN File(Encoded("framing2", Text("p", 2)), "old p")
      ELSE IF n = snz(b) THEN File(d, "old q")
      ELSE IF n = snappy(b) THEN File(e, "old q")
      ELSE IF n \in {Stdin, Stdout} THEN EmptyFile
      ELSE Absent] :
     d \in {Encoded("snzip", Text("q", 2)), Cut(Encoded("snzip", Text("q", 2))),
            Two("snzip", "q")},
     e \in {Encoded("snappy-java", Text("q", 2)),
            Encoded("hadoop-snappy", Text("q", 1)),
            Damaged(Encoded("comment-43", Text("q", 1))),
            Two("comment-43", "q"), Two("snappy-java", "q"),
            Two("snappy-in-java", "q"),
            <<>>, Text("q", 1)}}

(* Standard output: several arguments to it, and the filter.               *)
StdoutCommands ==
  {Command(pr, {"d", "c"}, t, args) :
     pr \in {{}}, t \in {NoFormat, "framing2"},
     args \in {<<sz(a), snz(b)>>, <<snz(b), sz(a)>>, <<snappy(b), sz(a)>>}} \cup
  {Command({"cat"}, {}, NoFormat, <<sz(a), snappy(b)>>),
   Command({}, {"c"}, NoFormat, <<a, b>>), Command({}, {"c"}, "raw", <<b, a>>),
   Command({}, {"c"}, "iwa", <<a, sz(b), b>>)} \cup
  {Command({}, fl, t, <<>>) :
     fl \in {{}, {"d"}}, t \in {NoFormat, "snzip", "comment-43"}} \cup
  {[Command({}, {}, NoFormat, <<>>) EXCEPT !.tty = TRUE]}

StdoutFiles(names) ==
  {[n \in names |->
      IF n = a THEN File(Text("p", 2), "old p")
      ELSE IF n = b THEN File(Text("q", 2), "old q")
      ELSE IF n = sz(a) THEN File(Two("framing", "p"), "old p")
      ELSE IF n = snz(b) THEN File(Encoded("snzip", Text("q", 2)), "old q")
      ELSE IF n = snappy(b) THEN File(e, "old q")
      ELSE IF n = Stdin THEN File(d, "pipe")
      ELSE IF n \in {Stdin, Stdout} THEN EmptyFile
      ELSE Absent] :
     d \in {Text("p", 3), Encoded("comment-43", Text("p", 2)),
            Two("comment-43", "p"), Two("snzip", "p")},
     e \in {Encoded("snappy-in-java", Text("q", 2)), Two("comment-43", "q"),
            Encoded("snappy-java", Text("q", 1))}}

(* A run that is killed or fails, and is started again.                    *)
RerunCommands ==
  {Command({}, fl, t, <<a, b>>) :
     fl \in {{}, {"k"}}, t \in {NoFormat, "hadoop-snappy", "snzip"}} \cup
  {Command({}, {"d"}, NoFormat, <<sz(a), snz(b)>>)}

RerunFiles(names) ==
  {[n \in names |->
      IF n = a THEN File(Text("p", 1), "old p")
      ELSE IF n = b THEN File(Text("q", 2), "old q")
      ELSE IF n = sz(a) THEN File(Encoded("framing2", Text("p", 2)), "old p")
      ELSE IF n = snz(b) THEN File(d, "old q")
      ELSE IF n \in {Stdin, Stdout} THEN EmptyFile
      ELSE Absent] :
     d \in {Encoded("snzip", Text("q", 1)), Two("snzip", "q"),
            Two("comment-43", "q")}}

NamesOf(cs) ==
  UNION {{c.args[k] : k \in DOMAIN c.args} : c \in cs} \cup
  UNION {{OutName(c, c.args[k], f) : k \in DOMAIN c.args, f \in Formats} :
           c \in cs} \cup {Stdin, Stdout}

FileCommands == CompressCommands \cup DecompressCommands
MCFileNames == NamesOf(FileCommands)
MCFiles == CompressFiles(MCFileNames) \cup DecompressFiles(MCFileNames)
MCStdoutNames == NamesOf(StdoutCommands)
MCStdoutFiles == StdoutFiles(MCStdoutNames)
MCRerunNames == NamesOf(RerunCommands)
MCRerunFiles == RerunFiles(MCRerunNames)

AllFaults == {"open", "write", "spill", "fflush", "read", "nomem", "unlink",
              "attrs", "kill"}
ReportedFaults == {"open", "write", "nomem", "unlink", "kill"}
=============================================================================
