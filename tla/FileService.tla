---------------------------- MODULE FileService ----------------------------
(***************************************************************************)
(* The server's file operations (src/src/net/server/service/file_service.cc)*)
(* as pure operators over a file's bytes: a sequence of characters, NL     *)
(* the newline.  ReadLastLine follows the std::ifstream calls of the code: *)
(* a seekg that would move before the first byte fails and sets failbit,   *)
(* and std::getline on a failed stream extracts nothing.  File names and  *)
(* the root are util::fs::path values (module Path): the access check of  *)
(* both operations is the code's lexical one.                              *)
(***************************************************************************)
EXTENDS Integers, Sequences, SequencesExt, Path

CONSTANT NL

\* Initialize(root): root_ = path(root).lexically_normal().  The checks
\* that the directory exists and holds files are not modelled.
Initialize(rootDir) == LexicallyNormal(ProcessAssigned(rootDir))

\* `root_ / name`, then lexically_normal(): the path the stream opens.
FullPath(root, name) == LexicallyNormal(SlashString(root, name))

\* The access test of both operations: root_.lexically_relative(full_path)
\* must be "..", that is, the root is the parent of the file.
InRoot(root, name) == LexicallyRelative(root, FullPath(root, name)) = DotDot

\* name[0]: the first character, '\0' for the empty name.
FirstChar(name) == IF name = <<>> THEN "NUL" ELSE name[1]

\* ReadLastLine's guard, which also rejects hidden names.
ReadAllowed(root, name) == InRoot(root, name) /\ FirstChar(name) # Dot

\* AppendLine's guard: the same test without the hidden-name check.
AppendAllowed(root, name) == InRoot(root, name)

\* std::getline from position pos: the characters up to the next NL or the
\* end of the file.
GetLine(s, pos) ==
    LET nl == SelectInSubSeq(s, pos, Len(s), LAMBDA c : c = NL)
    IN  SubSeq(s, pos, IF nl = 0 THEN Len(s) ELSE nl - 1)

\* The backwards scan `while (ch != '\n')`: seekg(-1, cur) then peek.  It
\* stops on the newline, or fails when the cursor is on the first byte.
RECURSIVE SeekBackToNewline(_, _)
SeekBackToNewline(s, pos) ==
    IF pos = 1 THEN [pos |-> pos, fail |-> TRUE]
    ELSE IF s[pos - 1] = NL THEN [pos |-> pos - 1, fail |-> FALSE]
    ELSE SeekBackToNewline(s, pos - 1)

\* FileService::ReadLastLine on a file that opened: an empty file, and a
\* lone newline, give ""; otherwise step back over a trailing newline, scan
\* back to the previous one and read the line after it.  When the scan
\* fails the stream is in failbit and the line read is "".
ReadLastLine(s) ==
    CASE s = <<>> -> <<>>
      [] Len(s) = 1 /\ Last(s) = NL -> <<>>
      [] OTHER ->
           LET r == SeekBackToNewline(s, IF Last(s) = NL THEN Len(s) - 1
                                                      ELSE Len(s))
           IN  IF r.fail THEN <<>> ELSE GetLine(s, r.pos + 1)

\* FileService::AppendLine: `file << line << '\n'` on a file opened for
\* appending.
AppendLine(s, line) == s \o line \o <<NL>>

\* ReadLastLine on a file that only ever grew by AppendLine of non-empty
\* lines without newlines, `lines` being what was appended, in order.
\* The scan fails on a one-line file, so only from the second line on is
\* the last line served.
ServedLastLine(lines) ==
    IF Len(lines) <= 1 THEN <<>> ELSE Last(lines)
=============================================================================
