--------------------------- MODULE MCToolFunctions ---------------------------
(***************************************************************************)
(* The tools, each on every small input.  Which tool is looked at, and on  *)
(* what file, listing or output, is drawn in the initial states.  The      *)
(* functions of the tools have their remaining arguments in `given`, which *)
(* grows by one call's at a time: the limits a model reads pages with, the *)
(* edits of a call, the sizes an encoder yields.  The two that keep a      *)
(* state, the output accumulator and the tools that change a file, take    *)
(* their own steps.                                                        *)
(***************************************************************************)
EXTENDS ReadPaging, FindResults, GrepResults, ToolRegistry, EditText, ImageScaling,
        OutputAccumulator, FileTools

CONSTANTS
  FileLines, LineBytes,      \* bounds: lines of a file, bytes of a line
  MaxPaths,                  \* bound: paths that match
  MaxEvents,                 \* bound: events rg prints
  MaxTools,                  \* bound: tools a caller passes
  EditedText,                \* bound: characters of a file that is edited
  MaxSide, MaxSize           \* bounds: pixels of a side, bytes of an image

ASSUME BoundsAssumption ==
  {FileLines, LineBytes, MaxPaths, MaxEvents, MaxTools, MaxSide, MaxSize} \subseteq Nat

VARIABLES
  input,      \* the tool, and what it works on
  given       \* the arguments it has been given

\* Neither the edits nor the sessions are told apart.
Symmetry == Permutations(Edits) \union Permutations(Sessions)

outVars == <<raw, pending, tail, atBoundary, totalBytes, totalLines, finished, stream>>

MCLimits == {-1, 1, 2, 4}

SeqsOf(S, m, n) == UNION {[1..k -> S] : k \in m..n}

\* Line i consists of bytes i, so that different lines differ.
TextsOf(lengths) == {[i \in DOMAIN l |-> [b \in 1..l[i] |-> i]] : l \in lengths}

\* One edit of a text of every kind of character; two of a text whose only
\* peculiarity is blank ends of lines.
EditInputs ==
  [tool : {"edit"}, bom : {FALSE}, most : {1},
   text : SeqsOf({"a", "curly", "plain", "sp", "nl", "cr"}, 0, EditedText)]
    \union [tool : {"edit"}, bom : {TRUE}, most : {2},
            text : SeqsOf({"a", "sp", "nl"}, 0, EditedText)]

EditsOf(most) ==
  IF most = 1
    THEN [old : SeqsOf({"a", "plain", "sp", "nl"}, 0, 2), new : {<<>>, <<"a", "nl">>}]
  ELSE [old : SeqsOf({"a", "sp", "nl"}, 1, 2), new : {<<>>, <<"b">>}]

Inputs ==
  [tool : {"read"}, file : TextsOf(SeqsOf(0..LineBytes, 1, FileLines)),
   first : -1..(FileLines + 1)]
    \union [tool : {"find"}, paths : TextsOf(SeqsOf(1..PathBytes, 0, MaxPaths)),
            limit : MCLimits]
    \union [tool : {"grep"}, events : SeqsOf(Events, 0, MaxEvents), limit : MCLimits]
    \union [tool : {"registry"}, tools : SeqsOf(Tools, 0, MaxTools)]
    \union EditInputs
    \union [tool : {"image"}, width : 1..MaxSide, height : 1..MaxSide,
            turned : BOOLEAN, size : 1..MaxSize]
    \union [tool : {"output", "files"}]

Init == input \in Inputs /\ given = <<>> /\ AccInit /\ FileInit

Give(arguments) ==
  /\ given' = Append(given, arguments)
  /\ UNCHANGED <<input, outVars, fileVars>>

NextPage ==
  /\ input.tool = "read" /\ Len(given) < FileLines
  /\ \E limit \in MCLimits : Give(limit)

NextEdit ==
  /\ input.tool = "edit" /\ Len(given) < input.most
  /\ \E edit \in EditsOf(input.most) : Give(edit)

\* An image of n pixels on a side is a single pixel after n - 1 turns.  What an
\* encoder yields: neither candidate fits, or either, or both, when MaxBase64Bytes
\* is 2.
Turns == IF MaxWidth > MaxHeight THEN MaxWidth ELSE MaxHeight

NextEncoding ==
  /\ input.tool = "image" /\ Len(given) < Turns
  /\ \E sizes \in {<<1, 1>>, <<3, 1>>, <<3, 2>>, <<2, 3>>} : Give(sizes)

NextOutput ==
  /\ input.tool = "output"
  /\ AccNext
  /\ UNCHANGED <<input, given, fileVars>>

NextOnFile ==
  /\ input.tool = "files"
  /\ FileNext
  /\ UNCHANGED <<input, given, outVars>>

Next == NextPage \/ NextEdit \/ NextEncoding \/ NextOutput \/ NextOnFile
Spec == Init /\ [][Next]_<<input, given, outVars, fileVars>>

-----------------------------------------------------------------------------
\* The notices of read lead through the lines of a file in order, to its end or to
\* a line over the byte limit, and never claim an end that is not there.
NoticesLeadThroughTheFile ==
  input.tool = "read" => PagesAreTheFile(input.file, input.first, given)

\* find and ls never pass a part of the paths for the whole, and grep loses no
\* match that it can read in silence but behind the cap of its capture.
SearchesReportOmissions ==
  /\ input.tool = "find" =>
       /\ MissingPathsAreReported(input.paths, input.limit)
       /\ LimitNoticeIsExact(input.paths, input.limit)
       /\ MissingEntriesAreReported(input.paths, input.limit)
  /\ input.tool = "grep" => MatchesAreAccountedFor(input.events, input.limit)

\* A harness that was accepted runs typed prompts, and its calls reach the
\* tools they name.
RegistryIsSound ==
  input.tool = "registry" =>
    /\ AcceptedHarnessRunsTyped(input.tools)
    /\ CallsReachTheirTool(input.tools)

EditedFile == [bom |-> input.bom, text |-> input.text]

\* An accepted call of edit replaces at once the only places of its old texts,
\* and a call whose old texts are there once is accepted.
EditsReplaceWhatTheyMatch ==
  input.tool = "edit" /\ given # <<>> =>
    /\ AcceptedEditReplacesAtOnce(EditedFile, given)
    /\ OldTextsDecide(EditedFile, given)

\* edit.py:433: "Apply character spans in reverse order so earlier offsets stay
\* stable."  A replacement at the start of another one's is lost all the same.
SplicedOffsetsStayStable ==
  input.tool = "edit" /\ given # <<>> =>
    AllReplacementsSurvive(EditedFile, given)

\* read's images end in the box and below the limit, or in an error.
ImagesFitOrFail ==
  input.tool = "image" /\ Len(given) = Turns =>
    ImageFitsOrFails(input, [k \in 0..(Turns - 1) |-> given[k + 1]])

\* What bash shows is the end of the output, and it says what it left out.
OutputEndIsShown ==
  input.tool = "output" => SnapshotIsTailOfOutput /\ TruncationIsReported
=============================================================================
