------------------------------ MODULE Splitter ------------------------------
(***************************************************************************)
(* The scripts dotSplitter.py and svgSplitter.py.  Each copies the lines  *)
(* of an input file to an output file, and opens the next numbered output *)
(* at every line that starts a document; the lines before the first      *)
(* document go to Errors.txt in the working directory.  dotSplitter       *)
(* splits every file glob(argv[1]) returns, in the order the directory   *)
(* lists them; svgSplitter splits the one file argv[1] names.             *)
(*                                                                         *)
(* A file name is a record of its stem, a sequence of one-character      *)
(* strings ("Errors" is kept whole), and its extension; no stem holds a   *)
(* dot, so os.path.splitext separates exactly these two.  A line is the  *)
(* pair of its first word and its last non-blank character, which is   *)
(* all the two tests of a document's start read.  Messages are left out. *)
(***************************************************************************)
EXTENDS Versions, FiniteSetsExt, TLC

CONSTANTS Scripts,      \* the scripts run: a subset of {"dot", "svg"}
          FileSystems,  \* the directories a script may be run in: name -> lines
          Patterns      \* dotSplitter's argv[1]: [prefix, ext], ext "*" for any

ErrorsTxt == [stem |-> <<"Errors">>, ext |-> ".txt"]

VARIABLES fs,      \* the working directory: file name -> its lines
          tool,    \* which script runs
          inputs,  \* the files to split, in the order they are split
          i,       \* the input being split
          pos,     \* the next line of the input
          out,     \* outFile (Errors.txt before the first input is opened)
          count,   \* fileCount
          pc       \* "open": at the head of the loop over inputs; "loop":
                   \* in the loop over lines; "done": the script has ended
svars == <<fs, tool, inputs, i, pos, out, count, pc>>

\* dotSplitter: line.startswith("digraph") and line.rstrip().endswith("{");
\* svgSplitter: line.startswith("<?xml").
StartsDocument(t, l) ==
    IF t = "dot" THEN l[1] = "digraph" /\ l[2] = "{" ELSE l[1] = "<?xml"

\* outFileBaseName: os.path.splitext(name)[0], with every space made an
\* underscore by dotSplitter.
Base(t, f) == IF t = "dot" THEN ReplaceAll(f.stem, " ", "_") ELSE f.stem

\* str(n): the characters of the decimal digits of n.
Str(n) == [k \in DOMAIN Digits(n) |-> ToString(Digits(n)[k])]

\* outFileBaseName + str(fileCount) + outFileExt: ".dot" for dotSplitter,
\* the input's own extension for svgSplitter.
OutName(t, f, n) ==
    [stem |-> Base(t, f) \o Str(n), ext |-> IF t = "dot" THEN ".dot" ELSE f.ext]

\* glob(p) for a pattern prefix*ext: the files of the directory it matches.
Glob(p) == {f \in DOMAIN fs : IsPrefix(p.prefix, f.stem) /\ p.ext \in {"*", f.ext}}

\* No argument, an empty glob and a missing file leave nothing to split.
Init ==
    /\ fs \in FileSystems
    /\ tool \in Scripts
    /\ \/ tool = "dot" /\ \E p \in Patterns : inputs \in SetToSeqs(Glob(p))
       \/ tool = "svg" /\ inputs \in {<<f>> : f \in DOMAIN fs} \cup {<<>>}
    /\ i = 1 /\ pos = 1 /\ out = ErrorsTxt /\ count = 0 /\ pc = "open"

\* The head of the loop over inputs: inFile opened, fileCount reset and
\* outFile=open("Errors.txt", "w"), which creates or truncates it.
OpenInput ==
    /\ pc = "open" /\ i <= Len(inputs)
    /\ fs' = (ErrorsTxt :> <<>>) @@ fs
    /\ out' = ErrorsTxt /\ count' = 0 /\ pos' = 1 /\ pc' = "loop"
    /\ UNCHANGED <<tool, inputs, i>>

\* Variant for mutation checks: the line written before the test, so a
\* document's first line ends the previous output.
CopyLineWriteFirst ==
    /\ pc = "loop" /\ pos <= Len(fs[inputs[i]])
    /\ LET l    == fs[inputs[i]][pos]
           next == OutName(tool, inputs[i], count + 1)
           wrote == [fs EXCEPT ![out] = Append(@, l)]
       IN \/ StartsDocument(tool, l) /\ fs' = (next :> <<>>) @@ wrote
             /\ out' = next /\ count' = count + 1
          \/ ~StartsDocument(tool, l) /\ fs' = wrote /\ UNCHANGED <<out, count>>
    /\ pos' = pos + 1
    /\ UNCHANGED <<tool, inputs, i, pc>>

\* One pass of "for line in inFile": at the start of a document outFile is
\* closed, fileCount incremented and the next numbered output opened with
\* "w"; then the line is written to outFile.  The input is read as it is
\* on disk: no output of an input is that input.
CopyLine ==
    /\ pc = "loop" /\ pos <= Len(fs[inputs[i]])
    /\ LET l    == fs[inputs[i]][pos]
           next == OutName(tool, inputs[i], count + 1)
       IN \/ StartsDocument(tool, l) /\ fs' = (next :> <<l>>) @@ fs
             /\ out' = next /\ count' = count + 1
          \/ ~StartsDocument(tool, l) /\ fs' = [fs EXCEPT ![out] = Append(@, l)]
             /\ UNCHANGED <<out, count>>
    /\ pos' = pos + 1
    /\ UNCHANGED <<tool, inputs, i, pc>>

\* End of the input: outFile closed, the next input taken.
EndInput ==
    /\ pc = "loop" /\ pos > Len(fs[inputs[i]])
    /\ i' = i + 1 /\ pc' = "open"
    /\ UNCHANGED <<fs, tool, inputs, pos, out, count>>

\* Nothing left to split: the script prints its summary and ends.
Exit ==
    /\ pc = "open" /\ i > Len(inputs) /\ pc' = "done"
    /\ UNCHANGED <<fs, tool, inputs, i, pos, out, count>>

SplitterNext == OpenInput \/ CopyLine \/ EndInput \/ Exit

-----------------------------------------------------------------------------
\* Errors.txt and the numbered outputs of the input being split, in order.
Outputs == <<ErrorsTxt>> \o [k \in 1..count |-> OutName(tool, inputs[i], k)]

\* Splitting loses, duplicates and reorders no line of the file being
\* split: Errors.txt followed by its numbered outputs holds exactly the
\* lines read so far, every numbered output begins with the line that
\* starts its document and holds no other, and Errors.txt holds none.
SplitFaithful ==
    pc = "loop" =>
        /\ FlattenSeq([k \in DOMAIN Outputs |-> fs[Outputs[k]]])
              = SubSeq(fs[inputs[i]], 1, pos - 1)
        /\ \A k \in DOMAIN Outputs : \A j \in DOMAIN fs[Outputs[k]] :
              StartsDocument(tool, fs[Outputs[k]][j]) <=> (k > 1 /\ j = 1)
=============================================================================
