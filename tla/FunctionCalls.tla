--------------------------- MODULE FunctionCalls ---------------------------
(***************************************************************************)
(* Calls of the pure functions of the repository: the words of a line and  *)
(* the decimal text of an integer (p1fxns.c), the row of a process         *)
(* (uspsv4 of directory v4) and the merge sort.  A run is one call, of the *)
(* function unit; it has an input and, once computed is set, an output.    *)
(***************************************************************************)
EXTENDS MergeSort, UspsText, FiniteSets

CONSTANTS InputLines,    \* lines, sequences of characters
          InputKeys,     \* arrays to sort, sequences of keys
          MaxInt,        \* the largest integer
          Nothing        \* no output yet

ASSUME InputsAssumption ==
  /\ \A keys \in InputKeys : keys \in Seq(Int)
  /\ \A line \in InputLines : line \in Seq(STRING)
  /\ MaxInt \in Nat

MostNegative == -MaxInt - 1

VARIABLES unit, input, output, computed
callvars == <<unit, input, output, computed>>

-----------------------------------------------------------------------------
(* Inputs.  A number to shorten has up to 20 digits, as many as 64 bits give. *)

\* Two processes in /proc; the row is of the second.
FileNames == {"/cmdline", "/io", "/stat"}
Pid == <<"4", "2">>
Commands == {<<>>, <<"a", "NUL">>, <<"a", "NUL", "b", "c", "NUL">>, <<"a", "NUL", "NUL", "c", "NUL">>}
Number(len) == [j \in 1..len |-> digits[(j % 10) + 1]]
AtMost(n, m) == IF n < m THEN n ELSE m
Separated(words, separator) == FoldLeft(LAMBDA s, w : IF s = <<>> THEN w ELSE s \o separator \o w, <<>>, words)
Raw(r) == [syscr |-> Number(21 - r.long), syscw |-> Number(r.long), flts |-> Number(r.long),
           usrtm |-> Number(AtMost(r.long, 8)), systm |-> Number(1 + (r.long % 8)),
           vmsz |-> Number(AtMost(r.long, 15)), rssz |-> Number(1 + (r.long % 5))]
Stat(raw) ==
  Separated([j \in 1..26 |-> CASE j = 3  -> <<"R">>     [] j = 12 -> raw.flts [] j = 14 -> raw.usrtm
                            [] j = 15 -> raw.systm [] j = 23 -> raw.vmsz [] j = 24 -> raw.rssz
                            [] OTHER -> <<"7">>], <<" ">>) \o <<"\n">>
IO(raw) ==
  FoldLeft(LAMBDA s, w : s \o <<"x", ":", " ">> \o w \o <<"\n">>, <<>>,
           <<Number(2), Number(3), raw.syscr, raw.syscw, Number(4)>>)
Files(raw, cmdline) == ("/cmdline" :> cmdline) @@ ("/io" :> IO(raw)) @@ ("/stat" :> Stat(raw))
Proc(r) ==
  LET mine == Files(Raw(r), r.cmdline)
      other == Files(Raw([r EXCEPT !.long = 21 - @]), <<"b", "NUL">>)
  IN [path \in {Path(Pid, f) : f \in FileNames \ {r.missing}} |-> mine[path[Len(path)]]]
     @@ [path \in {Path(<<"4">>, f) : f \in FileNames} |-> other[path[Len(path)]]]
Sys == [size |-> 4096, cmd |-> 2048, ticks |-> 100, page |-> 4096, min |-> -1000000000,
        stale |-> <<"d", "NUL", "NUL">>]
Keyed(keys) == [j \in DOMAIN keys |-> [key |-> keys[j], at |-> j]]

Inputs(u) ==
  CASE u = "words"   -> InputLines
    [] u = "numbers" -> MostNegative..MaxInt
    [] u = "table"   -> [long : 1..20, cmdline : Commands, missing : FileNames \union {"none"}]
    [] u = "sort"    -> {Keyed(keys) : keys \in InputKeys}

Output(u) ==
  CASE u = "words"   -> args(input)
    [] u = "numbers" -> {p1itoa(input, MostNegative), p1ltoa(input, MostNegative),
                         V4p1ltoa(input, MostNegative)}
    [] u = "table"   -> display(Proc(input), Pid, Sys)
    [] u = "sort"    -> sort(input)

Functions == {"words", "numbers", "table", "sort"}

CallInit == unit \in Functions /\ input \in Inputs(unit) /\ output = Nothing /\ computed = FALSE
Compute ==
  /\ unit \in Functions /\ ~computed
  /\ computed' = TRUE /\ output' = Output(unit)
  /\ UNCHANGED <<unit, input>>
CallSpec == CallInit /\ [][Compute]_callvars

-----------------------------------------------------------------------------
(* Properties. *)

\* p1getword called until it returns -1 gives the words of the line as one pass over
\* its characters does, whatever quotes and blanks stand next to each other.
WordsAsScanned == unit = "words" /\ computed => output = Scanned(input)

\* The three copies of the integer formatter agree, and their text read back is the
\* number; only the most negative integer, which has no negation, is lost.
Reads(s) ==
  IF s[1] = "-" THEN -p1atoi(Tail(s), MostNegative)
  ELSE IF p1atol(s, MostNegative) = p1atoi(s, MostNegative) THEN p1atoi(s, MostNegative)
  ELSE "differ"
NumbersReadBack ==
  unit = "numbers" /\ computed /\ input # MostNegative =>
    Cardinality(output) = 1 /\ \A s \in output : Reads(s) = input

\* The table of uspsv4: every value stands under its title of the header, a count with
\* its leading digits and the unit of the threes that were dropped, ticks in seconds
\* and pages in bytes; the arguments follow, up to the first empty one.
Titles == <<1, 10, 18, 26, 33, 41, 49, 57, 65, 73>>
Amounts == <<<<"K">>, <<"M">>, <<"B">>, <<"T">>, <<"Q">>>>
ByteAmounts == <<<<" ", "K", "B">>, <<" ", "M", "B">>, <<" ", "G", "B">>, <<" ", "T", "B">>>>
Seconds(ticks) == IF Len(ticks) > 2 THEN SubSeq(ticks, 1, Len(ticks) - 2) ELSE <<"0">>
Kilobytes(pages) == p1itoa(4096 * p1atoi(pages, Sys.min), Sys.min)
Shown(r) ==
  LET raw == Raw(r)
  IN <<Pid, Shortened(raw.syscr, Amounts), Shortened(raw.syscw, Amounts), <<"R">>,
       Shortened(raw.flts, Amounts), Shortened(Seconds(raw.usrtm), Amounts),
       Shortened(Seconds(raw.systm), Amounts), Shortened(raw.vmsz, ByteAmounts),
       Shortened(Kilobytes(raw.rssz), ByteAmounts)>>
RowUnderHeader ==
  unit = "table" /\ computed =>
    IF input.missing # "none" THEN output = <<>>
    ELSE /\ \A j \in 1..9 : \A c \in Titles[j]..Titles[j + 1] - 1 :
              output[c] = IF c - Titles[j] < Len(Shown(input)[j]) THEN Shown(input)[j][c - Titles[j] + 1] ELSE " "
         /\ input.cmdline # <<>> =>
              SubSeq(output, 73, Len(output)) =
                IF Len(input.cmdline) = 5 /\ input.cmdline[3] # "NUL" THEN <<"a", " ", "b", "c">> ELSE <<"a">>

\* sort.c: the result is in order and equal elements keep their order; with distinct
\* positions this leaves one array, a permutation of the input.
SortsStably ==
  unit = "sort" /\ computed =>
    /\ {output[j] : j \in DOMAIN output} = {input[j] : j \in DOMAIN input}
    /\ \A j, l \in DOMAIN output : j < l =>
         \/ output[j].key < output[l].key
         \/ output[j].key = output[l].key /\ output[j].at < output[l].at
=============================================================================
