------------------------------ MODULE UspsText ------------------------------
(***************************************************************************)
(* The text the schedulers of Projects/P1 read and write: words of a line  *)
(* (p1fxns.c), integers and their decimal text, and the shortened numbers  *)
(* of the table uspsv4 prints (directories v4 and test).                   *)
(*                                                                         *)
(* A buffer is the sequence of characters before its NUL; a position past  *)
(* its end is the NUL.  Positions start at 1.  Integers go from min to     *)
(* -min - 1 and wrap.                                                      *)
(***************************************************************************)
EXTENDS Integers, Sequences, SequencesExt

-----------------------------------------------------------------------------
(* Words. *)

whitespace == {" ", "\t"}
quotes == {"'", "\""}

\* The leftmost position from i on whose character is in set, or the end.
FirstFrom(buf, i, set) ==
  LET at == {j \in i..Len(buf) : buf[j] \in set}
  IN IF at = {} THEN Len(buf) + 1 ELSE CHOOSE j \in at : \A l \in at : j <= l

\* p1strchr of the NUL is not found, so the skipping stops at the end.
SkipBlanks(buf, i) ==
  LET at == {j \in i..Len(buf) : buf[j] \notin whitespace}
  IN IF at = {} THEN Len(buf) + 1 ELSE CHOOSE j \in at : \A l \in at : j <= l

(* Mutant: the closing quote is not skipped. *)
p1getwordKeepsQuote(buf, i) ==
  LET b == SkipBlanks(buf, i)
      quoted == b <= Len(buf) /\ buf[b] \in quotes
      first == IF quoted THEN b + 1 ELSE b
      end == FirstFrom(buf, first, IF quoted THEN {buf[b]} ELSE whitespace)
  IN IF b > Len(buf) THEN [index |-> -1, word |-> <<>>]
     ELSE [index |-> end, word |-> SubSeq(buf, first, end - 1)]
\* The next word from position i on, and where to look for the one after it; -1 at
\* the end.  A word that starts with a quote ends at the next one of its kind.
p1getword(buf, i) ==
  LET b == SkipBlanks(buf, i)
      quoted == b <= Len(buf) /\ buf[b] \in quotes
      first == IF quoted THEN b + 1 ELSE b
      end == FirstFrom(buf, first, IF quoted THEN {buf[b]} ELSE whitespace)
  IN IF b > Len(buf) THEN [index |-> -1, word |-> <<>>]
     ELSE [index |-> IF quoted /\ end <= Len(buf) THEN end + 1 ELSE end,
           word |-> SubSeq(buf, first, end - 1)]

\* The loop of main that fills args, from each position on.
ArgsFrom(buf) ==
  LET from[i \in 1..Len(buf) + 1] ==
        LET next == p1getword(buf, i)
        IN IF next.index = -1 THEN <<>> ELSE <<next.word>> \o from[next.index]
  IN from
args(buf) == ArgsFrom(buf)[1]

\* Reference: one pass over the line, character by character.  mode is "blank",
\* "bare", or the quote that is open; word is the one that has begun.
Scan(state, c) ==
  LET begins == state.mode = "blank" /\ c \notin whitespace
      ends == IF state.mode = "bare" THEN c \in whitespace ELSE c \in quotes /\ c = state.mode
  IN CASE state.mode = "blank" /\ c \in whitespace -> state
       [] begins /\ c \in quotes    -> [mode |-> c, words |-> state.words, word |-> <<>>]
       [] begins /\ c \notin quotes -> [mode |-> "bare", words |-> state.words, word |-> <<c>>]
       [] state.mode # "blank" /\ ends ->
            [mode |-> "blank", words |-> Append(state.words, state.word), word |-> <<>>]
       [] state.mode # "blank" /\ ~ends ->
            [mode |-> state.mode, words |-> state.words, word |-> Append(state.word, c)]
ScanStates(line) ==
  LET after[j \in 0..Len(line)] ==
        IF j = 0 THEN [mode |-> "blank", words |-> <<>>, word |-> <<>>]
        ELSE Scan(after[j - 1], line[j])
  IN after
\* The words so far; at the end, the one that has begun is a word too.
WordsOf(state) == IF state.mode = "blank" THEN state.words ELSE Append(state.words, state.word)
Scanned(line) == WordsOf(ScanStates(line)[Len(line)])

-----------------------------------------------------------------------------
(* Numbers.  Divisors are positive; C truncates towards zero. *)

digits == <<"0", "1", "2", "3", "4", "5", "6", "7", "8", "9">>
Digits == {digits[j] : j \in 1..10}
Value(c) == (CHOOSE j \in 1..10 : digits[j] = c) - 1

Rem(n, d) == IF n >= 0 THEN n % d ELSE -((-n) % d)
Quot(n, d) == IF n >= 0 THEN n \div d ELSE -((-n) \div d)
Negated(n, min) == IF n = min THEN min ELSE -n

\* The digits of n from the right, with n % 10 as the index into the table of
\* digits: the index of a negative n is outside it.
DigitsBackwards[n \in Int] ==
  IF n = 0 THEN <<>>
  ELSE <<IF Rem(n, 10) >= 0 THEN digits[Rem(n, 10) + 1] ELSE "outside">> \o DigitsBackwards[Quot(n, 10)]

(* Mutant: the sign is stored before the digits, which are then reversed. *)
p1itoaSignFirst(n, min) ==
  IF n = 0 THEN <<"0">>
  ELSE IF n < 0 THEN Reverse(<<"-">> \o DigitsBackwards[Negated(n, min)])
  ELSE Reverse(DigitsBackwards[n])
\* p1itoa and p1ltoa, for integers from min on: the most negative one has no negation.
p1itoa(n, min) ==
  IF n = 0 THEN <<"0">>
  ELSE IF n < 0 THEN Reverse(Append(DigitsBackwards[Negated(n, min)], "-"))
  ELSE Reverse(DigitsBackwards[n])
p1ltoa(n, min) == p1itoa(n, min)
V4p1ltoa(n, min) == p1itoa(n, min)

\* p1atoi and p1atol stop at the first character that is no digit; both wrap.
Wrap(n, min) == ((n - min) % (-2 * min)) + min
\* ans after each of the first n characters.
Ans(s, n, min) ==
  LET ans[j \in 0..n] == IF j = 0 THEN 0 ELSE Wrap(10 * ans[j - 1] + Value(s[j]), min)
  IN ans
p1atoi(s, min) ==
  LET stop == {j \in DOMAIN s : s[j] \notin Digits}
      n == IF stop = {} THEN Len(s) ELSE (CHOOSE j \in stop : \A l \in stop : j <= l) - 1
  IN Ans(s, n, min)[n]
p1atol(s, min) == p1atoi(s, min)

-----------------------------------------------------------------------------
(* Shortened numbers.  num has the digits of a number, most significant first. *)

CutAt(num, at, unit) == SubSeq(num, 1, at) \o unit

(* Mutant: one digit too few is cut for millions. *)
collapse_numLong(num) ==
  LET len == Len(num)
  IN CASE len >= 16 -> CutAt(num, len - 15, <<"Q">>)
       [] len \in 13..15 -> CutAt(num, len - 12, <<"T">>)
       [] len \in 10..12 -> CutAt(num, len - 9, <<"B">>)
       [] len \in 7..9 -> CutAt(num, len - 5, <<"M">>)
       [] len \in 4..6 -> CutAt(num, len - 3, <<"K">>)
       [] OTHER -> num
collapse_num(num) ==
  LET len == Len(num)
  IN CASE len >= 16 -> CutAt(num, len - 15, <<"Q">>)
       [] len \in 13..15 -> CutAt(num, len - 12, <<"T">>)
       [] len \in 10..12 -> CutAt(num, len - 9, <<"B">>)
       [] len \in 7..9 -> CutAt(num, len - 6, <<"M">>)
       [] len \in 4..6 -> CutAt(num, len - 3, <<"K">>)
       [] OTHER -> num
collapse_bytes(num) ==
  LET len == Len(num)
  IN CASE len >= 13 -> CutAt(num, len - 12, <<" ", "T", "B">>)
       [] len \in 10..12 -> CutAt(num, len - 9, <<" ", "G", "B">>)
       [] len \in 7..9 -> CutAt(num, len - 6, <<" ", "M", "B">>)
       [] len \in 4..6 -> CutAt(num, len - 3, <<" ", "K", "B">>)
       [] OTHER -> num

\* Reference: every unit stands for three digits more than the one before it, and
\* digits are dropped by threes.
Shortened(num, units) ==
  LET steps == (Len(num) - 1) \div 3
      u == IF steps <= Len(units) THEN steps ELSE Len(units)
  IN IF u = 0 THEN num ELSE SubSeq(num, 1, Len(num) - 3 * u) \o units[u]

\* p1strpack: st with fill up to |fw|, before it when fw < 0; never cut.
p1strpack(st, fw, fc) ==
  LET n == IF fw < 0 THEN -fw - Len(st) ELSE fw - Len(st)
      fill == [j \in 1..(IF n > 0 THEN n ELSE 0) |-> fc]
  IN IF fw < 0 THEN fill \o st ELSE st \o fill

-----------------------------------------------------------------------------
(* The row uspsv4 (directory v4) prints of a process, from three files of      *)
(* /proc.  A file is the sequence of its characters.                           *)

\* A line ends after its newline, at the end of the file or when the buffer is full.
p1getline(file, size) ==
  LET end == FirstFrom(file, 1, {"\n"})
      room == IF Len(file) < size - 1 THEN Len(file) ELSE size - 1
  IN SubSeq(file, 1, IF end <= room THEN end ELSE room)
Lines(file, size) ==
  LET from[i \in 1..Len(file) + 1] ==
        LET line == p1getline(SubSeq(file, i, Len(file)), size)
        IN IF line = <<>> THEN <<>> ELSE <<line>> \o from[i + Len(line)]
  IN from[1]

Path(pid, name) == <<"/proc/">> \o pid \o <<name>>

\* Every argument ends in a NUL, which becomes a blank unless another one follows: an
\* empty argument ends the command.  p1getline adds a NUL of its own; after the line of
\* a zombie, which is empty, the loop runs into what the buffer held before, stale.
Command(line, stale) ==
  LET buf == line \o <<"NUL">> \o stale
      end == CHOOSE j \in 1..Len(buf) - 1 :
               /\ buf[j] = "NUL" /\ buf[j + 1] = "NUL"
               /\ \A l \in 1..j - 1 : buf[l] # "NUL" \/ buf[l + 1] # "NUL"
  IN [j \in 1..end - 1 |-> IF buf[j] = "NUL" THEN " " ELSE buf[j]]

\* The second word of a line of io; blanks end a word and a newline does not, so the
\* word loses its last character.
Counter(lines, j) == collapse_num(Front(args(lines[j])[2]))

convert_ticks(num, perSecond, min) == collapse_num(p1ltoa(p1atol(num, min) \div perSecond, min))
convert_pages(num, pageSize, min) == collapse_bytes(p1ltoa(p1atoi(num, min) * pageSize, min))

\* Nine columns, left justified, then the command; nothing when a file is missing.  proc
\* is a function from the paths that exist; sys is what sysconf answers and the buffers.
Widths == <<9, 8, 8, 7, 8, 8, 8, 8, 8>>
display(proc, pid, sys) ==
  LET paths == {Path(pid, name) : name \in {"/cmdline", "/io", "/stat"}}
      io == Lines(proc[Path(pid, "/io")], sys.size)
      stat == args(p1getline(proc[Path(pid, "/stat")], sys.size))
      columns == <<pid, Counter(io, 3), Counter(io, 4), stat[3], collapse_num(stat[12]),
                   convert_ticks(stat[14], sys.ticks, sys.min), convert_ticks(stat[15], sys.ticks, sys.min),
                   collapse_bytes(stat[23]), convert_pages(stat[24], sys.page, sys.min)>>
  IN IF ~ paths \subseteq DOMAIN proc THEN <<>>
     ELSE FoldLeft(LAMBDA res, j : res \o p1strpack(columns[j], Widths[j], " "), <<>>, [j \in 1..9 |-> j])
          \o Command(p1getline(proc[Path(pid, "/cmdline")], sys.cmd), sys.stale)
=============================================================================
