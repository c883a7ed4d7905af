---------------------------- MODULE LogFormatter ----------------------------
(***************************************************************************)
(* LogFormatter of duan_src/log.{h,cc}: init(), which turns a pattern into *)
(* a list of items, and format(), which turns an event into a line.        *)
(*                                                                         *)
(* A pattern is a sequence of characters.  Only the classes that init()    *)
(* tells apart matter: '%', '{', '}', letters and everything else.         *)
(***************************************************************************)
EXTENDS Integers, Sequences, SequencesExt

CONSTANTS
    Letters,        \* the characters for which isalpha() holds
    Others,         \* characters that mean nothing to init()
    MaxPattern      \* bound: the length of the patterns that are tried

Chars == {"%", "{", "}"} \cup Letters \cup Others

ASSUME CharsAssumption ==
    Letters \cap Others = {} /\ {"%", "{", "}"} \cap (Letters \cup Others) = {}
ASSUME PatternAssumption == MaxPattern \in Nat

(* The event's field that each item writes; for T and n it is a character. *)
s_format_items ==
    [m |-> "content", p |-> "level", r |-> "elapse", c |-> "name", t |-> "threadId",
     n |-> "newline", d |-> "time", f |-> "file", l |-> "line", T |-> "tab",
     F |-> "fiberId", N |-> "threadName"]

DefaultTime == <<"default">>

Text(s) == [text |-> s]
Item(key, fmt) == [field |-> s_format_items[key],
                   fmt |-> IF key # "d" THEN << >> ELSE IF fmt = << >> THEN DefaultTime ELSE fmt]

(* The first position after i with one of the stops, Len(p) + 1 if none is.*)
Find(p, i, stops) ==
    LET at == {n \in i + 1 .. Len(p) : p[n] \in stops} IN
    IF at = {} THEN Len(p) + 1 ELSE Min(at)

NotLetter == Chars \ Letters
Closing == {"}"}

Flush(nstr) == IF nstr = << >> THEN << >> ELSE <<Text(nstr)>>

(* The second loop: a name that is not in s_format_items is an error.      *)
Directive(str, fmt) ==
    IF Len(str) = 1 /\ str[1] \in DOMAIN s_format_items
    THEN [items |-> <<Item(str[1], fmt)>>, error |-> FALSE]
    ELSE [items |-> <<Text(<<"error_format">> \o str)>>, error |-> TRUE]

(* Mutant: the position after a directive is one too far.                  *)
After_Skips(n) == n + 1
(* Where the first loop goes on after a directive that ends before n.      *)
After(n) == n

(* The name of a directive ends before n; behind a "{" its format follows. *)
HasFormat(p, n) == n <= Len(p) /\ p[n] = "{"
LastOf(p, n) == IF HasFormat(p, n) THEN Find(p, n, Closing) ELSE n - 1

(* One round of the first loop, at position i of the pattern with nstr     *)
(* collected and items made so far.  "%%" appends one '%' and leaves the   *)
(* second one to the next round.  A directive that is never closed is an   *)
(* error, after which the loop goes on behind its '%'.                     *)
Round(p, s) ==
    LET i == s.i
        n == Find(p, i, NotLetter)
        last == LastOf(p, n)
        d == Directive(SubSeq(p, i + 1, n - 1), SubSeq(p, n + 1, last - 1)) IN
    IF i > Len(p) THEN s
    ELSE IF p[i] # "%" \/ (i < Len(p) /\ p[i + 1] = "%")
    THEN [i |-> i + 1, nstr |-> Append(s.nstr, p[i]), items |-> s.items, error |-> s.error]
    ELSE IF last > Len(p)
    THEN [i |-> i + 1, nstr |-> s.nstr, items |-> Append(s.items, Text(<<"pattern_error">>)), error |-> TRUE]
    ELSE [i |-> After(last + 1), nstr |-> << >>, items |-> s.items \o Flush(s.nstr) \o d.items,
          error |-> s.error \/ d.error]

(* The loop after k rounds; each gets further, so Len(p) rounds are enough.*)
Rounds(p) ==
    LET after[k \in 0 .. Len(p)] ==
            IF k = 0 THEN [i |-> 1, nstr |-> << >>, items |-> << >>, error |-> FALSE]
            ELSE Round(p, after[k - 1])
    IN  after

init(pattern) ==
    LET s == Rounds(pattern)[Len(pattern)] IN
    [items |-> s.items \o Flush(s.nstr), error |-> s.error]

isError(pattern) == init(pattern).error

(* What one item writes: its text, or a field of the event, with the time  *)
(* format if it has one.                                                   *)
Writes(item, event) ==
    IF "text" \in DOMAIN item THEN item.text ELSE <<event[item.field], item.fmt>>

(* LogFormatter::format(): the items one after the other.                  *)
format(items, event) == [i \in DOMAIN items |-> Writes(items[i], event)]

-----------------------------------------------------------------------------
(* Properties                                                              *)

(* The reference: the patterns of n characters that are written as texts   *)
(* and directives "%key" or "%key{fmt}", each with the fields it asks for. *)
(* Two texts do not follow each other, and a directive without a format is *)
(* not followed by what would be read as part of it.                       *)
Key == [m |-> "content", p |-> "level", r |-> "elapse", c |-> "name", t |-> "threadId",
        n |-> "newline", d |-> "time", f |-> "file", l |-> "line", T |-> "tab",
        F |-> "fiberId", N |-> "threadName"]

Words(S, n) == [1 .. n -> S]
Field(k, fmt) == <<Key[k], IF k # "d" THEN << >> ELSE IF fmt = << >> THEN DefaultTime ELSE fmt>>

TextChunk(w) == [kind |-> "text", chars |-> w, out |-> w]
BareChunk(k) == [kind |-> "bare", chars |-> <<"%", k>>, out |-> Field(k, << >>)]
FullChunk(k, w) == [kind |-> "full", chars |-> <<"%", k, "{">> \o w \o <<"}">>, out |-> Field(k, w)]

Keys == Letters \cap DOMAIN Key
Texts(n) == {TextChunk(w) : w \in Words(Chars \ {"%"}, n)}
Bares == {BareChunk(k) : k \in Keys}
Fulls(n) == {FullChunk(x[1], x[2]) : x \in Keys \X Words(Chars \ {"}"}, n)}

Chunks(n) == Texts(n) \cup (IF n = 2 THEN Bares ELSE {}) \cup (IF n >= 4 THEN Fulls(n - 4) ELSE {})

MayFollow(s, c) ==
    /\ ~(s.last = "text" /\ c.kind = "text")
    /\ ~(s.last = "bare" /\ c.chars[1] \in Letters \cup {"{"})

Join(s, c) == [chars |-> s.chars \o c.chars, out |-> Append(s.out, c.out), last |-> c.kind]

Extended(S, n) == {Join(x[1], x[2]) : x \in {y \in S \X Chunks(n) : MayFollow(y[1], y[2])}}

Written[n \in 0 .. MaxPattern] ==
    IF n = 0 THEN {[chars |-> << >>, out |-> << >>, last |-> "none"]}
    ELSE UNION {Extended(Written[n - k], k) : k \in 1 .. n}

Doubled(p) == \E i \in 1 .. Len(p) - 1 : p[i] = "%" /\ p[i + 1] = "%"

(* An event each of whose fields holds its own name.                       *)
SampleEvent == [x \in {Key[k] : k \in DOMAIN Key} |-> x]

(* init() accepts exactly the patterns of that form, and a line holds the  *)
(* texts and the fields in the order in which they are written; anything   *)
(* else is reported by isError(), which keeps setFormatter() from using it.*)
(* Patterns with "%%" are left to ReadsDoubled.                            *)
ReadsPatterns ==
    \A n \in 0 .. MaxPattern :
        LET patterns == {s.chars : s \in Written[n]} IN
        /\ \A s \in Written[n] :
            ~isError(s.chars) /\ format(init(s.chars).items, SampleEvent) = s.out
        /\ \A p \in Words(Chars, n) : Doubled(p) \/ isError(p) \/ p \in patterns

(* "%%", the third form that log.cc:435 lists, stands for one '%'.         *)
ReadsDoubled ==
    LET doubled == <<"%", "%">> IN
    ~isError(doubled) /\ format(init(doubled).items, SampleEvent) = <<<<"%">>>>
=============================================================================
