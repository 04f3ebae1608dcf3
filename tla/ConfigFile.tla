------------------------------ MODULE ConfigFile ------------------------------
(***************************************************************************)
(* Loading a configuration file: each line loses its comment, is split at  *)
(* its delimiters, and its first two tokens are a key and its value.  A    *)
(* line is a sequence of characters: Delim is any of the delimiters, Hash  *)
(* begins a comment, all others make tokens.  Positions count from 0.      *)
(***************************************************************************)
EXTENDS Integers, Sequences

CONSTANTS
    NoFile,    \* the file that cannot be opened
    Delim,      \* one of " ,=\t\r\n"
    Hash,       \* "#"
    Chars,      \* the other characters
    MaxLength,  \* bound: characters of a line
    MaxLines    \* bound: lines of a file

ASSUME ConfigAssumption ==
    /\ MaxLength \in Nat /\ MaxLines \in Nat
    /\ Delim \notin Chars /\ Hash \notin Chars /\ Delim # Hash

Npos == -1

VARIABLES
    file,     \* the lines, or NoFile
    pc,       \* "open", "getline", "split", "done" or "threw"
    lineno,   \* the lines read
    line,     \* the line in work, without its comment
    index,    \* split's position
    tokens,   \* split's result so far
    map       \* the settings: a set of pairs of key and value

configVars == <<file, pc, lineno, line, index, tokens, map>>

At(l, i) == l[i + 1]
Smallest(S) == IF S = {} THEN Npos ELSE CHOOSE i \in S : \A j \in S : i <= j

FindFirstOf(l, c, from) == Smallest({i \in from .. Len(l) - 1 : At(l, i) = c})
FindFirstNotOf(l, c, from) ==
    Smallest({i \in from .. Len(l) - 1 : At(l, i) # c})

-----------------------------------------------------------------------------
\* A file without a character throws like one that is missing.
Open ==
    /\ pc = "open"
    /\ pc' = IF file = NoFile \/ file = <<>> THEN "threw" ELSE "getline"
    /\ UNCHANGED <<file, lineno, line, index, tokens, map>>

Uncommented(l) ==
    LET pos == FindFirstOf(l, Hash, 0)
    IN  IF pos = Npos THEN l ELSE SubSeq(l, 1, pos)

\* split begins at the first character of a token.
GetLine ==
    /\ pc = "getline" /\ lineno < Len(file)
    /\ lineno' = lineno + 1
    /\ line' = Uncommented(file[lineno + 1])
    /\ index' = FindFirstNotOf(line', Delim, 0)
    /\ tokens' = <<>>
    /\ pc' = "split"
    /\ UNCHANGED <<file, map>>

\* Mutant: the delimiter after a token is taken for two characters.
NextTokenAt2(l, end) == FindFirstNotOf(l, Delim, end + 2)

NextTokenAt(l, end) == FindFirstNotOf(l, Delim, end + 1)

Split ==
    /\ pc = "split" /\ index # Npos
    /\ LET found == FindFirstOf(line, Delim, index)
           end   == IF found = Npos THEN Len(line) ELSE found
       IN  /\ tokens' = Append(tokens, SubSeq(line, index + 1, end))
           /\ index' = NextTokenAt(line, end)
    /\ UNCHANGED <<file, pc, lineno, line, map>>

HasKey(key) == \E s \in map : s[1] = key

\* emplace: the first value of a key stays; what follows it is ignored.
EmplaceSetting ==
    /\ pc = "split" /\ index = Npos
    /\ map' = IF Len(tokens) >= 2 /\ ~HasKey(tokens[1])
              THEN map \cup {<<tokens[1], tokens[2]>>} ELSE map
    /\ pc' = "getline"
    /\ UNCHANGED <<file, lineno, line, index, tokens>>

Finish ==
    /\ pc = "getline" /\ lineno = Len(file)
    /\ pc' = "done"
    /\ UNCHANGED <<file, lineno, line, index, tokens, map>>

Lines == UNION {[1 .. n -> Chars \cup {Delim, Hash}] : n \in 0 .. MaxLength}

Files == {NoFile} \cup UNION {[1 .. n -> Lines] : n \in 0 .. MaxLines}

ConfigStart(files) ==
    /\ file \in files
    /\ pc = "open"
    /\ lineno = 0
    /\ line = <<>>
    /\ index = Npos
    /\ tokens = <<>>
    /\ map = {}

ConfigInit == ConfigStart(Files)

ConfigNext == Open \/ GetLine \/ Split \/ EmplaceSetting \/ Finish

ConfigSpec == ConfigInit /\ [][ConfigNext]_configVars

-----------------------------------------------------------------------------
(* Properties *)

\* The tokens of a line: its longest runs of characters that are neither
\* delimiters nor behind a comment sign.
InToken(l, i) == \A j \in 1 .. i : l[j] # Hash
                                   /\ (j = i => l[j] # Delim)
Token(l, i) ==
    LET last == CHOOSE j \in i .. Len(l) :
                   /\ \A k \in i .. j : InToken(l, k)
                   /\ j < Len(l) => ~InToken(l, j + 1)
    IN  SubSeq(l, i, last)
Starts(l) == {i \in DOMAIN l : InToken(l, i) /\ (i > 1 => ~InToken(l, i - 1))}

\* The first token that begins after position i; a line with two tokens
\* sets the first to the second.
StartAfter(l, i) == CHOOSE j \in Starts(l) :
                       j > i /\ \A k \in Starts(l) : k > i => j <= k
HasSetting(l) == \E i, j \in Starts(l) : i < j
Key(l)   == Token(l, StartAfter(l, 0))
Value(l) == Token(l, StartAfter(l, StartAfter(l, 0)))

\* A loaded file has for each key the value of the first line that sets it,
\* and no other settings; a file of no lines, or none, is not loaded
\* (load_from_file and split against the tokens as defined above).
FirstSettingHolds ==
    /\ pc = "done" =>
          map = {<<Key(file[n]), Value(file[n])>> : n \in {m \in DOMAIN file :
                    /\ HasSetting(file[m])
                    /\ \A k \in 1 .. m - 1 :
                          HasSetting(file[k]) => Key(file[k]) # Key(file[m])}}
    /\ pc = "threw" => file = NoFile \/ file = <<>>
=============================================================================
