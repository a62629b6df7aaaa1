------------------------------- MODULE Dentry -------------------------------
(***************************************************************************)
(* read_dentry_by_name (files.c): the loop over the boot block's entries,  *)
(* with strlen and strncmp (lib.c).  A name in an entry has NameMax bytes  *)
(* and no NUL when it is that long; a C string is an array that has a NUL  *)
(* somewhere.  A step is one turn of the loop.                             *)
(***************************************************************************)
EXTENDS Integers, Sequences

CONSTANTS
  NameMax,   \* bytes of a name in an entry (32)
  Fnames,    \* C strings to look up: functions on 0 .. n
  Dirs,      \* directories: sequences of functions on 0 .. NameMax - 1
  NUL

ASSUME DentryAssumption ==
  /\ NameMax \in Nat
  /\ \A f \in Fnames : /\ \E k \in DOMAIN f : f[k] = NUL
                      /\ \A k \in DOMAIN f : k \in Nat /\ 0 .. k \subseteq DOMAIN f
  /\ \A d \in Dirs : /\ Len(d) \in Nat /\ DOMAIN d = 1 .. Len(d)
                    /\ \A k \in DOMAIN d : DOMAIN d[k] = 0 .. NameMax - 1

VARIABLES
  fname,            \* the string to look up
  dir,              \* the entries
  name_count1,      \* how many bytes are compared
  index_dir_entry,  \* the next entry; the sequence starts at 1
  found             \* 0 while looking, -1, or the entry found

dVars == <<fname, dir, name_count1, index_dir_entry, found>>

\* For a name with no NUL strlen runs on into the entry's file type, and
\* whatever it returns is above NameMax.
Strlen(s) == IF \E k \in DOMAIN s : s[k] = NUL
             THEN CHOOSE k \in DOMAIN s : s[k] = NUL /\ \A j \in 0 .. k - 1 : s[j] # NUL
             ELSE NameMax + 1

\* strncmp(s1, s2, n) = 0.
StrncmpZero(s1, s2, n) ==
  \A i \in 0 .. n - 1 :
    (\A j \in 0 .. i - 1 : s1[j] = s2[j] /\ s1[j] # NUL) => s1[i] = s2[i]

DInit ==
  /\ fname = <<>> /\ dir = <<>>
  /\ name_count1 = 0 /\ index_dir_entry = 1 /\ found = -1

DCall ==
  /\ fname' \in Fnames
  /\ dir' \in Dirs
  /\ name_count1' = Strlen(fname')
  /\ index_dir_entry' = 1
  /\ found' = IF Strlen(fname') > NameMax THEN -1 ELSE 0

DReturn ==
  /\ found # 0
  /\ fname' = <<>> /\ dir' = <<>>
  /\ name_count1' = 0 /\ index_dir_entry' = 1 /\ found' = -1

Smaller(a, b) == IF a <= b THEN a ELSE b
Larger(a, b) == IF a >= b THEN a ELSE b

\* Mutants of Compare: only as many bytes as the string has are compared; the
\* loop stays at an entry that is not the one.
ComparePrefix ==
  /\ found = 0
  /\ IF index_dir_entry > Len(dir)
     THEN found' = -1 /\ UNCHANGED <<name_count1, index_dir_entry>>
     ELSE IF StrncmpZero(fname, dir[index_dir_entry], name_count1)
     THEN found' = index_dir_entry /\ UNCHANGED <<name_count1, index_dir_entry>>
     ELSE index_dir_entry' = index_dir_entry + 1 /\ UNCHANGED <<name_count1, found>>
  /\ UNCHANGED <<fname, dir>>

CompareStays ==
  /\ found = 0
  /\ IF index_dir_entry > Len(dir)
     THEN found' = -1 /\ UNCHANGED <<name_count1, index_dir_entry>>
     ELSE LET e == dir[index_dir_entry]
              n == Larger(name_count1, Smaller(Strlen(e), NameMax))
          IN  /\ name_count1' = n
              /\ IF StrncmpZero(fname, e, n)
                 THEN found' = index_dir_entry /\ UNCHANGED index_dir_entry
                 ELSE UNCHANGED <<index_dir_entry, found>>
  /\ UNCHANGED <<fname, dir>>

\* name_count1 only grows, to the longest name met so far.
Compare ==
  /\ found = 0
  /\ IF index_dir_entry > Len(dir)
     THEN found' = -1 /\ UNCHANGED <<name_count1, index_dir_entry>>
     ELSE LET e == dir[index_dir_entry]
              n == Larger(name_count1, Smaller(Strlen(e), NameMax))
          IN  /\ name_count1' = n
              /\ IF StrncmpZero(fname, e, n)
                 THEN found' = index_dir_entry /\ UNCHANGED index_dir_entry
                 ELSE index_dir_entry' = index_dir_entry + 1 /\ UNCHANGED found
  /\ UNCHANGED <<fname, dir>>

-----------------------------------------------------------------------------
SameName(e) == /\ Strlen(fname) = Smaller(Strlen(e), NameMax)
               /\ \A k \in 0 .. Strlen(fname) - 1 : fname[k] = e[k]

(***************************************************************************)
(* A lookup finds the first entry whose name is the string, for names of   *)
(* every length up to and at the limit, although the number of bytes it    *)
(* compares depends on the entries it has passed; a longer string, a       *)
(* prefix of a name and a name with something behind it are not found.     *)
(***************************************************************************)
LookupFirst ==
  LET same == {k \in DOMAIN dir : SameName(dir[k])} IN
  /\ found > 0 => found \in same /\ \A k \in same : found <= k
  /\ found = -1 => same = {}
=============================================================================
