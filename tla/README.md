# jstring in TLA+

This directory specifies the C library in `src/` (header-only string functions)
in TLA+, checks the specifications with TLC on small instances and proves the
central ones with TLAPS.

    tlc -config MCJstrBuilder.cfg MCJstrBuilder.tla     # one per .cfg, see "Runs"
    tlapm JstrBuilder_proofs.tla

A reader new to it should start with `JstrMem` and `JstrBuilder`, which are
extended or imitated by everything else.

## 1. The system

jstring is a set of headers. There are no threads, no global state but the
caller's strings and no persistent data. What makes it hard is a mutable buffer
that is described by three numbers (`data`, `size`, `capacity`) every one of some
two hundred functions has to keep consistent, through reallocation, through
pointers into the block that go stale, through loops that read and write the same
bytes, and through system calls that fail or do half of what they were asked.

| Component | State | Operations | What is hard | What makes it correct |
|---|---|---|---|---|
| Byte blocks, copying (`stdstring.h`, `string.h`) | a heap block | `strmove_len`, `strcpy_len`, `memmem`, `memrmem` ... | overlap, where the terminator goes | they write exactly the bytes they are to |
| Growable string (`builder.h`, `struct.h`) | `jstr_ty` | reserve family, append, prepend, push, pop, assign, fill, cat, printf family, shrink, free | a size, a capacity and a block that drift apart; failing `realloc` and `vsprintf`; the byte of the terminator | no access outside the block, the terminator stays, contents are those of a character sequence |
| Reservation arithmetic (`builder.h`) | a `size_t` | the doubling loop | it may wrap and never end | the capacity granted covers the request; the loop ends |
| Replace and remove (`replace.h`) | three cursors into one block, two passes | `rm`, `rmn`, `rmlast`, `rplc`, `rplcn`, `rplclast` for strings and characters | writes run towards unread text; the block moves between the passes; matches counted and matches replaced must be the same | the result is that of a left-to-right replacement of non-overlapping matches |
| Insert, place, repeat (`replace.h`, `string.h`) | block, array of offsets | `insert`, `insertafter`, `insertafterall`, `place`, `placeafter`, `repeat_len` | the rebuild goes backwards over the text it moves; offset arithmetic wraps | result, bounds, string unchanged after a failure |
| Character sets (`replace.h`) | cursors in a NUL terminated string | `rplcspn`, `rmspn`, `rmallspn`, `stripspn`, `rmnchr`, `rplcnchr` | the byte that stops the loop is in the buffer the loop compacts | size is the length, exactly the characters of the set go |
| Writing files (`io.h`) | descriptor or stream, iovec, count | `writefilefd`, `writefile`, `fwritefilefp`, `fwritefile` | partial `writev` over two buffers; four steps that may fail | the file is a prefix of the text, success means all of it, everything opened is closed |
| Reading files and pipes (`io.h`) | descriptor, string | `readfile*`, `freadfile*`, `readstdin`, `readsystem` | short reads, a file truncated while read, growth in the middle, failure after the capacity was stored | success means complete, bounds, descriptor closed, the size after a failure still fits |
| Regular expressions (`regex.h`) | compiled expression, three cursors, a flag for the empty match before | `rm`, `rmn`, `rplc`, `rplcn`, with and without back references | empty matches, `regexec` or a reservation failing half way, text compacted below the text that is searched, lengths computed by one loop and copied by another | the matches reported, and nothing else, are rewritten; the string is usable after a failure; the loop ends |
| Directory walk (`io.h`) | a stack of open directories, one path buffer for all of them, a request to stop | `jstr_io_ftw` | every level must cut the path back; stop and success share a value; links make the tree endless | `FUNC` gets each entry the flags ask for, with its own path; everything opened is closed; nothing happens after a stop |
| Paths (`io.h`) | string | `expandtilde`, `appendpath` | size of the result, the terminator | result and room |
| Substring search (`internal/musl/twoway.h`, `string.h`) | a window, what is remembered of it | `jstr_memmem`, `jstr_memrmem`, `strcasestr`, `strstr` and their counts | critical factorisation, shifts, periods, an end that is looked for as the search goes on | the leftmost (rightmost) match is found |
| Vectorised searches (`internal/simd.h`) | a vector at a time | `strchrnul`, `memrchr`, `strcasechrnul`, `countchr`, `memmem` by a pair of bytes ... | loads reach outside the object; masks; a pair of bytes across two vectors | the byte or pair is found, every vector loaded holds a byte of the object |
| Other `string.h` utilities | none but the save pointer of `strtok` | `rev`, `trim`, `thousep`, `unescape`, `strtok`, spans, lines, comparisons ... | text rewritten where it is read from | they compute what they say and stay in their room |
| Integer conversion (`itoa.h`) | none | `utoa`, `itoa` in any base, with separators; `atou`, `atoi` | how many bytes a number needs | digits, and the room reserved for them |
| Character classes (`ctype.h`) | none | `isspace`, `tolower` ... | -- | used by the two above |
| Macros, generators, printing, binary detection | none | -- | -- | -- |

How they interact: everything above the builder receives `(char **s, size_t *sz,
size_t *cap)` and reaches the allocator through `jstr_reserve` and
`jstr_reservealways` only; the replacement and io functions then write into the
block themselves. So the modules share the model of blocks and of reservation
(`JstrMem`), and what is proved of reservation there holds in each of them.

The list of hazards, each at its line, is in `PROJECT.json`.

## 2. The modules

| Module | Models | State |
|---|---|---|
| `JstrMem` | blocks of bytes, `memset`, `memcpy`, `memmove` and what terminates after them, the results of the searches, the outcome of `jstr_reserve(always)` | none |
| `JString` | what the builder promises, without memory: a sequence of characters on which a call succeeds or fails without effect | `str`, `last` |
| `JstrBuilder` | `builder.h` | `data`, `alloc`, `size`, `capacity`, `last`, `overrun` |
| `JstrReserve` | the doubling loop, iteration by iteration, modulo 2^Width | `pc`, `cap`, `new_cap`, `old_cap`, `first_cap`, `ret` |
| `JstrReplace` | replace and remove | the string, cursors `i.dst`, `i.src`, `i.src_e`, `first`, `last`, `end`, counters |
| `JstrInsert` | insert, place, repeat | the string, `offs`, `rd`, `wr`, counters |
| `JstrSpan` | character sets | the string, cursors, counters |
| `JstrWrite` | writing files | `file`, `fd`, `iov`, `iop`, `iol`, `left`, `failed` |
| `JstrRead` | reading files and pipes | the string, `rest`, `got`, `left`, `fd`, `short` |
| `JstrRegex` | removing and replacing what `regexec` matches | the string, cursors, `prev_zero`, `refs`; `searches` is what `regexec` was asked and answered |
| `JstrFtw` | the directory walk | `stack` of levels, `path`, `plen`, `st`, `stop`, `open` |
| `JstrCtype` | bytes and their classes | none |
| `JstrObject` | an object at an address, among other bytes, and what has been read of it | `mem`, `block`, `bytes` |
| `JstrSimd` | the searches for one byte and the case conversions, a vector at a time | `pc`, `l` (the locals) |
| `JstrTwoWay` | compiling the needle, and the two-way search | the same |
| `JstrSearch` | which search a call chooses; the short needles; the pairs of bytes | the same |
| `JstrBuffer` | a text with its terminator in a buffer, and how far a call has written | `mem`, `n`, `size`, `far`, `room` |
| `JstrText` | `rev`, `trim`, `strtok`, `repeat`, `thousep`, `unescape`, paths, a loop iteration per step | the same |
| `JstrItoa` | integer conversion | the same |
| `JstrQuery` | the functions that only look: spans, single bytes, lines, comparisons | the same |
| `JstrMem_proofs`, `JstrBuilder_proofs` (of `JstrReserve` too), `JstrReplace_proofs`, `JstrSpan_proofs`, `JstrRegex_proofs`, `JstrWrite_proofs`, `JstrRead_proofs`, `JstrFtw_proofs` | the theorems | -- |
| `MC*` | instances for TLC, and the reference definitions results are compared with | -- |

Correspondence with the code:

* A byte is a character, `NUL` or `Junk`, an indeterminate byte. `realloc` and
  `malloc` give `Junk`, so a terminator that is missing is visible as such.
* `alloc` is the true size of the block; the code cannot see it. `capacity` is
  what the code believes. An access is compared with `alloc`: one past it sets
  `overrun`, the bytes outside are not stored, and the model takes no further
  call, since the program's behaviour is undefined from there.
* In `JstrBuilder` an action is one whole call. It first reserves (nothing to do,
  grown, or failed), then writes, then sets `size`. Functions that differ only in
  how their length is found (`_len` and not, the `_unsafe` variants, which are the
  second half of the checked ones) are one action. After an error the caller
  frees the string, or goes on using it after the calls in `KeepUsing`: all but
  those of the `reserveexact` family, which store the new capacity before they ask
  for memory (`Backed` says so exactly).
* In `JstrReplace`, `JstrInsert`, `JstrSpan`, `JstrWrite` and `JstrRead` a
  behaviour is one call, `Init` chooses its arguments and its string, and an
  action is one iteration of a loop or one system call. Cursors are offsets in
  the block. A search takes one step and yields the leftmost (rightmost) match.
* `JstrReplace` moves the offsets of the first pass with the block when it grows
  (`MakeRoom`), as the code rebases its pointers.
* In `JstrRegex` the answer of `regexec` is an environment's choice, constrained by
  the class of the pattern: one that may match nothing, one that may not, one with
  anchors. The result of a replacement is built behind the string in the same block,
  and moved down at the end, as the code does.
* In `JstrFtw` a level of the recursion is a frame of `stack`; a path is a sequence
  of names and slashes with a length in bytes. The build is the one with `openat`,
  `fdopendir` and `fstatat` and without `d_type`. `visits`, `excused`, `halted` and
  `failed` are history: they record what the walk was told and what went wrong.
* `JstrSearch` extends `JstrTwoWay` and `JstrSimd`, these extend `JstrObject`; the
  chain `JstrBuffer`, `JstrText`, `JstrItoa`, `JstrQuery` is linear. In both a
  behaviour is one call of one function; an action is an iteration of one of its
  loops, a window of the search or a vector. The vectors have four bytes, the words
  three; the code's are of 16 and 8 and its algorithms do not depend on it.
* `JstrMem` takes the result of the searches from their definition (`Leftmost`,
  `Rightmost`); `JstrSearch` is the justification.
* An allocation may fail whenever it is made; no block beyond `MaxCap` is asked
  for. `vsprintf` may fail with any part of its output written.

A definition whose comment begins "Mutated form" is not part of a
specification. It is a definition with a plausible mistake in it -- a guard
dropped, a comparison off by one, a terminator forgotten -- used to see that a
property notices: put in place of the definition after it, TLC finds the property
violated (`mutants` in `PROJECT.json` pairs them).

## 3. Runs

| Run | Configuration | Question |
|---|---|---|
| `builder` | `MCJstrBuilder.cfg` | Do any calls in any order, with any failures, leave the block, lose the terminator or differ from a character sequence? |
| `reserve` | `MCJstrReserve.cfg` | Does the doubling loop give enough, no more than it should, and end? |
| `replace` | `MCJstrReplace.cfg` | Are replacement and removal those of the reference definition, in bounds, without overwriting unread text? |
| `insert` | `MCJstrInsert.cfg` | The same for insertion, placing and repetition. |
| `span` | `MCJstrSpan.cfg` | The same for character sets. |
| `write` | `MCJstrWrite.cfg` | However writes are split and whatever fails, is the file a prefix, and is success complete? |
| `read` | `MCJstrRead.cfg` | However reads are split and whatever fails, is success complete, and is failure safe? |
| `regex` | `MCJstrRegex.cfg` | Whatever `regexec` answers, are exactly its matches rewritten, in bounds, from the original text, and does the call end? |
| `ftw` | `MCJstrFtw.cfg` | Is every entry asked for visited with its own path, everything closed, every error returned, and does the walk end? |
| `search` | `MCJstrSearch.cfg` | Do the algorithms find what the definitions say, wherever the object lies, and read only what they may? |
| `text` | `MCJstrText.cfg` | Does every text function compute what it says, in the room it has? |
| `partial_writev` | `MCJstrWritePartial.cfg` | refuted, see below |

What they show:

Type correctness of the builder and of the reservation is proved and not run;
elsewhere `TypeOK` is a conjunct of the invariant over the cursors. What a run
shows and a theorem states too is marked (proved).

* **builder** (all proved). `Backed`: the capacity is the block's size, unless a call of the
  `reserveexact` family has failed; `RoomForNul`: an allocated block always has a byte
  for the terminator beyond `size`; `InBounds`: no sequence of calls accesses a
  byte outside, with one exception, `jstr_assignnchr` of no characters to a string
  without a block (it compares `n` with the size, so it reserves nothing, and
  stores the terminator through `NULL`); `KeepsTerminator`: a terminated string
  stays terminated, but for `jstr_pushbackn` and a failed formatting call.
  `RefinesJString`: `JstrBuilder` implements `JString` under
  `str <- Prefix(data, size)`.
* **reserve.** `SuccessCovers` (proved) and `GrantedIsFirstDoubling` justify the one-step
  outcome `Doubled` that `JstrMem` uses; `FeasibleReturns` is the liveness that
  does hold.
* **replace.** `ReplacesAll` (proved) compares with the definition of the result in
  `JstrReplace`: `Run(call, k)` treats the k leftmost matches that do not overlap, one
  after the other. `LoopInvariant` compares with a second definition, by recursion on
  the rest of the text, at every iteration of the loops in place (what is written,
  followed by the replacement of what is unread, is the result) and at the end: so
  the two definitions agree. `NeverClobbers` (proved) is the geometry of the cursors that
  makes it true and keeps the call inside the block.
* **insert.** `Produces` compares with a definition of each call. `OverrunsAreKnown` characterises the calls that leave the block.
  There are exactly three kinds: a text placed so that it ends at the capacity
  (`jstr_place_len` reserves no byte for the terminator it writes), `placeafter`
  near the start of the string (a wrapped offset), and the empty string repeated
  (`memset` of `n` bytes where one was reserved). `Produces` has the premise that
  the string was terminated: `jstr_insert_len` moves the terminator along with the
  text, so into the zero-initialised string it moves an indeterminate byte.
* **span** (all but `Returns` proved). `SizeIsLength`: the size left behind is the length of the string.
  `TreatsExactly`: exactly the characters of the set go, and the loop never
  overwrites what it has still to read.
* **write** (all but `Returns` proved). `FileIsPrefix` relates file, text and count of what is left at every
  step; `EndsWell` the result to what the system reported.
* **read** (all but `Returns` proved). A file truncated meanwhile is always an error. Of `stdin` the rest is lost after
  a read that was short before the end, and of a command when the first read was
  cut short: `SuccessIsComplete` names these two cases. `FailureFits`: after a
  failure the size fits the block, except that a failed growth of a pipe's string
  leaves no room for a terminator.
* **regex** (all but `Returns` proved). `Rewrites` compares with a definition (`Rewritten`, `Expanded`)
  that reads references by the parity of the backslashes before them, not by a scan. `SearchesOriginal`: the text each search
  gets, and whether it is told that a line begins there, are those of the original
  string. `FailureLeaves` says what is left after an error: the string, but for a
  removal that `regexec` broke off, which has compacted a part and kept the size, and for a
  replacement that could not grow, which has the size of all it has written.
  `InBounds` has one exception: the scan for the first reference runs past a
  template that ends in a backslash and one more character and has no reference.
  An empty match directly after a match is counted, except at the end.
* **ftw.** `OwnPath`: path, length and status given to `FUNC` are those of the entry, with
  four exceptions the source has: after a failed `fstatat` that is not fatal, `FUNC`
  gets what the entry before left, unless `REG` or `DIR` is set; below `/` the paths begin with two
  slashes; the terminator of a path of `PATH_MAX` bytes is stored one byte behind
  the buffer; the name of a single file behind a slash has a wrong length.
  `VisitsAll`: all the flags ask for, and nothing else, in a walk that was not
  halted; what is behind a link to a directory too. All but `Returns` are proved.
* **search.** `Finds` compares every call with a definition of its result;
  `SkipsNoMatch` says of every window that no match is behind it;
  `TouchesObject` that every vector loaded holds a byte of the object. Three calls
  leave the object. `jstr_memrchr` that does not find its character in an aligned object
  loads the vector before it, which changes no result. `strcasestr_exec` with a needle
  of two steps over the terminator of an empty string and reads on to the next NUL: a
  match it meets there, behind the string, is returned. `memrmem` with a needle of eight
  bytes or more takes the length up to the last first character as an `unsigned int`: in
  4 GiB and more it searches only the beginning that the rest of the division leaves,
  and when that rest is shorter than the needle, what lies before the haystack, down to
  4 GiB before it. The three properties name these calls and `Finds` states what they
  return (`FoundPast`, `FoundKept`). That a page behind or before may not be mapped, so
  that such a read faults, is not modelled. `strnchr` and `strncasechr` return a
  terminator they meet before the length.
* **text.** `Computes` compares each call with a definition of its result, and says
  that one that fails leaves the string alone. `Fits`: nothing is read or written outside
  of what a call reserves or is to be given, with exceptions it names: see the table
  below, and the functions that look at the byte they stop at
  (`mempbrk`, `linenext`, `linenextnul_len`, `memspn` with one character).
  Where the code computes something odd the definition in `MCJstrText` says so:
  `atoi_len` reads "-12" as 31, numbers up to 999 have no separators in any base,
  `expandtildefirst` leaves a size one too large; the results that contradict what is
  said of the functions are in the table below.

### Where the code and its documentation disagree

The run `partial_writev` checks one statement of the repository and TLC refutes it.
The others are stated, as exceptions, by the properties of the passing runs.

| Statement | What happens | Where |
|---|---|---|
| `io.h:170` "Handle partial writev" | with one byte left the code goes on to the second buffer whatever the byte is; if it belongs to a text that ends with a newline, nothing more can be written and the call fails without a system error | run `partial_writev` |
| `builder.h:140` "Return JSTR_RET_ERR on malloc error" | a request above the largest doubling of the capacity wraps the loop variable to 0; the loop never ends | `FeasibleReturns` holds up to half of the address space |
| `regex.h:374` asserts `strlen(*s) == *sz` | `jstr_pushbackn` reserves a byte for the terminator and does not write it | `KeepsTerminator` |
| `builder.h:141` "NEW_CAP must include NUL" | `jstr_place_len` reserves `at + src_len` and stores the terminator there | `OverrunsAreKnown` |
| `replace.h:1385` "Place SRC after C in DST" | the offset is `JSTR_DIFF(p, *s + 1)`, one before the match | `OverrunsAreKnown`, `Returns` |
| `io.h:1142` "JSTR_RET_ERR on error." | with `ACTIONRETVAL` an error below the first directory is lost: the level above looks at the request to stop only (`io.h:1102`) | `Reports` |
| `itoa.h:35` "Maximum digit count for T in BASE (worst case value)" | the sign is counted nowhere: a negative number that fills all the digits counted stores its terminator one byte past what was reserved. That can be in base 8 for 32 and 64 bits, in bases 32 to 35 for 32 (7 digits) and in bases 32 to 36 for 64 (13 digits), `INT_MIN` and `LLONG_MIN` among them | `Fits` (`FillsDigits`) |
| `string.h:779` "NULL if not found" (`strcasestr`, of which `_exec` is the compiled form) | with two characters, `strstr-lt8.h:139` steps before it looks at the byte: of an empty string it passes the terminator and may return a match behind the string | `Finds`, `TouchesObject` |
| `string.h:627` "Find last NE in HS", "NULL if not found" | `strstr-lt8.h:94` takes the length as `unsigned int`: from 4 GiB on, needles of eight bytes or more are not found where they are last, or are looked for before the haystack | `Finds`, `TouchesObject`, `SkipsNoMatch` |
| `string.h:216`, `237` "strchr before s + N" | `strnchr` and `strncasechr` return the terminator when it comes before `s + N`; the version without vectors returns `NULL` | `Finds` |
| `string.h:1092`, `1109` "first non-C in S from S + N - 1" | `memrchrinv` and `strrchrinv` return the last character that is `C`, and the test (`tests/test-string-extra.c:245`) expects that | `Computes` |
| `string.h:1044` "NULL if non-C is not found" | `strchrinv` returns the terminator; `NULL` only for the empty string and `C` NUL | `Computes` |
| `string.h:904`, `931` "Otherwise, return S + SZ" | of no character, `strrspn` returns 0 and `strrcspn` the length; both return 0 where they run through | `Computes` |
| `string.h:960` "Reverse of STRPBRK" | `strrpbrk` returns the start plus the distance of the match from the end, the end when there is none, and `NULL` when the match is the last character | `Computes` |
| `string.h:1269` "ptr to next start of line. NULL if no newline was found." | `linenext_len` decides by the byte behind the newline, also when that is the end: `NULL` if it is NUL, otherwise the end itself | `Computes`, `Fits` |
| `string.h:1313` "ptr to next line or '\0'" | `linenextnul` returns a last newline itself | `Computes` |

Further exceptions, of which nothing is said anywhere: `jstr_assignnchr` of nothing, the
repeated empty string, insertion into the zero-initialised string; `atoi_len` takes the
sign for the digit 3 and leaves out the last digit; `mempbrk` without a match returns the
end unless a NUL lies there; `memspn` with one character goes on behind the length;
`strtok_ne_len` with an empty needle stays where it is. `jstr_rmallchr_len_from` (`replace.h:508`), documented to
remove from an index, has none and starts at 0: a signature and no behaviour.

### Bounds

* `builder`: blocks of up to 6 bytes with `MinCap` 3, so the doubling 3 -> 6 happens, is met
  exactly, and is refused; sources of 0 and 2 characters and counts up to 2 reach
  every alignment of size and capacity. The state graph is finite and explored
  completely: sequences of calls are of any length.
* `reserve`: 5-bit words, every request, every reachable capacity, the allocator
  refusing half of the address space; the loop's behaviour depends on the ratio of
  request and capacity and on the wrap, both of which happen.
* `replace`: every text of up to 5 characters over two letters, all needles of up
  to two letters and one of three with a self-overlap, replacements that are empty, shorter, equal
  and longer, counts 0, 1, 2, all; blocks that fit exactly or have slack. Five
  characters allow two matches of two with text before, between or after them.
* `insert`: texts of up to 4 characters, offsets up to 2 past the end, counts up to
  5 so that repetition reallocates; the word of 64 is larger than every block, as a
  `size_t` is.
* `span`: every text of up to 5 of three characters, and every set of
  them.
* `write`: every text of up to 5 characters with newlines anywhere; every split.
* `read`: contents of up to 13 distinct characters with a pipe buffer of 2, so that a pipe's string
  grows several times and the end falls before, on and after a boundary.
* `regex`: strings of up to 3 distinct characters (a byte of the result tells where
  it came from), every span `regexec` can answer with, ten templates with valid,
  invalid, escaped and trailing references, blocks that fit exactly, so that the
  reservation before the loop and in it happens, moves the block and is refused, and
  sometimes, after a doubling, finds room; 5 searches are
  more than a string of 3 needs.
* `ftw`: a tree with a file, a directory, a hidden entry that is neither, and a link
  to the top; the path of the file behind the link just exceeds the buffer of 8, so
  the walk is three to four levels deep and ends by the length. All 64 sets of
  flags, all results of `FUNC`, every call failing.
* `search`: texts of up to 9 bytes cross two vectors of 4 at every alignment, with
  misleading bytes around; needles up to 5 are periodic and not, and take every
  branch of the dispatch; chunks of 1 and 2 make the end of a haystack be looked for several times.
  An `unsigned int` ends at 6, so haystacks of 7 and 10 with a needle of a word are cut
  off, to less than the needle and to more. Behind the object the first NUL comes after
  8 bytes: there is a match behind the empty string, or none.
* `text`: texts of up to 5 characters over those that matter to each function,
  numbers at the ends of 16, 20 and 24 bits and around 999, bases 2 to 36 and outside:
  among them base 8 and bases from 32 up, in which a negative number fills its digits.

### Fairness

Each of `JstrReplace`, `JstrInsert`, `JstrSpan`, `JstrWrite`, `JstrRead`, `JstrRegex`, `JstrFtw` is a
sequential call: `WF_vars(Next)` says that a call that can take a step takes one,
since no other thread holds it up. In `JstrWrite` and `JstrRead` this includes that
a system call returns, with at least one byte or an error. The environment is under
no obligation: it need not truncate a file, and truncation is possible finitely
often only. In `JstrReserve` only the loop is fair (`WF_loopVars(Double \/ AskAllocator)`):
nobody has to make another call. `JstrBuilder` has no fairness; nothing is
promised of a caller. In `JstrFtw` fairness includes that the callbacks return. `JstrSearch` and
`MCJstrText` have none: only what is returned is stated of their calls. Deadlock
is checked in `JstrReserve`, `MCJstrSearch` and `MCJstrText`, so no call of theirs
gets stuck on the way; in the others a behaviour ends when its call has returned, or when undefined behaviour has set in.

## 4. Theorems

They hold for every value of the constants that satisfies the assumptions below: every
set of characters and of strings, every `MinCap > 0`, every `MaxCap`, every tree. One
module of theorems belongs to one specification, but for `JstrBuilder_proofs`, which has
those of the reservation too (its names are other than the builder's for that reason);
`JstrMem_proofs` holds the lemmas they share.

| Module | Theorem | States |
|---|---|---|
| `JstrBuilder_proofs` | `TypeCorrect`, `CapacityIsBacked`, `TerminatorFits`, `StaysInBounds`, `StaysTerminated` | `Backed`, `RoomForNul`, `InBounds`, `KeepsTerminator` |
| | `HoldsText`, `ImplementsJString` | every byte before the size is a character; `RefinesJString` |
| | `LoopTypeCorrect`, `SuccessSuffices`, `GrantSuffices` | of `JstrReserve`: types, `SuccessCovers`, and that what is granted is less than twice the request |
| `JstrReplace_proofs` | `StaysBehind`, `ReturnsTerminated`, `ReplacesLeftmost` | `NeverClobbers`, `EndsWell`, `ReplacesAll` |
| `JstrSpan_proofs` | `SizesAreLengths`, `TreatsExactlyThose` | `SizeIsLength`, `TreatsExactly` |
| `JstrRegex_proofs` | `StaysInside`, `SearchesUnchanged`, `FailureKeepsString`, `RewritesMatches` | `InBounds`, `SearchesOriginal`, `FailureLeaves`, `Rewrites` |
| `JstrWrite_proofs` | `WritesInOrder`, `SuccessIsWhole` | `FileIsPrefix`, `EndsWell` |
| `JstrRead_proofs` | `SuccessHoldsAll`, `FailureIsUsable` | `SuccessIsComplete`, `FailureFits` |
| `JstrFtw_proofs` | `AllClosed`, `NothingAfterStop`, `ErrorsReported`, `CallbackGetsOwnPath`, `EverythingVisited` | `Closes`, `StopsAtOnce`, `Reports`, `OwnPath`, `VisitsAll` |

Every specification has also its inductive invariant as a theorem (`Inductive`,
`LoopInductive` for the reservation, `PathsInductive` and `WalkInductive` for the second
and third one of the walk, `RewriteInductive` for the second one of the expressions). None of the properties is inductive
alone; what the invariants add is the argument:

* **Blocks** (`JstrMem_proofs`). The helpers keep the type of a block; reservation is
  sound: a buffer whose capacity is its true size is turned into one of which the same
  holds, that is no smaller, covers the request and has the bytes of the old one
  (`ReserveSound`, `GrownSound`, `ReservedLeaves`); what `memcpy`, `memmove` and the
  terminating variants leave at each byte.
* **Reservation.** The loop variable is less than twice the request, or the request is
  above all the allocator grants (`LoopInv`). A doubling that wraps starts from half of
  the modulus at least and is made only while the request is larger still; so a wrapped
  capacity is never granted.
* **Builder.** `InBounds` needs that the capacity the guard compares with is the size of
  the block (`Backed`), that a call in place has a byte for its terminator (`RoomForNul`),
  and the types. `RoomForNul` needs `Backed`, because it holds after a call only as far as
  the reservation was real. `Backed` has to say what is left after a failed exact
  reservation, and the next call is then excluded by `Callable`. There is one lemma per
  action; those that reserve and write cite `GrowAndWriteKeeps`, those that write in
  place `InPlaceKeeps`, each with the arithmetic of its own extent. The terminator
  survives a reallocation because `RoomForNul` puts it inside the old block and inside the
  new one; the calls then write a NUL at the new size, leave the byte alone, or move it
  with the text.
* **The builder implements `JString`.** `Spells(m, s)` says that a block begins with the
  characters of `s`; each helper is shown to turn a block that spells one string into one
  that spells the string the abstract action gives (`Contents` is what makes the prefix a
  string at all). Every action maps to its namesake of `JString` or to a stutter, and a
  failed call to the abstract failure.
* **Replacement, geometry.** In place, the writing cursor is not ahead of the reading one
  (`Behind`). For a longer replacement there are two passes, and what makes the second one
  safe is an inequality between them: with `n` replacements still to be made, the writing
  cursor, their gain and the unread rest end before the offset of the first match of the
  moved text (`Ahead`). `AtFirst` and `Counting` carry what the first pass has
  found through the growth of the block and the moving of the text.
* **Replacement, result.** `Replacing` says at each cursor what has been written:
  `Made(j, dst, src)`, that `j` matches make the prefix of the block out of the text
  before `src`, is `Run(call, j)`; what is unread is the original text shifted
  (`Unread`); the second pass makes as many replacements as the first one has counted
  (`SecondPass`), because both look for the leftmost match in the same text.
* **Character sets.** Here the argument counts. `HowMany(T, p)` is the number of places of
  `T` up to `p`, `T` being the places the call is to treat. Before the loop, the block holds
  what a removal has left of the text before the cursor: the byte at `m` is the character at
  the place `k` that is not in `T` and has `m` others before it (`Removed`); or the text with
  the replacement at the places in `T` (`Exchanged`). Behind the loop, text and terminator
  are as given (`Given`), so the byte that is to stop the loop is there. The number treated
  is that of the places passed, and of a call with a limit what is left of it is the rest
  (`Behind`): hence such a call stops at the right place. That the characters left are those
  of `Kept`, in order, follows because the places not in `T` are numbered without gaps by the
  same count.
* **Regular expressions, geometry.** A removal leaves alone what is not below its writing cursor,
  and everything as long as that has not fallen behind (`Compacting`): hence the byte
  before a search is the original one even when it lies below the reading cursor. A
  replacement writes behind the terminator only, with room for the unread rest
  (`Building`). That the room reserved for one match is enough rests on `SameLength`: the
  loop that measures a replacement with references (`StrLen`, which begins at the first
  reference and stops at the last one) and the loop that stores it (`Cpy`, over all of the
  template) agree on the length, for every template and every group.
* **Regular expressions, result.** The history of searches is a chain in which each begins
  where the one before it allows (`Chained`, `Resuming`), and with what is left of the
  count it makes the count asked for (`Counted`). At every search the block holds, from
  where the call builds its result up to the cursor, the text so far with the matches so
  far replaced (`Standing`, `Written`). One turn of a loop extends the definition by one
  match (`RewrittenNext`) and the block by the same bytes: moved over the gap, copied from
  the replacement, or stored by the loop that expands references. That loop reads a
  backslash and what follows it in one step; the definition asks of each place whether an
  even number of backslashes comes before it. They find the same references
  (`CpyIsExpanded`), because the scan is at a place only if it is not in the middle of an
  escape. When the loop ends, the rest of the text and the terminator are moved behind
  what is written, or all of it is moved to the front of the block.
* **Writing.** The file, what is left in the two buffers of `writev` and what is still
  counted make up the text (`Front`, `Vector`, `Plain`); `Fresh` and `Ended` add what is
  open and what has failed.
* **Reading.** The first `k` bytes of the block and the rest of the source are the content
  (`Held`), in each of the loops with the bounds of its block (`Reading`, `Piping`);
  `Complete` names what a short read makes of the end, `Usable` what a failure leaves.
* **The walk.** `Descriptors`: the open descriptors are those of the levels, and one
  more while a directory is about to become a level. `Told`: a walk that was halted
  has told so to the level above by whichever of the two signs that level looks at, the
  request to stop or the value returned. `Handed`: an error at the first directory is on
  its way out, and so is every error of a walk without `ACTIONRETVAL`.
* **The walk's paths.** All levels share one buffer. `Chain`: the directory of each level
  is a prefix of it, the directory of the level above with a slash and a name; `Here`: what
  lies behind the prefix at each place of the code; `Unseen`: what `ftw.st` describes is
  no entry that is still to be read, so an entry that gets the status of another one can
  be told from one that gets its own.
* **The walk's visits.** The invariant keeps books. What is left to do (`Todo`) is what the
  open levels have not yet read, and the entry at hand. Nothing visited or left out is among
  that or below it; what was visited lies in the tree and was asked for; and everything
  asked for that is neither visited nor left out is among what is left to do, or below it.
  Of each level it says that its directory was reached and passes the flags, and whether the
  directory itself has been visited yet (`DIRPATH`). A step turns an entry into a visit or
  an excuse, or into a level with entries of its own, or takes a level away that has none
  left. When the walk ends nothing is left to do.

The prover has no induction over data. Where a fact needs it -- a run over all matches, a
scan over a template, the bytes of a path -- it is derived from the well-ordering of the
naturals, which is a theorem about sets: a set of naturals that is not empty has a least
member (`Least`), so a set with 0 and with every successor is all of them (`Induction`), and
a function that is defined at each place by its value further on exists (`Descends`). All
recursion in the modules that are proved about is by recursive functions.

Assumptions. `BytesDistinct`: characters, NUL and Junk differ. `BoundsAssumption`,
`SrcsAssumption`, `RepeatAssumption`, `TextsAssumption`, `CountsAssumption`,
`ContentsAssumption`, `BufSizeAssumption`, `StringsAssumption`, `DigitsAssumption`,
`ValueAssumption`: the types of the constants, sizes positive.
`KeepUsingAssumption`: a caller does not go on using a string after a failed call of the
`reserveexact` family. This is a condition on the caller, and it is needed: without it the
next append writes outside the block. In `JstrReserve`, `WidthAssumption` says also that
2^Width is a positive number, which is arithmetic the provers do not know, and
`LimitAssumption` that no block is half of the address space or more (`PTRDIFF_MAX`).
Of the walk, `TreeAssumption` says that a slash is no name and that the path `/` is a
directory, `PathsAssumption` that two names in a path have a slash between them, and
`SizesAssumption` that a slash is one byte; the tree may be endless, names of any size.
Of `JstrRegex`, `AllAssumption` says that the count `(size_t)-1` is a natural number
larger than any other count a caller gives.

Only model-checked:

* liveness (`Returns`, `FeasibleReturns`): out of the prover's reach, with ENABLED;
* `GrantedIsFirstDoubling`: it speaks of powers, which the provers do not know;
* `LoopInvariant` of replacement, and the reference definitions of `MCJstrInsert`,
  `MCJstrSearch` and `MCJstrText`, which are recursive operators and kept
  apart from what is proved about;
* `JstrInsert`, and the chains of `JstrSearch` and `JstrText`.

## 5. Not modelled

* `regcomp`, `regexec` and the other calls of the C library: their outcomes are
  chosen by the environment.
* Printing and debugging, binary file detection: a scan of constant data and pure
  output, with no state across steps.
* Platform macros, code generators, tests: they are no behaviour of the library.
* The length estimator for `vsprintf` is compiled only where there is no
  `vsnprintf`, or for tests.
* The builds without SSE2, without `openat` or with `d_type`, and those that use the
  GNU functions of the C library.
* `jstr_io_readfile` without `pread` and `freadfile` without `fileno`.
* Functions that are another one under a second name, or with an attribute.
* Wrapping of the sums callers cause (`*sz + n + 1` in a `size_t`) outside `JstrReserve`
  and `placeafter`: sizes are far below the word in the other modules.

## 6. Plan

1. Proofs: the cursors of `JstrInsert`, whose result is compared with a recursive
   definition so far; that the loops of replacement preserve `LoopInvariant`.
2. Termination of the two-way search, under fairness of its loops.
3. `JstrSimd` at the widths of AVX2, where `memmem` compares a second half.
