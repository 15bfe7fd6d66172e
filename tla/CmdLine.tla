------------------------------ MODULE CmdLine ------------------------------
(***************************************************************************)
(* The command-line parser of cpputils.  An argument is "-x" for an option *)
(* (<<"-", x>>), something longer that begins with "-", or a plain word.   *)
(* An option is its needsVal and its accepted values: all the words that   *)
(* initVal converts (for a number, or for the names of an enumeration).    *)
(***************************************************************************)
EXTENDS Naturals, Sequences, SequencesExt

IsDashed(arg) == arg[1] = "-"

(* parse, as a walk over the arguments: "opt" is the option that waits for *)
(* its value.  initVal and helpExit abort.                                 *)
Start == [vals |-> <<>>, nonOpts |-> <<>>, opt |-> "none", aborted |-> FALSE]
Abort(s) == [s EXCEPT !.aborted = TRUE]
InitVal(s, name, val) == [s EXCEPT !.vals = [n \in DOMAIN @ \cup {name} |->
                                               IF n = name THEN val ELSE @[n]],
                                   !.opt = "none"]

MutParseArg(opts, s, arg) ==
  IF s.aborted THEN s
  ELSE IF s.opt # "none" /\ ~IsDashed(arg)
       THEN IF arg \in opts[s.opt].accepts THEN InitVal(s, s.opt, arg) ELSE Abort(s)
  ELSE IF ~IsDashed(arg) THEN [s EXCEPT !.nonOpts = Append(@, arg)]
  ELSE IF Len(arg) # 2 \/ arg[2] \notin DOMAIN opts THEN Abort(s)
  ELSE IF opts[arg[2]].needsVal THEN [s EXCEPT !.opt = arg[2]]
  ELSE InitVal(s, arg[2], <<"true">>)

ParseArg(opts, s, arg) ==
  IF s.aborted THEN s
  ELSE IF s.opt # "none"
       THEN IF arg \in opts[s.opt].accepts THEN InitVal(s, s.opt, arg) ELSE Abort(s)
  ELSE IF ~IsDashed(arg) THEN [s EXCEPT !.nonOpts = Append(@, arg)]
  ELSE IF Len(arg) # 2 \/ arg[2] \notin DOMAIN opts THEN Abort(s)
  ELSE IF opts[arg[2]].needsVal THEN [s EXCEPT !.opt = arg[2]]
  ELSE InitVal(s, arg[2], <<"true">>)

(* With ignoreFirst the first argument, the program's name, is left out.   *)
(* An option without its value fails assert(i < numArgs).                  *)
Parse(opts, args) ==
  LET s == FoldLeft(LAMBDA r, arg : ParseArg(opts, r, arg), Start, Tail(args))
  IN IF s.opt # "none" THEN Abort(s) ELSE s

-----------------------------------------------------------------------------
(* What a user means: options with their values, switches and words.       *)
Rendered(items) ==
  FoldLeft(LAMBDA r, x : r \o (IF x.is = "word" THEN <<x.val>>
                               ELSE IF x.is = "switch" THEN <<<<"-", x.name>>>>
                               ELSE <<<<"-", x.name>>, x.val>>),
           <<<<"prog">>>>, items)
Given(items, name) == SelectSeq(items, LAMBDA x : x.is # "word" /\ x.name = name)

(* What is meant is what is read: the words in their order, and for each   *)
(* option the value it was given last, also one that looks like an option; *)
(* unless some value is none the option accepts.                           *)
ReadsWhatWasMeant(opts, items) ==
  LET s == Parse(opts, Rendered(items))
      words == SelectSeq(items, LAMBDA x : x.is = "word")
      bad == \E k \in DOMAIN items :
               items[k].is = "option" /\ items[k].val \notin opts[items[k].name].accepts
  IN /\ s.aborted <=> bad
     /\ ~bad =>
          /\ s.nonOpts = [k \in DOMAIN words |-> words[k].val]
          /\ DOMAIN s.vals = {n \in DOMAIN opts : Given(items, n) # <<>>}
          /\ \A n \in DOMAIN s.vals : s.vals[n] = Last(Given(items, n)).val
=============================================================================
