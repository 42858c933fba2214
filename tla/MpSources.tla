----------------------------- MODULE MpSources -----------------------------
(***************************************************************************)
(* The random source: one the client has set, or the sources of the        *)
(* platform, of which the next is tried when one has failed.  A system     *)
(* call may be interrupted, and is made again; it may give fewer bytes     *)
(* than asked for, and is made again for the rest.                         *)
(***************************************************************************)
EXTENDS MpCall, Sequences

(* In the order s_mp_rand_platform tries them.                             *)
PlatformSources == << "arc4random", "wincsp", "getrandom", "urandom" >>

(* has are the sources of the build, own is whether the client has set one *)
(* instead, size the number of bytes asked for.                            *)
SourceFrames ==
  [op : {"random"}, has : SUBSET {"arc4random", "wincsp", "getrandom", "urandom"},
   own : BOOLEAN, size : Nat]

(* A byte of the buffer is known by the source that has written it.        *)
Unwritten == [k \in 0 .. fr.size - 1 |-> "caller"]
WrittenBy(source) == [k \in 0 .. fr.size - 1 |-> source]

(* The source being tried has failed.                                      *)
TryNext == loc' = loc /\ pc' = "platform" /\ live' = {} /\ UNCHANGED << val, fr, err, old >>

-----------------------------------------------------------------------------
mp_rand_source ==
  /\ pc = "random"
  /\ \/ fr.own /\ Refuse("ERR", {})
     \/ fr.own /\ Answer(WrittenBy("own"), {})
     \/ /\ ~ fr.own
        /\ loc' = [tried |-> 0, p |-> Unwritten, q |-> 0, n |-> fr.size]
        /\ Goto("platform")

(* Every source begins at the beginning of the buffer.                     *)
s_mp_rand_platform ==
  /\ pc = "platform"
  /\ LET left == {i \in loc.tried + 1 .. Len(PlatformSources) : PlatformSources[i] \in fr.has}
         next == CHOOSE i \in left : \A j \in left : i <= j
     IN  \/ left = {} /\ Refuse("ERR", {})
         \/ /\ left # {}
            /\ loc' = [loc EXCEPT !.tried = next, !.q = 0, !.n = fr.size]
            /\ Goto(PlatformSources[next])

s_read_arc4random == pc = "arc4random" /\ Answer(WrittenBy("arc4random"), {})

s_read_wincsp == pc = "wincsp" /\ (TryNext \/ Answer(WrittenBy("wincsp"), {}))

(* A call gives some of the bytes.                                         *)
Given(source) ==
  /\ loc.n > 0
  /\ \E ret \in 1 .. loc.n :
       loc' = [loc EXCEPT !.p = [k \in DOMAIN loc.p |-> IF k \in loc.q .. loc.q + ret - 1 THEN source
                                                        ELSE loc.p[k]],
                          !.q = loc.q + ret, !.n = loc.n - ret]

Interrupted == loc' = loc /\ Goto(pc)

s_read_getrandom ==
  /\ pc = "getrandom"
  /\ \/ Given("getrandom") /\ Goto(pc)
     \/ loc.n > 0 /\ (Interrupted \/ TryNext)
     \/ loc.n = 0 /\ Answer(loc.p, {})

(* The device is opened, read, and closed on every path.                   *)
urandom_open ==
  /\ pc = "urandom"
  /\ \/ Interrupted \/ TryNext
     \/ loc' = loc /\ live' = {"fd"} /\ pc' = "read" /\ UNCHANGED << val, fr, err, old >>

s_read_urandom ==
  /\ pc = "read"
  /\ \/ Given("urandom") /\ Goto(pc)
     \/ loc.n > 0 /\ (Interrupted \/ TryNext)
     \/ loc.n = 0 /\ Answer(loc.p, {"fd"})

SourceNext ==
  \/ mp_rand_source \/ s_mp_rand_platform \/ s_read_arc4random \/ s_read_wincsp
  \/ s_read_getrandom \/ urandom_open \/ s_read_urandom

-----------------------------------------------------------------------------
(* A source that succeeds has filled the buffer: no byte is the caller's,  *)
(* and none is left of a source that has failed halfway.  arc4random does  *)
(* not fail, and no source is asked if the client has its own.             *)
SourcesCorrect ==
  /\ Succeeded("random") =>
       \E source \in (IF fr.own THEN {"own"} ELSE fr.has) : loc.answer = WrittenBy(source)
  /\ Done("random") /\ err # "OKAY" => err = "ERR" /\ (fr.own \/ "arc4random" \notin fr.has)

(* While one is read the bytes it has given are at the beginning, and the  *)
(* rest is as the sources before it have left it.                          *)
SourceLoopInvariant ==
  pc \in {"getrandom", "read"} =>
    /\ loc.q + loc.n = fr.size
    /\ \A k \in 0 .. loc.q - 1 : loc.p[k] = PlatformSources[loc.tried]
    /\ \A k \in loc.q .. fr.size - 1 : loc.p[k] # PlatformSources[loc.tried]
=============================================================================
