------------------------------- MODULE MCPeer -------------------------------
(* Small instances of Peer: threads and bricks are model values; threads of *)
(* a kind, and bricks, are interchangeable in the safety runs.              *)
EXTENDS Peer, TLC

Kind(accepted, serverMode, peerMode, traffic) ==
  [accepted |-> accepted, serverMode |-> serverMode, mode |-> peerMode] @@ traffic

Traffic(threads, out, in, failed) ==
  [threads |-> threads, bricks |-> out, arrivals |-> in,
   failures |-> failed]

(* m_mode of a peer is BIO_RM_Serial unless somebody calls SetMode().       *)
SerialClient(traffic)   == Kind(FALSE, "Serial", "Serial", traffic)
SerialServer(traffic)   == Kind(TRUE, "Serial", "Serial", traffic)
ParallelClient(traffic) == Kind(FALSE, "Serial", "Parallel", traffic)
ParallelServer(traffic) == Kind(TRUE, "Parallel", "Serial", traffic)

(* Only data comes in, for a serial and for a parallel peer; only messages  *)
(* go out, and one IO thread takes their completions.                       *)
Incoming == Traffic(IOThreads \cup Workers, {}, 2, 2)
Outgoing == {Traffic({i} \cup Users, Bricks, 0, 1) : i \in IOThreads}

InOrOut == {SerialServer(Incoming), ParallelClient(Incoming)}
             \cup {SerialClient(o) : o \in Outgoing}

MixedModes  == {ParallelServer(Traffic(Threads, {}, 2, 0))}
TwoWays     == {SerialClient(Traffic(Threads, Bricks, 1, 0))}

PeerSymmetry ==
  Permutations(IOThreads) \cup Permutations(Workers) \cup Permutations(Users)
    \cup Permutations(Bricks)
=============================================================================
