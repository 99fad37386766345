----------------------------- MODULE MC_Regions -----------------------------
(* Instantiation of Regions for TLC: a 4-bit address space, a 3-bit        *)
(* regionSize, a name cap of 3, and VAD maps covering every protection     *)
(* value, both privacy flags, both VAD types and every naming path.         *)
EXTENDS Regions

MC_NameCap == 3

\* The ways a region can be named: text shorter than or longer than the cap,
\* no text and no flag, the first of two flags, a later flag.
MC_Names ==
    {[text |-> 2, flags |-> {}], [text |-> 5, flags |-> {"<heap>"}],
     [text |-> 0, flags |-> {}], [text |-> 0, flags |-> {"<stack>", "<file>"}],
     [text |-> 0, flags |-> {"<teb>"}]}

Vad(s, e, p, priv, t, n) ==
    [vaStart |-> s, vaEnd |-> e, Protection |-> p, fPrivateMemory |-> priv,
     VadType |-> t, text |-> n.text, flags |-> n.flags]

\* One region [1,3] in every variety, and two regions with a gap.
MC_Layouts ==
    {<<Vad(1, 3, p, priv, t, n)>> : p \in 0..31, priv \in BOOLEAN, t \in {1, 2}, n \in MC_Names}
    \cup {<<Vad(2, 3, 6, FALSE, 2, n), Vad(5, 7, 1, TRUE, 1, n)>> : n \in MC_Names}

\* A region of 2^(SizeBits-1) bytes: the first size regionSize cannot hold.
MC_LargeLayouts == {<<Vad(1, 4, 4, FALSE, 1, [text |-> 2, flags |-> {}])>>}

MC_Addrs == {0, 1, 3, 4, 6, 9}

MC_NonZeroAddrs == {1, 3}

MC_TpModels == {"NA", "X86", "X86PAE", "X64", "ARM64", "fail"}
=============================================================================
