----------------------------- MODULE RigsProofs -----------------------------
(***************************************************************************)
(* Proof that only set_ptt(true) keys the transmitter: of every rig the    *)
(* builders make, for any tasks, any calls they make at once, any turns at *)
(* the panel that key nothing, and any exchanges that are lost.            *)
(*                                                                         *)
(* The scripts of the four makes are taken one operation at a time: what   *)
(* an operation asks next, whatever the answers so far, is an exchange     *)
(* that cannot key the transmitter (KenwoodAsks to IcomAsks), unless the   *)
(* call is set_ptt(true).  Such an exchange leaves a transceiver that does *)
(* not transmit as it is (TextExchange, CivExchange).  The invariant that  *)
(* carries the two through a behaviour is IInv.                            *)
(***************************************************************************)
EXTENDS Rigs, SequenceTheorems, TLAPS

-----------------------------------------------------------------------------
(* Harmless exchanges.                                                     *)

\* A control line that keys the transmitter is not switched on by x.
LineKept(rig, x) ==
  x.kind = "line" => \/ rig.ptt_method = "Cat" \/ x.d.v # 1
                     \/ x.p # IF rig.ptt_method = "Dtr" THEN "DTR" ELSE "RTS"

\* Exchange x with a text protocol rig, or with an Icom, keys no transmitter.
TextHarmless(rig, x) ==
  /\ x.kind \in {"query", "set", "line"}
  /\ x.kind = "set" => x.p # "TX" \/ x.d.v = 0
  /\ x.kind = "line" => x.p \in {"DTR", "RTS"}
  /\ LineKept(rig, x)

CivHarmless(rig, x) ==
  /\ x.kind \in {"query", "ack", "line"}
  /\ x.kind = "ack" => x.p # <<\h1C, 0>> \/ x.d = <<0>>
  /\ x.kind = "line" => x.p \in {"DTR", "RTS"}
  /\ LineKept(rig, x)

\* What script s asks after the answers a is harmless.
TextAsks(rig, s, a) == Len(a) < Len(s.cmds) => TextHarmless(rig, s.cmds[Len(a) + 1])
CivAsks(rig, s, a) == Len(a) < Len(s.cmds) => CivHarmless(rig, s.cmds[Len(a) + 1])

\* The line for the transmitter is not the CW key.
Sound(rig) ==
    /\ rig.ptt_method \in PttMethod /\ rig.key_line \in KeyLine
    /\ rig.ptt_method # "Cat" => rig.ptt_method # rig.key_line

-----------------------------------------------------------------------------
(* The scripts: what the operations of each make ask.                      *)

\* Script s is one harmless exchange.
TextOne(rig, s) == \E x : TextHarmless(rig, x) /\ s.cmds = <<x>>

\* Scripts of up to three harmless exchanges ask what is harmless.
LEMMA TextScripts ==
  ASSUME NEW rig, NEW A, NEW a \in Seq(A)
  PROVE  /\ \A s : s.cmds = <<>> \/ TextOne(rig, s) => TextAsks(rig, s, a)
         /\ \A s, x, y : /\ TextHarmless(rig, x) /\ TextHarmless(rig, y)
                         /\ s.cmds \in {<<x, y>>, <<x>> \o <<y>>}
                         => TextAsks(rig, s, a)
         /\ \A s, x, y, z : /\ TextHarmless(rig, x) /\ TextHarmless(rig, y) /\ TextHarmless(rig, z)
                            /\ s.cmds \in {<<x, y>> \o <<z>>, <<x>> \o (<<y>> \o <<z>>)}
                            => TextAsks(rig, s, a)
<1> USE DEF TextAsks
<1>1. \A s : s.cmds = <<>> \/ TextOne(rig, s) => TextAsks(rig, s, a)
  BY DEF TextOne
<1>2. \A s, x, y : TextHarmless(rig, x) /\ TextHarmless(rig, y) /\ s.cmds = <<x, y>> => TextAsks(rig, s, a)
  OBVIOUS
<1>3. \A s, x, y : TextHarmless(rig, x) /\ TextHarmless(rig, y) /\ s.cmds = <<x>> \o <<y>> => TextAsks(rig, s, a)
  OBVIOUS
<1>4. \A s, x, y, z : /\ TextHarmless(rig, x) /\ TextHarmless(rig, y) /\ TextHarmless(rig, z)
                      /\ s.cmds = <<x, y>> \o <<z>>
                      => TextAsks(rig, s, a)
  OBVIOUS
<1>5. \A s, x, y, z : /\ TextHarmless(rig, x) /\ TextHarmless(rig, y) /\ TextHarmless(rig, z)
                      /\ s.cmds = <<x>> \o (<<y>> \o <<z>>)
                      => TextAsks(rig, s, a)
  OBVIOUS
<1> HIDE DEF TextAsks
<1> QED  BY <1>1, <1>2, <1>3, <1>4, <1>5, Zenon

\* What an operation of a Kenwood rig asks next is harmless, unless it is set_ptt(true).
LEMMA KenwoodAsks ==
  ASSUME NEW rig, Sound(rig), NEW A, NEW a \in Seq(A), NEW c, c[1] \in Operations,
         c[1] = "set_ptt" => c[2] = FALSE,
         rig.model.agc_command_style \in {"GcSimple", "GcVfo", "GtTimeConstant"},
         c[1] \in {"set_rit", "set_xit"} => c[3] \in Int,
         rig.model.rit_step_hz \in Nat \ {0}
  PROVE  TextAsks(rig, KenwoodDriver(rig)!Operation(c, a), a)
<1> DEFINE P(s)   == TextAsks(rig, s, a)
           One(s) == TextOne(rig, s)
           H(x)   == TextHarmless(rig, x)
<1>0. /\ \A s : s.cmds = <<>> \/ One(s) => P(s)
      /\ \A s, x, y : H(x) /\ H(y) /\ s.cmds \in {<<x, y>>, <<x>> \o <<y>>} => P(s)
      /\ \A s, x, y, z :
           H(x) /\ H(y) /\ H(z) /\ s.cmds \in {<<x, y>> \o <<z>>, <<x>> \o (<<y>> \o <<z>>)} => P(s)
  BY TextScripts
<1>a. \A cmd : H(KenwoodDriver(rig)!execute_command(cmd))
  BY DEF TextHarmless, LineKept, KenwoodDriver!execute_command, KenwoodDriver!command
<1>b. \A cmd : cmd.p # "TX" => H(KenwoodDriver(rig)!execute_set_command(cmd))
  BY DEF TextHarmless, LineKept, KenwoodDriver!execute_set_command,
         KenwoodDriver!set_command
<1> HIDE DEF H
<1>c. \A cmds, ret, evts : KenwoodDriver(rig)!Script(cmds, ret, evts).cmds = cmds
  BY DEF KenwoodDriver!Script
<1>d. \A x : H(x) =>
        /\ \A res : One(KenwoodDriver(rig)!Reads(x, res))
        /\ \A res, evt : One(KenwoodDriver(rig)!ReadsAndTells(x, res, evt))
        /\ \A evts : P(KenwoodDriver(rig)!Sets(<<x>>, evts))
        /\ \A read, same : One(read) => P(KenwoodDriver(rig)!Verifies(<<x>>, read, same))
  <2>1. ASSUME NEW x, H(x)
        PROVE  /\ \A res : One(KenwoodDriver(rig)!Reads(x, res))
               /\ \A res, evt : One(KenwoodDriver(rig)!ReadsAndTells(x, res, evt))
               /\ \A evts : One(KenwoodDriver(rig)!Sets(<<x>>, evts))
    BY <2>1, <1>c DEF H, TextOne, KenwoodDriver!Reads, KenwoodDriver!ReadsAndTells,
                      KenwoodDriver!Sets
  <2>2. ASSUME NEW x, H(x), NEW read, NEW same, One(read)
        PROVE  P(KenwoodDriver(rig)!Verifies(<<x>>, read, same))
    <3>1. PICK y : H(y) /\ read.cmds = <<y>>
      BY <2>2 DEF H, TextOne
    <3>2. KenwoodDriver(rig)!Verifies(<<x>>, read, same).cmds = <<x>> \o <<y>>
      BY <3>1 DEF KenwoodDriver!Verifies, KenwoodDriver!Script
    <3> QED  BY <2>2, <3>1, <3>2, <1>0
  <2> QED  BY <2>1, <2>2, <1>0, Zenon
<1>e. \A x : P(KenwoodDriver(rig)!Refused(x)) /\ P(KenwoodDriver(rig)!Return(x))
  BY <1>0, <1>c DEF KenwoodDriver!Refused, KenwoodDriver!Return
<1>f. \A x, y, ret, evts :
        H(x) /\ H(y) => /\ P(KenwoodDriver(rig)!Script(<<x>>, ret, evts))
                        /\ P(KenwoodDriver(rig)!Script(<<x, y>>, ret, evts))
  <2>1. \A x, ret, evts : H(x) => One(KenwoodDriver(rig)!Script(<<x>>, ret, evts))
    BY <1>c DEF TextOne, H
  <2> HIDE DEF One, P
  <2>2. \A x, y, ret, evts : H(x) /\ H(y) => P(KenwoodDriver(rig)!Script(<<x, y>>, ret, evts))
    BY DEF P, H, TextAsks, KenwoodDriver!Script
  <2> QED  BY <1>0, <2>1, <2>2, Zenon
<1>g. \A x, res, evt : H(x) => One(KenwoodDriver(rig)!Tells(KenwoodDriver(rig)!Reads(x, res), evt))
  BY DEF KenwoodDriver!Tells, KenwoodDriver!Reads, KenwoodDriver!Script, TextOne, H
<1> HIDE DEF One, P
<1>1. P(KenwoodDriver(rig)!receivers)
  BY <1>e, Zenon DEF KenwoodDriver!receivers
<1>2. \A rx, got : One(KenwoodDriver(rig)!get_frequency(rx, got))
  BY <1>a, <1>d, Zenon DEF KenwoodDriver!get_frequency
<1>3. P(KenwoodDriver(rig)!set_frequency(c[2], c[3], a))
  <2>1. \A v : /\ KenwoodDriver(rig)!cmd_set("frequency_a", v).p # "TX"
               /\ KenwoodDriver(rig)!cmd_set("frequency_b", v).p # "TX"
    BY DEF KenwoodDriver!cmd_set, KenwoodDriver!encode_command
  <2> QED  BY <1>b, <1>d, <1>2, <2>1, Zenon DEF KenwoodDriver!set_frequency
<1>4. \A rx, got : One(KenwoodDriver(rig)!get_mode(rx, got))
  BY <1>a, <1>d, Zenon DEF KenwoodDriver!get_mode
<1>5. P(KenwoodDriver(rig)!set_mode(c[2], c[3], a))
  <2>1. \A v : KenwoodDriver(rig)!cmd_set_mode(v).p # "TX"
    BY DEF KenwoodDriver!cmd_set_mode, KenwoodDriver!encode_command
  <2> QED  BY <1>b, <1>d, <1>4, <2>1, Zenon DEF KenwoodDriver!set_mode
<1>6. \A rx, got : One(KenwoodDriver(rig)!get_passband(rx, got))
  BY <1>a, <1>d, Zenon DEF KenwoodDriver!get_passband
<1>7. P(KenwoodDriver(rig)!set_passband(c[2], c[3]))
  <2>1. \A v : KenwoodDriver(rig)!cmd_set_level("passband", v).p # "TX"
    BY DEF KenwoodDriver!cmd_set_level, KenwoodDriver!encode_command
  <2> QED  BY <1>b, <1>d, <2>1, Zenon DEF KenwoodDriver!set_passband
<1>8. \A got : One(KenwoodDriver(rig)!get_ptt(got))
  BY <1>a, <1>d, Zenon DEF KenwoodDriver!get_ptt
<1>9. c[2] = FALSE => P(KenwoodDriver(rig)!set_ptt(c[2]))
  <2> DEFINE x == CASE rig.ptt_method = "Cat" ->
                         KenwoodDriver(rig)!rt_set_command(KenwoodDriver(rig)!cmd_set_ptt(FALSE))
                    [] rig.ptt_method = "Dtr" -> KenwoodDriver(rig)!rt_set_line(TRUE, FALSE)
                    [] rig.ptt_method = "Rts" -> KenwoodDriver(rig)!rt_set_line(FALSE, FALSE)
  <2>0. KenwoodDriver(rig)!Bit(FALSE).v = 0
    BY DEF KenwoodDriver!Bit, KenwoodDriver!Digits
  <2>2. H(KenwoodDriver(rig)!rt_set_command(KenwoodDriver(rig)!cmd_set_ptt(FALSE)))
    BY <2>0 DEF H, TextHarmless, LineKept, KenwoodDriver!rt_set_command,
         KenwoodDriver!cmd_set_ptt, KenwoodDriver!encode_command
  <2>3. H(KenwoodDriver(rig)!rt_set_line(TRUE, FALSE)) /\ H(KenwoodDriver(rig)!rt_set_line(FALSE, FALSE))
    <3>1. \A p \in {"DTR", "RTS"} : \A d :
            d.v = 0 => H([kind |-> "line", rt |-> TRUE, p |-> p, d |-> d])
      BY DEF H, TextHarmless, LineKept
    <3> QED  BY <2>0, <3>1, Zenon DEF KenwoodDriver!rt_set_line
  <2>4. H(x)
    BY <2>2, <2>3, Zenon DEF Sound, PttMethod
  <2> HIDE DEF x
  <2>5. P(KenwoodDriver(rig)!Sets(<<x>>, <<<<"PttChanged", FALSE>>>>))
    BY <2>4, <1>d, Zenon
  <2> QED  BY <2>5, Zenon DEF KenwoodDriver!set_ptt, x
<1>10. \A got : One(KenwoodDriver(rig)!get_power(got))
  BY <1>a, <1>d, Zenon DEF KenwoodDriver!get_power
<1>11. P(KenwoodDriver(rig)!set_power(c[2], a))
  <2>1. \A v : KenwoodDriver(rig)!cmd_set("power", v).p # "TX"
    BY DEF KenwoodDriver!cmd_set, KenwoodDriver!encode_command
  <2> QED  BY <1>b, <1>d, <1>e, <1>10, <2>1, Zenon DEF KenwoodDriver!set_power
<1>12. \A rx, got : One(KenwoodDriver(rig)!get_s_meter(rx, got))
  BY <1>a, <1>d, <1>g, Zenon DEF KenwoodDriver!get_s_meter, KenwoodDriver!Meter
<1>13. \A got : One(KenwoodDriver(rig)!get_swr(got))
  BY <1>a, <1>d, <1>g, Zenon DEF KenwoodDriver!get_swr, KenwoodDriver!Meter
<1>14. \A got : One(KenwoodDriver(rig)!get_alc(got))
  BY <1>a, <1>d, Zenon DEF KenwoodDriver!get_alc, KenwoodDriver!Meter
<1>15. \A got : One(KenwoodDriver(rig)!get_split(got))
  BY <1>a, <1>d, Zenon DEF KenwoodDriver!get_split
<1>16. P(KenwoodDriver(rig)!set_split(c[2], a))
  <2>1. \A on : /\ KenwoodDriver(rig)!cmd_set_split(on)[1].p # "TX"
                /\ KenwoodDriver(rig)!cmd_set_split(on)[2].p # "TX"
    BY DEF KenwoodDriver!cmd_set_split, KenwoodDriver!encode_command
  <2>2. ASSUME NEW x, H(x), NEW y, H(y), NEW read, NEW same, One(read), NEW evts, NEW e
        PROVE  /\ P(KenwoodDriver(rig)!Tells(KenwoodDriver(rig)!Verifies(<<x, y>>, read, same), e))
               /\ P(KenwoodDriver(rig)!Tells(KenwoodDriver(rig)!Sets(<<x, y>>, evts), e))
    <3>1. PICK z : H(z) /\ read.cmds = <<z>>
      BY <2>2 DEF H, One, TextOne
    <3>2. KenwoodDriver(rig)!Tells(KenwoodDriver(rig)!Verifies(<<x, y>>, read, same), e).cmds
            = <<x, y>> \o <<z>>
      BY <3>1 DEF KenwoodDriver!Verifies, KenwoodDriver!Tells, KenwoodDriver!Script
    <3>3. KenwoodDriver(rig)!Tells(KenwoodDriver(rig)!Sets(<<x, y>>, evts), e).cmds = <<x, y>>
      BY DEF KenwoodDriver!Sets, KenwoodDriver!Tells, KenwoodDriver!Script
    <3> QED  BY <2>2, <3>1, <3>2, <3>3, <1>0 DEF P
  <2> QED  BY <1>b, <1>15, <2>1, <2>2, Zenon DEF KenwoodDriver!set_split
<1>17. P(KenwoodDriver(rig)!set_tx_receiver(c[2]))
  <2>1. \A v : KenwoodDriver(rig)!cmd_set_tx_vfo(v).p # "TX"
    BY DEF KenwoodDriver!cmd_set_tx_vfo, KenwoodDriver!encode_command
  <2> QED  BY <1>b, <1>d, <2>1, Zenon DEF KenwoodDriver!set_tx_receiver
<1>18. P(KenwoodDriver(rig)!set_cw_key(c[2]))
  <2>1. rig.key_line # "None" => H(KenwoodDriver(rig)!rt_set_line(rig.key_line = "Dtr", c[2]))
    BY DEF H, TextHarmless, LineKept, KenwoodDriver!rt_set_line, Sound, PttMethod, KeyLine
  <2> QED  BY <1>d, <1>e, <2>1, Zenon DEF KenwoodDriver!set_cw_key
<1>19. \A got : One(KenwoodDriver(rig)!get_cw_speed(got))
  BY <1>a, <1>d, Zenon DEF KenwoodDriver!get_cw_speed
<1>20. P(KenwoodDriver(rig)!set_cw_speed(c[2], a))
  <2>1. \A v : KenwoodDriver(rig)!cmd_set_level("cw_speed", v).p # "TX"
    BY DEF KenwoodDriver!cmd_set_level, KenwoodDriver!encode_command
  <2> QED  BY <1>b, <1>d, <1>19, <2>1, Zenon DEF KenwoodDriver!set_cw_speed
<1>21. P(KenwoodDriver(rig)!send_cw_message(c[2], a))
  <2> DEFINE B    == {a[i].x : i \in 1..Len(a)}
             made == KenwoodDriver(rig)!Made(a)
  <2>1. made \in Seq(B) /\ Len(made) = Len(a)
    BY DEF KenwoodDriver!Made
  <2> HIDE DEF made
  <2>2. \A ret, evts : P(KenwoodDriver(rig)!Script(made, ret, evts))
    BY <2>1 DEF P, TextAsks, KenwoodDriver!Script
  <2>3. \A x, ret, evts : H(x) => P(KenwoodDriver(rig)!Script(Append(made, x), ret, evts))
    BY <2>1 DEF P, H, TextAsks, KenwoodDriver!Script
  <2>4. \A d : KenwoodDriver(rig)!cmd_send_cw_message(d).p # "TX"
    BY DEF KenwoodDriver!cmd_send_cw_message, KenwoodDriver!encode_command
  <2> QED  BY <1>a, <1>b, <2>2, <2>3, <2>4, Zenon
           DEF KenwoodDriver!send_cw_message, KenwoodDriver!Chunked, made
<1>22. P(KenwoodDriver(rig)!stop_cw_message)
  <2>1. KenwoodDriver(rig)!cmd_stop_cw_message.p # "TX"
    BY DEF KenwoodDriver!cmd_stop_cw_message, KenwoodDriver!encode_command
  <2> QED  BY <1>b, <1>d, <2>1, Zenon DEF KenwoodDriver!stop_cw_message
<1>23. \A rx, got : One(KenwoodDriver(rig)!get_agc(rx, got))
  BY <1>a, <1>d, Zenon DEF KenwoodDriver!get_agc
<1>24. P(KenwoodDriver(rig)!set_agc(c[2], c[3], a))
  <2>1. \A v : /\ KenwoodDriver(rig)!cmd_set_level("agc_mode", v).p # "TX"
               /\ KenwoodDriver(rig)!cmd_set_level("agc_time_constant", v).p # "TX"
               /\ KenwoodDriver(rig)!cmd_set_agc_mode_vfo(c[2], v).p # "TX"
    BY DEF KenwoodDriver!cmd_set_agc_mode_vfo, KenwoodDriver!cmd_set_level,
           KenwoodDriver!encode_command
  <2> QED  BY <1>b, <1>d, <1>23, <2>1, Zenon DEF KenwoodDriver!set_agc
<1>25. \A rx, got : One(KenwoodDriver(rig)!get_preamp(rx, got))
  BY <1>a, <1>d, Zenon DEF KenwoodDriver!get_preamp
<1>26. P(KenwoodDriver(rig)!set_preamp(c[2], c[3], a))
  <2>1. \A v : KenwoodDriver(rig)!cmd_set_level("preamp", v).p # "TX"
    BY DEF KenwoodDriver!cmd_set_level, KenwoodDriver!encode_command
  <2> QED  BY <1>b, <1>d, <1>e, <1>25, <2>1, Zenon DEF KenwoodDriver!set_preamp
<1>27. \A rx, got : One(KenwoodDriver(rig)!get_attenuator(rx, got))
  BY <1>a, <1>d, Zenon DEF KenwoodDriver!get_attenuator
<1>28. P(KenwoodDriver(rig)!set_attenuator(c[2], c[3], a))
  <2>1. \A v : KenwoodDriver(rig)!cmd_set_level("attenuator", v).p # "TX"
    BY DEF KenwoodDriver!cmd_set_level, KenwoodDriver!encode_command
  <2> QED  BY <1>b, <1>d, <1>27, <2>1, Zenon DEF KenwoodDriver!set_attenuator
<1>29. \A rx, got : One(KenwoodDriver(rig)!get_antenna(rx, got))
  BY <1>a, <1>d, Zenon DEF KenwoodDriver!get_antenna
<1>30. P(KenwoodDriver(rig)!set_antenna(c[2], c[3], a))
  <2>1. \A v : KenwoodDriver(rig)!cmd_set_level("antenna", v).p # "TX"
    BY DEF KenwoodDriver!cmd_set_level, KenwoodDriver!encode_command
  <2> QED  BY <1>b, <1>d, <1>29, <2>1, Zenon DEF KenwoodDriver!set_antenna
<1>31. P(KenwoodDriver(rig)!get_rit(a))
  BY <1>a, <1>f, Zenon DEF KenwoodDriver!get_rit, KenwoodDriver!SwitchAndOffset
<1>32. c[3] \in Int => P(KenwoodDriver(rig)!set_rit(c[2], c[3]))
  <2>0. /\ KenwoodDriver(rig)!cmd_set_on("rit", c[2]).p # "TX"
        /\ \A what \in {"up", "down", "clear"} : KenwoodDriver(rig)!cmd_rit(what).p # "TX"
    BY DEF KenwoodDriver!cmd_rit, KenwoodDriver!cmd_set_on, KenwoodDriver!encode_command
  <2> SUFFICES ASSUME c[3] \in Int  PROVE P(KenwoodDriver(rig)!set_rit(c[2], c[3]))
    OBVIOUS
  <2> DEFINE X == {x \in {KenwoodDriver(rig)!execute_set_command(KenwoodDriver(rig)!cmd_set_on("rit", c[2]))}
                         \cup {KenwoodDriver(rig)!execute_set_command(KenwoodDriver(rig)!cmd_rit(what)) :
                                  what \in {"up", "down", "clear"}} : H(x)}
             first == <<KenwoodDriver(rig)!execute_set_command(KenwoodDriver(rig)!cmd_set_on("rit", c[2])),
                        KenwoodDriver(rig)!execute_set_command(KenwoodDriver(rig)!cmd_rit("clear"))>>
  <2>1. KenwoodDriver(rig)!CountTo(c[3]) \in Seq(X)
    <3>1. KenwoodDriver(rig)!Abs(c[3]) \in Nat
      BY DEF KenwoodDriver!Abs
    <3>2. KenwoodDriver(rig)!Abs(c[3]) \div rig.model.rit_step_hz \in Nat
      BY <3>1
    <3>3. \A what \in {"up", "down"} : KenwoodDriver(rig)!execute_set_command(KenwoodDriver(rig)!cmd_rit(what)) \in X
      BY <1>b, <2>0
    <3> HIDE DEF X
    <3> QED  BY <3>2, <3>3 DEF KenwoodDriver!CountTo
  <2>2. first \in Seq(X)
    BY <1>b, <2>0
  <2>3. \A x \in X : H(x)
    OBVIOUS
  <2> HIDE DEF X, first
  <2>4. P(KenwoodDriver(rig)!Sets(first \o KenwoodDriver(rig)!CountTo(c[3]),
                               <<<<"RitChanged", c[2], c[3]>>>>))
    BY <2>1, <2>2, <2>3 DEF P, H, TextAsks, KenwoodDriver!Sets, KenwoodDriver!Script
  <2> QED  BY <2>4, Zenon DEF KenwoodDriver!set_rit, first
<1>33. P(KenwoodDriver(rig)!get_xit(a))
  BY <1>a, <1>f, Zenon DEF KenwoodDriver!get_xit, KenwoodDriver!SwitchAndOffset
<1>34. c[3] \in Int => P(KenwoodDriver(rig)!set_xit(c[2], c[3]))
  <2>0. /\ KenwoodDriver(rig)!cmd_set_on("xit", c[2]).p # "TX"
        /\ \A what \in {"up", "down", "clear"} : KenwoodDriver(rig)!cmd_rit(what).p # "TX"
    BY DEF KenwoodDriver!cmd_rit, KenwoodDriver!cmd_set_on, KenwoodDriver!encode_command
  <2> SUFFICES ASSUME c[3] \in Int  PROVE P(KenwoodDriver(rig)!set_xit(c[2], c[3]))
    OBVIOUS
  <2> DEFINE X == {x \in {KenwoodDriver(rig)!execute_set_command(KenwoodDriver(rig)!cmd_set_on("xit", c[2]))}
                         \cup {KenwoodDriver(rig)!execute_set_command(KenwoodDriver(rig)!cmd_rit(what)) :
                                  what \in {"up", "down", "clear"}} : H(x)}
             first == <<KenwoodDriver(rig)!execute_set_command(KenwoodDriver(rig)!cmd_set_on("xit", c[2])),
                        KenwoodDriver(rig)!execute_set_command(KenwoodDriver(rig)!cmd_rit("clear"))>>
  <2>1. KenwoodDriver(rig)!CountTo(c[3]) \in Seq(X)
    <3>1. KenwoodDriver(rig)!Abs(c[3]) \in Nat
      BY DEF KenwoodDriver!Abs
    <3>2. KenwoodDriver(rig)!Abs(c[3]) \div rig.model.rit_step_hz \in Nat
      BY <3>1
    <3>3. \A what \in {"up", "down"} : KenwoodDriver(rig)!execute_set_command(KenwoodDriver(rig)!cmd_rit(what)) \in X
      BY <1>b, <2>0
    <3> HIDE DEF X
    <3> QED  BY <3>2, <3>3 DEF KenwoodDriver!CountTo
  <2>2. first \in Seq(X)
    BY <1>b, <2>0
  <2>3. \A x \in X : H(x)
    OBVIOUS
  <2> HIDE DEF X, first
  <2>4. P(KenwoodDriver(rig)!Sets(first \o KenwoodDriver(rig)!CountTo(c[3]),
                               <<<<"XitChanged", c[2], c[3]>>>>))
    BY <2>1, <2>2, <2>3 DEF P, H, TextAsks, KenwoodDriver!Sets, KenwoodDriver!Script
  <2> QED  BY <2>4, Zenon DEF KenwoodDriver!set_xit, first
<1>35. P(KenwoodDriver(rig)!set_vfo_a_eq_b(c[2]))
  <2>1. KenwoodDriver(rig)!cmd_vfo_a_eq_b.p # "TX"
    BY DEF KenwoodDriver!cmd_vfo_a_eq_b, KenwoodDriver!encode_command
  <2> QED  BY <1>b, <1>d, <2>1, Zenon DEF KenwoodDriver!set_vfo_a_eq_b
<1>36. P(KenwoodDriver(rig)!swap_vfo(c[2]))
  BY <1>e, Zenon DEF KenwoodDriver!swap_vfo
<1>37. /\ P(KenwoodDriver(rig)!get_frequency(c[2], a))
       /\ P(KenwoodDriver(rig)!get_mode(c[2], a))
       /\ P(KenwoodDriver(rig)!get_passband(c[2], a))
       /\ P(KenwoodDriver(rig)!get_ptt(a))
       /\ P(KenwoodDriver(rig)!get_power(a))
       /\ P(KenwoodDriver(rig)!get_s_meter(c[2], a))
       /\ P(KenwoodDriver(rig)!get_swr(a))
       /\ P(KenwoodDriver(rig)!get_alc(a))
       /\ P(KenwoodDriver(rig)!get_split(a))
       /\ P(KenwoodDriver(rig)!get_cw_speed(a))
       /\ P(KenwoodDriver(rig)!get_agc(c[2], a))
       /\ P(KenwoodDriver(rig)!get_preamp(c[2], a))
       /\ P(KenwoodDriver(rig)!get_attenuator(c[2], a))
       /\ P(KenwoodDriver(rig)!get_antenna(c[2], a))
  BY <1>0, <1>2, <1>4, <1>6, <1>8, <1>10, <1>12, <1>13, <1>14, <1>15, <1>19, <1>23, <1>25, <1>27,
     <1>29, Zenon DEF P, One
<1> QED  BY <1>e, <1>1, <1>3, <1>5, <1>7, <1>9, <1>11, <1>16, <1>17, <1>18, <1>20, <1>21, <1>22,
            <1>24, <1>26, <1>28, <1>30, <1>31, <1>32, <1>33, <1>34, <1>35, <1>36, <1>37,
            ZenonT(60) DEF Operations, P, KenwoodDriver!Operation

\* What an operation of an Elecraft rig asks next is harmless, unless it is set_ptt(true).
LEMMA ElecraftAsks ==
  ASSUME NEW rig, Sound(rig), NEW A, NEW a \in Seq(A), NEW c, c[1] \in Operations,
         c[1] = "set_ptt" => c[2] = FALSE,
         c[1] \in {"set_rit", "set_xit"} => c[3] \in Int,
         rig.model.rit_step_hz \in Nat \ {0}
  PROVE  TextAsks(rig, ElecraftDriver(rig)!Operation(c, a), a)
<1> DEFINE P(s)   == TextAsks(rig, s, a)
           One(s) == TextOne(rig, s)
           H(x)   == TextHarmless(rig, x)
<1>0. /\ \A s : s.cmds = <<>> \/ One(s) => P(s)
      /\ \A s, x, y : H(x) /\ H(y) /\ s.cmds \in {<<x, y>>, <<x>> \o <<y>>} => P(s)
      /\ \A s, x, y, z :
           H(x) /\ H(y) /\ H(z) /\ s.cmds \in {<<x, y>> \o <<z>>, <<x>> \o (<<y>> \o <<z>>)} => P(s)
  BY TextScripts
<1>a. \A cmd : H(ElecraftDriver(rig)!execute_command(cmd))
  BY DEF TextHarmless, LineKept, ElecraftDriver!execute_command, ElecraftDriver!command
<1>b. \A cmd : cmd.p # "TX" => H(ElecraftDriver(rig)!execute_set_command(cmd))
  BY DEF TextHarmless, LineKept, ElecraftDriver!execute_set_command,
         ElecraftDriver!set_command
<1> HIDE DEF H
<1>c. \A cmds, ret, evts : ElecraftDriver(rig)!Script(cmds, ret, evts).cmds = cmds
  BY DEF ElecraftDriver!Script
<1>d. \A x : H(x) =>
        /\ \A res : One(ElecraftDriver(rig)!Reads(x, res))
        /\ \A res, evt : One(ElecraftDriver(rig)!ReadsAndTells(x, res, evt))
        /\ \A evts : P(ElecraftDriver(rig)!Sets(<<x>>, evts))
        /\ \A read, same : One(read) => P(ElecraftDriver(rig)!Verifies(<<x>>, read, same))
  <2>1. ASSUME NEW x, H(x)
        PROVE  /\ \A res : One(ElecraftDriver(rig)!Reads(x, res))
               /\ \A res, evt : One(ElecraftDriver(rig)!ReadsAndTells(x, res, evt))
               /\ \A evts : One(ElecraftDriver(rig)!Sets(<<x>>, evts))
    BY <2>1, <1>c DEF H, TextOne, ElecraftDriver!Reads, ElecraftDriver!ReadsAndTells,
                      ElecraftDriver!Sets
  <2>2. ASSUME NEW x, H(x), NEW read, NEW same, One(read)
        PROVE  P(ElecraftDriver(rig)!Verifies(<<x>>, read, same))
    <3>1. PICK y : H(y) /\ read.cmds = <<y>>
      BY <2>2 DEF H, TextOne
    <3>2. ElecraftDriver(rig)!Verifies(<<x>>, read, same).cmds = <<x>> \o <<y>>
      BY <3>1 DEF ElecraftDriver!Verifies, ElecraftDriver!Script
    <3> QED  BY <2>2, <3>1, <3>2, <1>0
  <2> QED  BY <2>1, <2>2, <1>0, Zenon
<1>e. \A x : P(ElecraftDriver(rig)!Refused(x)) /\ P(ElecraftDriver(rig)!Return(x))
  BY <1>0, <1>c DEF ElecraftDriver!Refused, ElecraftDriver!Return
<1>f. \A x, y, ret, evts :
        H(x) /\ H(y) => /\ P(ElecraftDriver(rig)!Script(<<x>>, ret, evts))
                        /\ P(ElecraftDriver(rig)!Script(<<x, y>>, ret, evts))
  <2>1. \A x, ret, evts : H(x) => One(ElecraftDriver(rig)!Script(<<x>>, ret, evts))
    BY <1>c DEF TextOne, H
  <2> HIDE DEF One, P
  <2>2. \A x, y, ret, evts : H(x) /\ H(y) => P(ElecraftDriver(rig)!Script(<<x, y>>, ret, evts))
    BY DEF P, H, TextAsks, ElecraftDriver!Script
  <2> QED  BY <1>0, <2>1, <2>2, Zenon
<1>g. \A x, res, evt : H(x) => One(ElecraftDriver(rig)!Tells(ElecraftDriver(rig)!Reads(x, res), evt))
  BY DEF ElecraftDriver!Tells, ElecraftDriver!Reads, ElecraftDriver!Script, TextOne, H
<1> HIDE DEF One, P
<1>1. P(ElecraftDriver(rig)!receivers)
  BY <1>e, Zenon DEF ElecraftDriver!receivers
<1>2. \A rx, got : One(ElecraftDriver(rig)!get_frequency(rx, got))
  BY <1>a, <1>d, Zenon DEF ElecraftDriver!get_frequency
<1>3. P(ElecraftDriver(rig)!set_frequency(c[2], c[3], a))
  <2>1. \A v : /\ ElecraftDriver(rig)!cmd_set("frequency_a", v).p # "TX"
               /\ ElecraftDriver(rig)!cmd_set("frequency_b", v).p # "TX"
    BY DEF ElecraftDriver!cmd_set, ElecraftDriver!encode_command
  <2> QED  BY <1>b, <1>d, <1>2, <2>1, Zenon DEF ElecraftDriver!set_frequency
<1>4. \A rx, got : One(ElecraftDriver(rig)!get_mode(rx, got))
  BY <1>a, <1>d, Zenon DEF ElecraftDriver!get_mode
<1>5. P(ElecraftDriver(rig)!set_mode(c[2], c[3], a))
  <2>1. \A v : ElecraftDriver(rig)!cmd_set_mode(v).p # "TX"
    BY DEF ElecraftDriver!cmd_set_mode, ElecraftDriver!encode_command
  <2> QED  BY <1>b, <1>d, <1>4, <2>1, Zenon DEF ElecraftDriver!set_mode
<1>6. \A rx, got : One(ElecraftDriver(rig)!get_passband(rx, got))
  BY <1>a, <1>d, Zenon DEF ElecraftDriver!get_passband
<1>7. P(ElecraftDriver(rig)!set_passband(c[2], c[3]))
  <2>1. \A v : /\ ElecraftDriver(rig)!cmd_set_bandwidth("bw", v).p # "TX"
               /\ ElecraftDriver(rig)!cmd_set_bandwidth("fw", v).p # "TX"
    BY DEF ElecraftDriver!cmd_set_bandwidth, ElecraftDriver!encode_command
  <2> QED  BY <1>b, <1>d, <2>1, Zenon DEF ElecraftDriver!set_passband
<1>8. \A got : One(ElecraftDriver(rig)!get_ptt(got))
  BY <1>a, <1>d, Zenon DEF ElecraftDriver!get_ptt
<1>9. c[2] = FALSE => P(ElecraftDriver(rig)!set_ptt(c[2]))
  <2> DEFINE x == CASE rig.ptt_method = "Cat" ->
                         ElecraftDriver(rig)!rt_set_command(ElecraftDriver(rig)!cmd_set_ptt(FALSE))
                    [] rig.ptt_method = "Dtr" -> ElecraftDriver(rig)!rt_set_line(TRUE, FALSE)
                    [] rig.ptt_method = "Rts" -> ElecraftDriver(rig)!rt_set_line(FALSE, FALSE)
  <2>0. ElecraftDriver(rig)!Bit(FALSE).v = 0
    BY DEF ElecraftDriver!Bit, ElecraftDriver!Digits
  <2>2. H(ElecraftDriver(rig)!rt_set_command(ElecraftDriver(rig)!cmd_set_ptt(FALSE)))
    BY <2>0 DEF H, TextHarmless, LineKept, ElecraftDriver!rt_set_command,
         ElecraftDriver!cmd_set_ptt, ElecraftDriver!encode_command
  <2>3. H(ElecraftDriver(rig)!rt_set_line(TRUE, FALSE)) /\ H(ElecraftDriver(rig)!rt_set_line(FALSE, FALSE))
    <3>1. \A p \in {"DTR", "RTS"} : \A d :
            d.v = 0 => H([kind |-> "line", rt |-> TRUE, p |-> p, d |-> d])
      BY DEF H, TextHarmless, LineKept
    <3> QED  BY <2>0, <3>1, Zenon DEF ElecraftDriver!rt_set_line
  <2>4. H(x)
    BY <2>2, <2>3, Zenon DEF Sound, PttMethod
  <2> HIDE DEF x
  <2>5. P(ElecraftDriver(rig)!Sets(<<x>>, <<<<"PttChanged", FALSE>>>>))
    BY <2>4, <1>d, Zenon
  <2> QED  BY <2>5, Zenon DEF ElecraftDriver!set_ptt, x
<1>10. \A got : One(ElecraftDriver(rig)!get_power(got))
  BY <1>a, <1>d, Zenon DEF ElecraftDriver!get_power
<1>11. P(ElecraftDriver(rig)!set_power(c[2], a))
  <2>1. \A v : ElecraftDriver(rig)!cmd_set("power", v).p # "TX"
    BY DEF ElecraftDriver!cmd_set, ElecraftDriver!encode_command
  <2> QED  BY <1>b, <1>d, <1>e, <1>10, <2>1, Zenon DEF ElecraftDriver!set_power
<1>12. \A rx, got : One(ElecraftDriver(rig)!get_s_meter(rx, got))
  BY <1>a, <1>d, <1>g, Zenon DEF ElecraftDriver!get_s_meter, ElecraftDriver!Meter
<1>13. \A got : One(ElecraftDriver(rig)!get_swr(got))
  BY <1>a, <1>d, <1>g, Zenon DEF ElecraftDriver!get_swr, ElecraftDriver!Meter
<1>14. \A got : One(ElecraftDriver(rig)!get_alc(got))
  BY <1>a, <1>d, Zenon DEF ElecraftDriver!get_alc, ElecraftDriver!Meter
<1>15. \A got : One(ElecraftDriver(rig)!get_split(got))
  BY <1>a, <1>d, Zenon DEF ElecraftDriver!get_split
<1>16. P(ElecraftDriver(rig)!set_split(c[2], a))
  <2>1. \A on : /\ ElecraftDriver(rig)!cmd_set_split(on)[1].p # "TX"
                /\ ElecraftDriver(rig)!cmd_set_split(on)[2].p # "TX"
    BY DEF ElecraftDriver!cmd_set_split, ElecraftDriver!encode_command
  <2>2. ASSUME NEW x, H(x), NEW y, H(y), NEW read, NEW same, One(read), NEW evts, NEW e
        PROVE  /\ P(ElecraftDriver(rig)!Tells(ElecraftDriver(rig)!Verifies(<<x, y>>, read, same), e))
               /\ P(ElecraftDriver(rig)!Tells(ElecraftDriver(rig)!Sets(<<x, y>>, evts), e))
    <3>1. PICK z : H(z) /\ read.cmds = <<z>>
      BY <2>2 DEF H, One, TextOne
    <3>2. ElecraftDriver(rig)!Tells(ElecraftDriver(rig)!Verifies(<<x, y>>, read, same), e).cmds
            = <<x, y>> \o <<z>>
      BY <3>1 DEF ElecraftDriver!Verifies, ElecraftDriver!Tells, ElecraftDriver!Script
    <3>3. ElecraftDriver(rig)!Tells(ElecraftDriver(rig)!Sets(<<x, y>>, evts), e).cmds = <<x, y>>
      BY DEF ElecraftDriver!Sets, ElecraftDriver!Tells, ElecraftDriver!Script
    <3> QED  BY <2>2, <3>1, <3>2, <3>3, <1>0 DEF P
  <2> QED  BY <1>b, <1>15, <2>1, <2>2, Zenon DEF ElecraftDriver!set_split
<1>17. P(ElecraftDriver(rig)!set_tx_receiver(c[2]))
  <2>1. \A v : ElecraftDriver(rig)!cmd_set_tx_vfo(v).p # "TX"
    BY DEF ElecraftDriver!cmd_set_tx_vfo, ElecraftDriver!encode_command
  <2> QED  BY <1>b, <1>d, <2>1, Zenon DEF ElecraftDriver!set_tx_receiver
<1>18. P(ElecraftDriver(rig)!set_cw_key(c[2]))
  <2>1. rig.key_line # "None" => H(ElecraftDriver(rig)!rt_set_line(rig.key_line = "Dtr", c[2]))
    BY DEF H, TextHarmless, LineKept, ElecraftDriver!rt_set_line, Sound, PttMethod, KeyLine
  <2> QED  BY <1>d, <1>e, <2>1, Zenon DEF ElecraftDriver!set_cw_key
<1>19. \A got : One(ElecraftDriver(rig)!get_cw_speed(got))
  BY <1>a, <1>d, Zenon DEF ElecraftDriver!get_cw_speed
<1>20. P(ElecraftDriver(rig)!set_cw_speed(c[2], a))
  <2>1. \A v : ElecraftDriver(rig)!cmd_set("cw_speed", v).p # "TX"
    BY DEF ElecraftDriver!cmd_set, ElecraftDriver!encode_command
  <2> QED  BY <1>b, <1>d, <1>19, <2>1, Zenon DEF ElecraftDriver!set_cw_speed
<1>21. P(ElecraftDriver(rig)!send_cw_message(c[2], a))
  <2> DEFINE B    == {a[i].x : i \in 1..Len(a)}
             made == ElecraftDriver(rig)!Made(a)
  <2>1. made \in Seq(B) /\ Len(made) = Len(a)
    BY DEF ElecraftDriver!Made
  <2> HIDE DEF made
  <2>2. \A ret, evts : P(ElecraftDriver(rig)!Script(made, ret, evts))
    BY <2>1 DEF P, TextAsks, ElecraftDriver!Script
  <2>3. \A x, ret, evts : H(x) => P(ElecraftDriver(rig)!Script(Append(made, x), ret, evts))
    BY <2>1 DEF P, H, TextAsks, ElecraftDriver!Script
  <2>4. \A d : ElecraftDriver(rig)!cmd_send_cw_message(d).p # "TX"
    BY DEF ElecraftDriver!cmd_send_cw_message, ElecraftDriver!encode_command
  <2> QED  BY <1>a, <1>b, <2>2, <2>3, <2>4, Zenon
           DEF ElecraftDriver!send_cw_message, ElecraftDriver!Chunked, made
<1>22. P(ElecraftDriver(rig)!stop_cw_message)
  <2>1. ElecraftDriver(rig)!cmd_stop_cw_message.p # "TX"
    BY DEF ElecraftDriver!cmd_stop_cw_message, ElecraftDriver!encode_command
  <2> QED  BY <1>b, <1>d, <2>1, Zenon DEF ElecraftDriver!stop_cw_message
<1>23. \A rx, got : One(ElecraftDriver(rig)!get_agc(rx, got))
  <2>1. ASSUME NEW rx, NEW got
        PROVE  \E cmd : ElecraftDriver(rig)!get_agc(rx, got).cmds = <<ElecraftDriver(rig)!execute_command(cmd)>>
    BY DEF ElecraftDriver!get_agc, ElecraftDriver!ReadsAndTells, ElecraftDriver!Script
  <2> QED  BY <1>a, <2>1, Zenon DEF One, TextOne, H
<1>24. P(ElecraftDriver(rig)!set_agc(c[2], c[3], a))
  <2>1. \A v, w : /\ ElecraftDriver(rig)!cmd_set_agc_k4(v).p # "TX"
                  /\ ElecraftDriver(rig)!cmd_set_agc_k3(v, w).p # "TX"
    BY DEF ElecraftDriver!cmd_set_agc_k3, ElecraftDriver!cmd_set_agc_k4,
           ElecraftDriver!encode_command
  <2> QED  BY <1>b, <1>d, <1>23, <2>1, Zenon DEF ElecraftDriver!set_agc
<1>25. \A rx, got : One(ElecraftDriver(rig)!get_preamp(rx, got))
  BY <1>a, <1>d, Zenon DEF ElecraftDriver!get_preamp
<1>26. P(ElecraftDriver(rig)!set_preamp(c[2], c[3], a))
  <2>1. \A v : ElecraftDriver(rig)!cmd_set_level("preamp", v).p # "TX"
    BY DEF ElecraftDriver!cmd_set_level, ElecraftDriver!encode_command
  <2> QED  BY <1>b, <1>d, <1>e, <1>25, <2>1, Zenon DEF ElecraftDriver!set_preamp
<1>27. \A rx, got : One(ElecraftDriver(rig)!get_attenuator(rx, got))
  BY <1>a, <1>d, Zenon DEF ElecraftDriver!get_attenuator
<1>28. P(ElecraftDriver(rig)!set_attenuator(c[2], c[3], a))
  <2>1. \A v : /\ ElecraftDriver(rig)!cmd_set_level("attenuator_k3", v).p # "TX"
               /\ ElecraftDriver(rig)!cmd_set_level("attenuator_k4", v).p # "TX"
    BY DEF ElecraftDriver!cmd_set_level, ElecraftDriver!encode_command
  <2> QED  BY <1>b, <1>d, <1>27, <2>1, Zenon DEF ElecraftDriver!set_attenuator
<1>29. P(ElecraftDriver(rig)!get_antenna(c[2]))
  BY <1>e, Zenon DEF ElecraftDriver!get_antenna
<1>30. P(ElecraftDriver(rig)!set_antenna(c[2], c[3]))
  BY <1>e, Zenon DEF ElecraftDriver!set_antenna
<1>31. P(ElecraftDriver(rig)!get_rit(a))
  BY <1>a, <1>f, Zenon DEF ElecraftDriver!get_rit, ElecraftDriver!SwitchAndOffset
<1>32. c[3] \in Int => P(ElecraftDriver(rig)!set_rit(c[2], c[3]))
  <2>0. /\ ElecraftDriver(rig)!cmd_set_on("rit", c[2]).p # "TX"
        /\ \A what \in {"up", "down", "clear"} : ElecraftDriver(rig)!cmd_rit(what).p # "TX"
    BY DEF ElecraftDriver!cmd_rit, ElecraftDriver!cmd_set_on, ElecraftDriver!encode_command
  <2> SUFFICES ASSUME c[3] \in Int  PROVE P(ElecraftDriver(rig)!set_rit(c[2], c[3]))
    OBVIOUS
  <2> DEFINE X == {x \in {ElecraftDriver(rig)!execute_set_command(ElecraftDriver(rig)!cmd_set_on("rit", c[2]))}
                         \cup {ElecraftDriver(rig)!execute_set_command(ElecraftDriver(rig)!cmd_rit(what)) :
                                  what \in {"up", "down", "clear"}} : H(x)}
             first == <<ElecraftDriver(rig)!execute_set_command(ElecraftDriver(rig)!cmd_set_on("rit", c[2])),
                        ElecraftDriver(rig)!execute_set_command(ElecraftDriver(rig)!cmd_rit("clear"))>>
  <2>1. ElecraftDriver(rig)!CountTo(c[3]) \in Seq(X)
    <3>1. ElecraftDriver(rig)!Abs(c[3]) \in Nat
      BY DEF ElecraftDriver!Abs
    <3>2. ElecraftDriver(rig)!Abs(c[3]) \div rig.model.rit_step_hz \in Nat
      BY <3>1
    <3>3. \A what \in {"up", "down"} : ElecraftDriver(rig)!execute_set_command(ElecraftDriver(rig)!cmd_rit(what)) \in X
      BY <1>b, <2>0
    <3> HIDE DEF X
    <3> QED  BY <3>2, <3>3 DEF ElecraftDriver!CountTo
  <2>2. first \in Seq(X)
    BY <1>b, <2>0
  <2>3. \A x \in X : H(x)
    OBVIOUS
  <2> HIDE DEF X, first
  <2>4. P(ElecraftDriver(rig)!Sets(first \o ElecraftDriver(rig)!CountTo(c[3]),
                               <<<<"RitChanged", c[2], c[3]>>>>))
    BY <2>1, <2>2, <2>3 DEF P, H, TextAsks, ElecraftDriver!Sets, ElecraftDriver!Script
  <2> QED  BY <2>4, Zenon DEF ElecraftDriver!set_rit, first
<1>33. P(ElecraftDriver(rig)!get_xit(a))
  BY <1>a, <1>f, Zenon DEF ElecraftDriver!get_xit, ElecraftDriver!SwitchAndOffset
<1>34. c[3] \in Int => P(ElecraftDriver(rig)!set_xit(c[2], c[3]))
  <2>0. /\ ElecraftDriver(rig)!cmd_set_on("xit", c[2]).p # "TX"
        /\ \A what \in {"up", "down", "clear"} : ElecraftDriver(rig)!cmd_rit(what).p # "TX"
    BY DEF ElecraftDriver!cmd_rit, ElecraftDriver!cmd_set_on, ElecraftDriver!encode_command
  <2> SUFFICES ASSUME c[3] \in Int  PROVE P(ElecraftDriver(rig)!set_xit(c[2], c[3]))
    OBVIOUS
  <2> DEFINE X == {x \in {ElecraftDriver(rig)!execute_set_command(ElecraftDriver(rig)!cmd_set_on("xit", c[2]))}
                         \cup {ElecraftDriver(rig)!execute_set_command(ElecraftDriver(rig)!cmd_rit(what)) :
                                  what \in {"up", "down", "clear"}} : H(x)}
             first == <<ElecraftDriver(rig)!execute_set_command(ElecraftDriver(rig)!cmd_set_on("xit", c[2])),
                        ElecraftDriver(rig)!execute_set_command(ElecraftDriver(rig)!cmd_rit("clear"))>>
  <2>1. ElecraftDriver(rig)!CountTo(c[3]) \in Seq(X)
    <3>1. ElecraftDriver(rig)!Abs(c[3]) \in Nat
      BY DEF ElecraftDriver!Abs
    <3>2. ElecraftDriver(rig)!Abs(c[3]) \div rig.model.rit_step_hz \in Nat
      BY <3>1
    <3>3. \A what \in {"up", "down"} : ElecraftDriver(rig)!execute_set_command(ElecraftDriver(rig)!cmd_rit(what)) \in X
      BY <1>b, <2>0
    <3> HIDE DEF X
    <3> QED  BY <3>2, <3>3 DEF ElecraftDriver!CountTo
  <2>2. first \in Seq(X)
    BY <1>b, <2>0
  <2>3. \A x \in X : H(x)
    OBVIOUS
  <2> HIDE DEF X, first
  <2>4. P(ElecraftDriver(rig)!Sets(first \o ElecraftDriver(rig)!CountTo(c[3]),
                               <<<<"XitChanged", c[2], c[3]>>>>))
    BY <2>1, <2>2, <2>3 DEF P, H, TextAsks, ElecraftDriver!Sets, ElecraftDriver!Script
  <2> QED  BY <2>4, Zenon DEF ElecraftDriver!set_xit, first
<1>35. P(ElecraftDriver(rig)!set_vfo_a_eq_b(c[2]))
  <2>1. ElecraftDriver(rig)!cmd_vfo("a_eq_b").p # "TX"
    BY DEF ElecraftDriver!cmd_vfo, ElecraftDriver!encode_command
  <2> QED  BY <1>b, <1>d, <2>1, Zenon DEF ElecraftDriver!set_vfo_a_eq_b
<1>36. P(ElecraftDriver(rig)!swap_vfo(c[2]))
  <2>1. ElecraftDriver(rig)!cmd_vfo("swap").p # "TX"
    BY DEF ElecraftDriver!cmd_vfo, ElecraftDriver!encode_command
  <2> QED  BY <1>b, <1>d, <2>1, Zenon DEF ElecraftDriver!swap_vfo
<1>37. /\ P(ElecraftDriver(rig)!get_frequency(c[2], a))
       /\ P(ElecraftDriver(rig)!get_mode(c[2], a))
       /\ P(ElecraftDriver(rig)!get_passband(c[2], a))
       /\ P(ElecraftDriver(rig)!get_ptt(a))
       /\ P(ElecraftDriver(rig)!get_power(a))
       /\ P(ElecraftDriver(rig)!get_s_meter(c[2], a))
       /\ P(ElecraftDriver(rig)!get_swr(a))
       /\ P(ElecraftDriver(rig)!get_alc(a))
       /\ P(ElecraftDriver(rig)!get_split(a))
       /\ P(ElecraftDriver(rig)!get_cw_speed(a))
       /\ P(ElecraftDriver(rig)!get_agc(c[2], a))
       /\ P(ElecraftDriver(rig)!get_preamp(c[2], a))
       /\ P(ElecraftDriver(rig)!get_attenuator(c[2], a))
  BY <1>0, <1>2, <1>4, <1>6, <1>8, <1>10, <1>12, <1>13, <1>14, <1>15, <1>19, <1>23, <1>25, <1>27,
     Zenon DEF P, One
<1> QED  BY <1>e, <1>1, <1>3, <1>5, <1>7, <1>9, <1>11, <1>16, <1>17, <1>18, <1>20, <1>21, <1>22,
            <1>24, <1>26, <1>28, <1>29, <1>30, <1>31, <1>32, <1>33, <1>34, <1>35, <1>36, <1>37,
            ZenonT(60) DEF Operations, P, ElecraftDriver!Operation

\* What an operation of a Yaesu rig asks next is harmless, unless it is set_ptt(true).
LEMMA YaesuAsks ==
  ASSUME NEW rig, Sound(rig), NEW A, NEW a \in Seq(A), NEW c, c[1] \in Operations,
         c[1] = "set_ptt" => c[2] = FALSE,
         c[1] \in {"set_rit", "set_xit"} => c[3] \in Int
  PROVE  TextAsks(rig, YaesuDriver(rig)!Operation(c, a), a)
<1> DEFINE P(s)   == TextAsks(rig, s, a)
           One(s) == TextOne(rig, s)
           H(x)   == TextHarmless(rig, x)
<1>0. /\ \A s : s.cmds = <<>> \/ One(s) => P(s)
      /\ \A s, x, y : H(x) /\ H(y) /\ s.cmds \in {<<x, y>>, <<x>> \o <<y>>} => P(s)
      /\ \A s, x, y, z :
           H(x) /\ H(y) /\ H(z) /\ s.cmds \in {<<x, y>> \o <<z>>, <<x>> \o (<<y>> \o <<z>>)} => P(s)
  BY TextScripts
<1>a. \A cmd : H(YaesuDriver(rig)!execute_command(cmd))
  BY DEF TextHarmless, LineKept, YaesuDriver!execute_command, YaesuDriver!command
<1>b. \A cmd : cmd.p # "TX" => H(YaesuDriver(rig)!execute_set_command(cmd))
  BY DEF TextHarmless, LineKept, YaesuDriver!execute_set_command,
         YaesuDriver!set_command
<1> HIDE DEF H
<1>c. \A cmds, ret, evts : YaesuDriver(rig)!Script(cmds, ret, evts).cmds = cmds
  BY DEF YaesuDriver!Script
<1>d. \A x : H(x) =>
        /\ \A res : One(YaesuDriver(rig)!Reads(x, res))
        /\ \A res, evt : One(YaesuDriver(rig)!ReadsAndTells(x, res, evt))
        /\ \A evts : P(YaesuDriver(rig)!Sets(<<x>>, evts))
        /\ \A read, same : One(read) => P(YaesuDriver(rig)!Verifies(<<x>>, read, same))
  <2>1. ASSUME NEW x, H(x)
        PROVE  /\ \A res : One(YaesuDriver(rig)!Reads(x, res))
               /\ \A res, evt : One(YaesuDriver(rig)!ReadsAndTells(x, res, evt))
               /\ \A evts : One(YaesuDriver(rig)!Sets(<<x>>, evts))
    BY <2>1, <1>c DEF H, TextOne, YaesuDriver!Reads, YaesuDriver!ReadsAndTells,
                      YaesuDriver!Sets
  <2>2. ASSUME NEW x, H(x), NEW read, NEW same, One(read)
        PROVE  P(YaesuDriver(rig)!Verifies(<<x>>, read, same))
    <3>1. PICK y : H(y) /\ read.cmds = <<y>>
      BY <2>2 DEF H, TextOne
    <3>2. YaesuDriver(rig)!Verifies(<<x>>, read, same).cmds = <<x>> \o <<y>>
      BY <3>1 DEF YaesuDriver!Verifies, YaesuDriver!Script
    <3> QED  BY <2>2, <3>1, <3>2, <1>0
  <2> QED  BY <2>1, <2>2, <1>0, Zenon
<1>e. \A x : P(YaesuDriver(rig)!Refused(x)) /\ P(YaesuDriver(rig)!Return(x))
  BY <1>0, <1>c DEF YaesuDriver!Refused, YaesuDriver!Return
<1> HIDE DEF One, P
<1>1. P(YaesuDriver(rig)!receivers)
  BY <1>e, Zenon DEF YaesuDriver!receivers
<1>2. \A rx, got : One(YaesuDriver(rig)!get_frequency(rx, got))
  BY <1>a, <1>d, Zenon DEF YaesuDriver!get_frequency
<1>3. P(YaesuDriver(rig)!set_frequency(c[2], c[3], a))
  <2>1. \A v : /\ YaesuDriver(rig)!cmd_set("frequency_a", v).p # "TX"
               /\ YaesuDriver(rig)!cmd_set("frequency_b", v).p # "TX"
    BY DEF YaesuDriver!cmd_set, YaesuDriver!encode_command
  <2> QED  BY <1>b, <1>d, <1>2, <2>1, Zenon DEF YaesuDriver!set_frequency
<1>4. \A rx, got : One(YaesuDriver(rig)!get_mode(rx, got))
  BY <1>a, <1>d, Zenon DEF YaesuDriver!get_mode
<1>5. P(YaesuDriver(rig)!set_mode(c[2], c[3], a))
  <2>1. \A v : /\ YaesuDriver(rig)!cmd_set_mode_a(v).p # "TX"
               /\ YaesuDriver(rig)!cmd_set_mode_b(v).p # "TX"
    BY DEF YaesuDriver!cmd_set_mode_a, YaesuDriver!cmd_set_mode_b, YaesuDriver!encode_command
  <2> QED  BY <1>b, <1>d, <1>4, <2>1, Zenon DEF YaesuDriver!set_mode
<1>6. P(YaesuDriver(rig)!get_passband(c[2]))
  BY <1>e, Zenon DEF YaesuDriver!get_passband
<1>7. P(YaesuDriver(rig)!set_passband(c[2], c[3]))
  BY <1>e, Zenon DEF YaesuDriver!set_passband
<1>8. \A got : One(YaesuDriver(rig)!get_ptt(got))
  BY <1>a, <1>d, Zenon DEF YaesuDriver!get_ptt
<1>9. c[2] = FALSE => P(YaesuDriver(rig)!set_ptt(c[2]))
  <2> DEFINE x == CASE rig.ptt_method = "Cat" ->
                         YaesuDriver(rig)!rt_set_command(YaesuDriver(rig)!cmd_set_ptt(FALSE))
                    [] rig.ptt_method = "Dtr" -> YaesuDriver(rig)!rt_set_line(TRUE, FALSE)
                    [] rig.ptt_method = "Rts" -> YaesuDriver(rig)!rt_set_line(FALSE, FALSE)
  <2>0. YaesuDriver(rig)!Bit(FALSE).v = 0
    BY DEF YaesuDriver!Bit, YaesuDriver!Digits
  <2>2. H(YaesuDriver(rig)!rt_set_command(YaesuDriver(rig)!cmd_set_ptt(FALSE)))
    BY <2>0 DEF H, TextHarmless, LineKept, YaesuDriver!rt_set_command,
         YaesuDriver!cmd_set_ptt, YaesuDriver!encode_command
  <2>3. H(YaesuDriver(rig)!rt_set_line(TRUE, FALSE)) /\ H(YaesuDriver(rig)!rt_set_line(FALSE, FALSE))
    <3>1. \A p \in {"DTR", "RTS"} : \A d :
            d.v = 0 => H([kind |-> "line", rt |-> TRUE, p |-> p, d |-> d])
      BY DEF H, TextHarmless, LineKept
    <3> QED  BY <2>0, <3>1, Zenon DEF YaesuDriver!rt_set_line
  <2>4. H(x)
    BY <2>2, <2>3, Zenon DEF Sound, PttMethod
  <2> HIDE DEF x
  <2>5. P(YaesuDriver(rig)!Sets(<<x>>, <<<<"PttChanged", FALSE>>>>))
    BY <2>4, <1>d, Zenon
  <2> QED  BY <2>5, Zenon DEF YaesuDriver!set_ptt, x
<1>10. \A got : One(YaesuDriver(rig)!get_power(got))
  BY <1>a, <1>d, Zenon DEF YaesuDriver!get_power
<1>11. P(YaesuDriver(rig)!set_power(c[2], a))
  <2>1. \A v : YaesuDriver(rig)!cmd_set("power", v).p # "TX"
    BY DEF YaesuDriver!cmd_set, YaesuDriver!encode_command
  <2> QED  BY <1>b, <1>d, <1>e, <1>10, <2>1, Zenon DEF YaesuDriver!set_power
<1>12. \A rx, got : One(YaesuDriver(rig)!get_s_meter(rx, got))
  BY <1>a, <1>d, Zenon DEF YaesuDriver!get_s_meter
<1>13. \A got : One(YaesuDriver(rig)!get_swr(got))
  BY <1>a, <1>d, Zenon DEF YaesuDriver!get_swr
<1>14. \A got : One(YaesuDriver(rig)!get_alc(got))
  BY <1>a, <1>d, Zenon DEF YaesuDriver!get_alc
<1>15. \A got : One(YaesuDriver(rig)!get_split(got))
  BY <1>a, <1>d, Zenon DEF YaesuDriver!get_split
<1>16. P(YaesuDriver(rig)!set_split(c[2], a))
  <2>1. \A on : YaesuDriver(rig)!cmd_set_on("split", on).p # "TX"
    BY DEF YaesuDriver!cmd_set_on, YaesuDriver!encode_command
  <2>2. ASSUME NEW x, H(x), NEW read, NEW same, One(read), NEW evts, NEW e
        PROVE  /\ P([YaesuDriver(rig)!Verifies(<<x>>, read, same) EXCEPT !.evts = e])
               /\ P([YaesuDriver(rig)!Sets(<<x>>, evts) EXCEPT !.evts = e])
    <3>1. PICK z : H(z) /\ read.cmds = <<z>>
      BY <2>2 DEF H, One, TextOne
    <3>2. [YaesuDriver(rig)!Verifies(<<x>>, read, same) EXCEPT !.evts = e].cmds = <<x>> \o <<z>>
      BY <3>1 DEF YaesuDriver!Verifies, YaesuDriver!Script
    <3>3. [YaesuDriver(rig)!Sets(<<x>>, evts) EXCEPT !.evts = e].cmds = <<x>>
      BY DEF YaesuDriver!Sets, YaesuDriver!Script
    <3> QED  BY <2>2, <3>1, <3>2, <3>3, <1>0 DEF P, H, One, TextOne
  <2> QED  BY <1>b, <1>15, <2>1, <2>2, Zenon DEF YaesuDriver!set_split
<1>17. P(YaesuDriver(rig)!set_tx_receiver(c[2]))
  <2>1. \A v : YaesuDriver(rig)!cmd_set_on("split", v).p # "TX"
    BY DEF YaesuDriver!cmd_set_on, YaesuDriver!encode_command
  <2> QED  BY <1>b, <1>d, <2>1, Zenon DEF YaesuDriver!set_tx_receiver
<1>18. P(YaesuDriver(rig)!set_cw_key(c[2]))
  <2>1. rig.key_line # "None" => H(YaesuDriver(rig)!rt_set_line(rig.key_line = "Dtr", c[2]))
    BY DEF H, TextHarmless, LineKept, YaesuDriver!rt_set_line, Sound, PttMethod, KeyLine
  <2> QED  BY <1>d, <1>e, <2>1, Zenon DEF YaesuDriver!set_cw_key
<1>19. \A got : One(YaesuDriver(rig)!get_cw_speed(got))
  BY <1>a, <1>d, Zenon DEF YaesuDriver!get_cw_speed
<1>20. P(YaesuDriver(rig)!set_cw_speed(c[2], a))
  <2>1. \A v : YaesuDriver(rig)!cmd_set("cw_speed", v).p # "TX"
    BY DEF YaesuDriver!cmd_set, YaesuDriver!encode_command
  <2> QED  BY <1>b, <1>d, <1>19, <2>1, Zenon DEF YaesuDriver!set_cw_speed
<1>21. P(YaesuDriver(rig)!send_cw_message)
  BY <1>e, Zenon DEF YaesuDriver!send_cw_message
<1>22. P(YaesuDriver(rig)!stop_cw_message)
  BY <1>e, Zenon DEF YaesuDriver!stop_cw_message
<1>23. \A rx, got : One(YaesuDriver(rig)!get_agc(rx, got))
  BY <1>a, <1>d, Zenon DEF YaesuDriver!get_agc
<1>24. P(YaesuDriver(rig)!set_agc(c[2], c[3], a))
  <2>1. \A v : YaesuDriver(rig)!cmd_set_level("agc", v).p # "TX"
    BY DEF YaesuDriver!cmd_set_level, YaesuDriver!encode_command
  <2> QED  BY <1>b, <1>d, <1>23, <2>1, Zenon DEF YaesuDriver!set_agc
<1>25. \A rx, got : One(YaesuDriver(rig)!get_preamp(rx, got))
  BY <1>a, <1>d, Zenon DEF YaesuDriver!get_preamp
<1>26. P(YaesuDriver(rig)!set_preamp(c[2], c[3], a))
  <2>1. \A v : YaesuDriver(rig)!cmd_set_level("preamp", v).p # "TX"
    BY DEF YaesuDriver!cmd_set_level, YaesuDriver!encode_command
  <2> QED  BY <1>b, <1>d, <1>e, <1>25, <2>1, Zenon DEF YaesuDriver!set_preamp
<1>27. \A rx, got : One(YaesuDriver(rig)!get_attenuator(rx, got))
  BY <1>a, <1>d, Zenon DEF YaesuDriver!get_attenuator
<1>28. P(YaesuDriver(rig)!set_attenuator(c[2], c[3], a))
  <2>1. \A v : YaesuDriver(rig)!cmd_set_level("attenuator", v).p # "TX"
    BY DEF YaesuDriver!cmd_set_level, YaesuDriver!encode_command
  <2> QED  BY <1>b, <1>d, <1>27, <2>1, Zenon DEF YaesuDriver!set_attenuator
<1>29. \A rx, got : One(YaesuDriver(rig)!get_antenna(rx, got))
  BY <1>a, <1>d, Zenon DEF YaesuDriver!get_antenna
<1>30. P(YaesuDriver(rig)!set_antenna(c[2], c[3], a))
  <2>1. \A v : YaesuDriver(rig)!cmd_set_level("antenna", v).p # "TX"
    BY DEF YaesuDriver!cmd_set_level, YaesuDriver!encode_command
  <2> QED  BY <1>b, <1>d, <1>29, <2>1, Zenon DEF YaesuDriver!set_antenna
<1>31. \A got : One(YaesuDriver(rig)!get_rit(got))
  BY <1>a, <1>d, Zenon DEF YaesuDriver!get_rit
<1>32. c[3] \in Int => P(YaesuDriver(rig)!set_rit(c[2], c[3]))
  <2>0. /\ YaesuDriver(rig)!cmd_set_on("rit", c[2]).p # "TX" /\ YaesuDriver(rig)!cmd_rit_clear.p # "TX"
        /\ \A hz : \A what \in {"up", "down"} : YaesuDriver(rig)!cmd_rit(what, hz).p # "TX"
    BY DEF YaesuDriver!cmd_rit, YaesuDriver!cmd_rit_clear, YaesuDriver!cmd_set_on, YaesuDriver!encode_command
  <2> DEFINE X == YaesuDriver(rig)!execute_set_command(YaesuDriver(rig)!cmd_set_on("rit", c[2]))
             Y == YaesuDriver(rig)!execute_set_command(YaesuDriver(rig)!cmd_rit_clear)
  <2>1. c[3] \in Int => YaesuDriver(rig)!Shift(c[3]) \in {<<Y>> \o <<>>} \cup {<<Y>> \o <<z>> : z \in
             {YaesuDriver(rig)!execute_set_command(YaesuDriver(rig)!cmd_rit("up", c[3])),
              YaesuDriver(rig)!execute_set_command(YaesuDriver(rig)!cmd_rit("down", YaesuDriver(rig)!Abs(c[3])))}}
    <3>1. c[3] \in Int => c[3] > 0 \/ c[3] < 0 \/ c[3] = 0
      OBVIOUS
    <3> QED  BY <3>1, Zenon DEF YaesuDriver!Shift
  <2>2. H(X) /\ H(Y) /\ \A hz : \A what \in {"up", "down"} :
           H(YaesuDriver(rig)!execute_set_command(YaesuDriver(rig)!cmd_rit(what, hz)))
    BY <1>b, <2>0
  <2> HIDE DEF X, Y
  <2>3. \A z, evts : H(z) => P(YaesuDriver(rig)!Sets(<<X>> \o (<<Y>> \o <<z>>), evts))
    BY <2>2 DEF P, H, TextAsks, YaesuDriver!Sets, YaesuDriver!Script
  <2>4. \A evts : P(YaesuDriver(rig)!Sets(<<X>> \o (<<Y>> \o <<>>), evts))
    <3>1. <<Y>> \o <<>> = <<Y>>
      OBVIOUS
    <3> QED  BY <2>2, <3>1 DEF P, H, TextAsks, YaesuDriver!Sets, YaesuDriver!Script
  <2>5. c[3] \in Int => \A evts : P(YaesuDriver(rig)!Sets(<<X>> \o YaesuDriver(rig)!Shift(c[3]), evts))
    BY <2>1, <2>2, <2>3, <2>4, Zenon
  <2> QED  BY <2>5, Zenon DEF YaesuDriver!set_rit, X
<1>33. \A got : One(YaesuDriver(rig)!get_xit(got))
  BY <1>a, <1>d, Zenon DEF YaesuDriver!get_xit
<1>34. c[3] \in Int => P(YaesuDriver(rig)!set_xit(c[2], c[3]))
  <2>0. /\ YaesuDriver(rig)!cmd_set_on("xit", c[2]).p # "TX" /\ YaesuDriver(rig)!cmd_rit_clear.p # "TX"
        /\ \A hz : \A what \in {"up", "down"} : YaesuDriver(rig)!cmd_rit(what, hz).p # "TX"
    BY DEF YaesuDriver!cmd_rit, YaesuDriver!cmd_rit_clear, YaesuDriver!cmd_set_on, YaesuDriver!encode_command
  <2> DEFINE X == YaesuDriver(rig)!execute_set_command(YaesuDriver(rig)!cmd_set_on("xit", c[2]))
             Y == YaesuDriver(rig)!execute_set_command(YaesuDriver(rig)!cmd_rit_clear)
  <2>1. c[3] \in Int => YaesuDriver(rig)!Shift(c[3]) \in {<<Y>> \o <<>>} \cup {<<Y>> \o <<z>> : z \in
             {YaesuDriver(rig)!execute_set_command(YaesuDriver(rig)!cmd_rit("up", c[3])),
              YaesuDriver(rig)!execute_set_command(YaesuDriver(rig)!cmd_rit("down", YaesuDriver(rig)!Abs(c[3])))}}
    <3>1. c[3] \in Int => c[3] > 0 \/ c[3] < 0 \/ c[3] = 0
      OBVIOUS
    <3> QED  BY <3>1, Zenon DEF YaesuDriver!Shift
  <2>2. H(X) /\ H(Y) /\ \A hz : \A what \in {"up", "down"} :
           H(YaesuDriver(rig)!execute_set_command(YaesuDriver(rig)!cmd_rit(what, hz)))
    BY <1>b, <2>0
  <2> HIDE DEF X, Y
  <2>3. \A z, evts : H(z) => P(YaesuDriver(rig)!Sets(<<X>> \o (<<Y>> \o <<z>>), evts))
    BY <2>2 DEF P, H, TextAsks, YaesuDriver!Sets, YaesuDriver!Script
  <2>4. \A evts : P(YaesuDriver(rig)!Sets(<<X>> \o (<<Y>> \o <<>>), evts))
    <3>1. <<Y>> \o <<>> = <<Y>>
      OBVIOUS
    <3> QED  BY <2>2, <3>1 DEF P, H, TextAsks, YaesuDriver!Sets, YaesuDriver!Script
  <2>5. c[3] \in Int => \A evts : P(YaesuDriver(rig)!Sets(<<X>> \o YaesuDriver(rig)!Shift(c[3]), evts))
    BY <2>1, <2>2, <2>3, <2>4, Zenon
  <2> QED  BY <2>5, Zenon DEF YaesuDriver!set_xit, X
<1>35. P(YaesuDriver(rig)!set_vfo_a_eq_b(c[2]))
  <2>1. YaesuDriver(rig)!cmd_vfo("a_eq_b").p # "TX"
    BY DEF YaesuDriver!cmd_vfo, YaesuDriver!encode_command
  <2> QED  BY <1>b, <1>d, <2>1, Zenon DEF YaesuDriver!set_vfo_a_eq_b
<1>36. P(YaesuDriver(rig)!swap_vfo(c[2]))
  <2>1. YaesuDriver(rig)!cmd_vfo("swap").p # "TX"
    BY DEF YaesuDriver!cmd_vfo, YaesuDriver!encode_command
  <2> QED  BY <1>b, <1>d, <2>1, Zenon DEF YaesuDriver!swap_vfo
<1>37. /\ P(YaesuDriver(rig)!get_frequency(c[2], a))
       /\ P(YaesuDriver(rig)!get_mode(c[2], a))
       /\ P(YaesuDriver(rig)!get_ptt(a))
       /\ P(YaesuDriver(rig)!get_power(a))
       /\ P(YaesuDriver(rig)!get_s_meter(c[2], a))
       /\ P(YaesuDriver(rig)!get_swr(a))
       /\ P(YaesuDriver(rig)!get_alc(a))
       /\ P(YaesuDriver(rig)!get_split(a))
       /\ P(YaesuDriver(rig)!get_cw_speed(a))
       /\ P(YaesuDriver(rig)!get_agc(c[2], a))
       /\ P(YaesuDriver(rig)!get_preamp(c[2], a))
       /\ P(YaesuDriver(rig)!get_attenuator(c[2], a))
       /\ P(YaesuDriver(rig)!get_antenna(c[2], a))
       /\ P(YaesuDriver(rig)!get_rit(a))
       /\ P(YaesuDriver(rig)!get_xit(a))
  BY <1>0, <1>2, <1>4, <1>8, <1>10, <1>12, <1>13, <1>14, <1>15, <1>19, <1>23, <1>25, <1>27, <1>29,
     <1>31, <1>33, Zenon DEF P, One
<1> QED  BY <1>e, <1>1, <1>3, <1>5, <1>6, <1>7, <1>9, <1>11, <1>16, <1>17, <1>18, <1>20, <1>21,
            <1>22, <1>24, <1>26, <1>28, <1>30, <1>32, <1>34, <1>35, <1>36, <1>37,
            ZenonT(60) DEF Operations, P, YaesuDriver!Operation

\* Script s is one harmless exchange.
CivOne(rig, s) == \E x : CivHarmless(rig, x) /\ s.cmds = <<x>>

\* A script of up to two harmless exchanges asks what is harmless.
LEMMA CivScripts ==
  ASSUME NEW rig, NEW A, NEW a \in Seq(A)
  PROVE  /\ \A s : s.cmds = <<>> \/ CivOne(rig, s) => CivAsks(rig, s, a)
         /\ \A s, x, y : CivHarmless(rig, x) /\ CivHarmless(rig, y) /\ s.cmds = <<x, y>>
                         => CivAsks(rig, s, a)
<1>1. \A s : s.cmds = <<>> => CivAsks(rig, s, a)
  BY DEF CivAsks
<1>2. \A s : CivOne(rig, s) => CivAsks(rig, s, a)
  BY DEF CivAsks, CivOne
<1>3. \A s, x, y : CivHarmless(rig, x) /\ CivHarmless(rig, y) /\ s.cmds = <<x, y>>
                   => CivAsks(rig, s, a)
  BY DEF CivAsks
<1> QED  BY <1>1, <1>2, <1>3, Zenon

\* So does one that selects a receiver, sel, and has up to two more.
LEMMA CivSelected ==
  ASSUME NEW rig, NEW A, NEW a \in Seq(A), NEW sel,
         sel = <<>> \/ \E z : sel = <<z>> /\ CivHarmless(rig, z)
  PROVE  /\ \A s : s.cmds = sel => CivAsks(rig, s, a)
         /\ \A s, x : CivHarmless(rig, x) /\ s.cmds = Append(sel, x) => CivAsks(rig, s, a)
         /\ \A s, x, y : /\ CivHarmless(rig, x) /\ CivHarmless(rig, y)
                         /\ s.cmds = Append(Append(sel, x), y)
                         => CivAsks(rig, s, a)
         /\ \A s, x, last : /\ CivHarmless(rig, x) /\ s.cmds = Append(sel, x) \o last.cmds
                            /\ last.cmds = <<>> \/ CivOne(rig, last)
                            => CivAsks(rig, s, a)
<1>1. ASSUME NEW X, \A x \in X : CivHarmless(rig, x), NEW p \in Seq(X), NEW s, s.cmds = p
      PROVE  CivAsks(rig, s, a)
  BY <1>1 DEF CivAsks
<1>2. PICK Z : sel \in Seq(Z) /\ \A z \in Z : CivHarmless(rig, z)
  <2>1. CASE sel = <<>>
    <3>1. sel \in Seq({}) /\ \A z \in {} : CivHarmless(rig, z)
      BY <2>1
    <3> QED  BY <3>1
  <2>2. ASSUME NEW z, sel = <<z>>, CivHarmless(rig, z)
        PROVE  \E Z : sel \in Seq(Z) /\ \A y \in Z : CivHarmless(rig, y)
    <3>1. sel \in Seq({z}) /\ \A y \in {z} : CivHarmless(rig, y)
      BY <2>2
    <3> QED  BY <3>1
  <2> QED  BY <2>1, <2>2
<1>9. ASSUME NEW W, \A z \in W : CivHarmless(rig, z), NEW p \in Seq(W), NEW x, CivHarmless(rig, x)
      PROVE  /\ Append(p, x) \in Seq(W \cup {x}) /\ p \o <<x>> \in Seq(W \cup {x})
             /\ \A z \in W \cup {x} : CivHarmless(rig, z)
  <2>1. p \in Seq(W \cup {x}) /\ <<x>> \in Seq(W \cup {x})
    OBVIOUS
  <2> QED  BY <1>9, <2>1
<1>3. ASSUME NEW x, CivHarmless(rig, x)
      PROVE  /\ Append(sel, x) \in Seq(Z \cup {x})
             /\ \A z \in Z \cup {x} : CivHarmless(rig, z)
  BY <1>2, <1>3, <1>9
<1>4. \A s : s.cmds = sel => CivAsks(rig, s, a)
  BY <1>1, <1>2
<1>5. ASSUME NEW s, NEW x, CivHarmless(rig, x), s.cmds = Append(sel, x)  PROVE CivAsks(rig, s, a)
  BY <1>1, <1>3, <1>5
<1>6. ASSUME NEW s, NEW x, CivHarmless(rig, x), NEW y, CivHarmless(rig, y),
             s.cmds = Append(Append(sel, x), y)
      PROVE  CivAsks(rig, s, a)
  <2>1. /\ Append(Append(sel, x), y) \in Seq((Z \cup {x}) \cup {y})
        /\ \A z \in (Z \cup {x}) \cup {y} : CivHarmless(rig, z)
    <3>1. /\ Append(sel, x) \in Seq(Z \cup {x})
          /\ \A z \in Z \cup {x} : CivHarmless(rig, z)
      BY <1>3, <1>6
    <3> QED  BY <1>9, <1>6, <3>1
  <2> QED  BY <1>1, <1>6, <2>1
<1>7. ASSUME NEW s, NEW x, CivHarmless(rig, x), NEW last, s.cmds = Append(sel, x) \o last.cmds,
             last.cmds = <<>> \/ CivOne(rig, last)
      PROVE  CivAsks(rig, s, a)
  <2>1. CASE last.cmds = <<>>
    <3>1. Append(sel, x) \o <<>> \in Seq(Z \cup {x})
      BY <1>3, <1>7
    <3> QED  BY <1>1, <1>3, <1>7, <2>1, <3>1
  <2>2. ASSUME NEW y, CivHarmless(rig, y), last.cmds = <<y>>  PROVE CivAsks(rig, s, a)
    <3>1. /\ Append(sel, x) \o <<y>> \in Seq((Z \cup {x}) \cup {y})
          /\ \A z \in (Z \cup {x}) \cup {y} : CivHarmless(rig, z)
      <4>1. /\ Append(sel, x) \in Seq(Z \cup {x})
            /\ \A z \in Z \cup {x} : CivHarmless(rig, z)
        BY <1>3, <1>7
      <4> QED  BY <1>9, <2>2, <4>1
    <3> QED  BY <1>1, <1>7, <2>2, <3>1
  <2> QED  BY <1>7, <2>1, <2>2 DEF CivOne
<1> QED  BY <1>4, <1>5, <1>6, <1>7, Zenon

\* What an operation of an Icom rig asks next is harmless, unless it is set_ptt(true).
LEMMA IcomAsks ==
  ASSUME NEW rig, Sound(rig), NEW A, NEW a \in Seq(A), NEW c, c[1] \in Operations,
         c[1] = "set_ptt" => c[2] = FALSE
  PROVE  CivAsks(rig, IcomDriver(rig)!Operation(c, a), a)
<1> DEFINE P(s)   == CivAsks(rig, s, a)
           One(s) == CivOne(rig, s)
           H(x)   == CivHarmless(rig, x)
           sel    == IcomDriver(rig)!select_receiver(c[2])
<1>0. /\ \A s : s.cmds = <<>> \/ One(s) => P(s)
      /\ \A s, x, y : H(x) /\ H(y) /\ s.cmds = <<x, y>> => P(s)
  BY CivScripts
<1>a. \A cmd : H(IcomDriver(rig)!execute_command(cmd))
  BY DEF CivHarmless, LineKept, IcomDriver!execute_command, IcomDriver!Civ
<1>b. \A cmd : cmd.p[1] # \h1C => /\ H(IcomDriver(rig)!execute_ack_command(cmd))
                                  /\ H(IcomDriver(rig)!execute_rt_ack_command(cmd))
  BY DEF CivHarmless, LineKept, IcomDriver!execute_ack_command, IcomDriver!execute_rt_ack_command,
         IcomDriver!Civ
<1> HIDE DEF H
<1>c. \A cmds, ret, evts : IcomDriver(rig)!Script(cmds, ret, evts).cmds = cmds
  BY DEF IcomDriver!Script
<1>d. \A x : H(x) => /\ \A res : One(IcomDriver(rig)!Reads(x, res))
                     /\ \A res, evt : One(IcomDriver(rig)!ReadsAndTells(x, res, evt))
                     /\ \A evts : One(IcomDriver(rig)!Sets(<<x>>, evts))
  <2> SUFFICES ASSUME NEW x, H(x), NEW res, NEW evt, NEW evts
               PROVE  /\ One(IcomDriver(rig)!Reads(x, res))
                      /\ One(IcomDriver(rig)!ReadsAndTells(x, res, evt))
                      /\ One(IcomDriver(rig)!Sets(<<x>>, evts))
    OBVIOUS
  <2>1. /\ IcomDriver(rig)!Reads(x, res).cmds = <<x>>
        /\ IcomDriver(rig)!ReadsAndTells(x, res, evt).cmds = <<x>>
        /\ IcomDriver(rig)!Sets(<<x>>, evts).cmds = <<x>>
    BY <1>c DEF IcomDriver!Reads, IcomDriver!ReadsAndTells, IcomDriver!Sets
  <2> QED  BY <2>1, Zenon DEF H, CivOne
<1>e. \A x : /\ IcomDriver(rig)!Refused(x).cmds = <<>>
             /\ P(IcomDriver(rig)!Refused(x)) /\ P(IcomDriver(rig)!Return(x))
  BY <1>0, <1>c DEF IcomDriver!Refused, IcomDriver!Return
<1>f. \A x, y, ret, evts :
        H(x) /\ H(y) => /\ P(IcomDriver(rig)!Script(<<x>>, ret, evts))
                        /\ P(IcomDriver(rig)!Script(<<x, y>>, ret, evts))
                        /\ P(IcomDriver(rig)!Sets(<<x>>, evts))
                        /\ P(IcomDriver(rig)!Sets(<<x, y>>, evts))
  <2>1. \A x, ret, evts : H(x) => One(IcomDriver(rig)!Script(<<x>>, ret, evts))
    BY <1>c DEF CivOne, H
  <2> HIDE DEF One, P
  <2>2. \A x, y, ret, evts : H(x) /\ H(y) => P(IcomDriver(rig)!Script(<<x, y>>, ret, evts))
    BY DEF P, H, CivAsks, IcomDriver!Script
  <2> QED  BY <1>0, <2>1, <2>2, Zenon DEF IcomDriver!Sets
<1>s. /\ \A ret, evts : P(IcomDriver(rig)!Script(sel, ret, evts))
      /\ \A x, ret, evts : H(x) => P(IcomDriver(rig)!Script(Append(sel, x), ret, evts))
      /\ \A x, y, ret, evts :
           H(x) /\ H(y) => P(IcomDriver(rig)!Script(Append(Append(sel, x), y), ret, evts))
      /\ \A x, last, ret, evts :
           H(x) /\ (last.cmds = <<>> \/ One(last))
           => P(IcomDriver(rig)!Script(Append(sel, x) \o last.cmds, ret, evts))
  <2>1. \A rx : /\ IcomDriver(rig)!cmd_select_main_sub(rx).p[1] # \h1C
                /\ IcomDriver(rig)!cmd_select_vfo(rx).p[1] # \h1C
    BY DEF IcomDriver!cmd_select_main_sub, IcomDriver!cmd_select_vfo, IcomDriver!encode_frame
  <2>2. \A rx : LET s == IcomDriver(rig)!select_receiver(rx)
                IN  s = <<>> \/ \E z : s = <<z>> /\ CivHarmless(rig, z)
    BY <1>b, <2>1, Zenon DEF IcomDriver!select_receiver, H
  <2> HIDE DEF sel, One
  <2>3. sel = <<>> \/ \E z : sel = <<z>> /\ CivHarmless(rig, z)
    BY <2>2 DEF sel
  <2>4. /\ \A s : s.cmds = sel => P(s)
        /\ \A s, x : H(x) /\ s.cmds = Append(sel, x) => P(s)
        /\ \A s, x, y : H(x) /\ H(y) /\ s.cmds = Append(Append(sel, x), y) => P(s)
        /\ \A s, x, last : /\ H(x) /\ s.cmds = Append(sel, x) \o last.cmds
                           /\ last.cmds = <<>> \/ One(last)
                           => P(s)
    BY <2>3, CivSelected DEF One, H
  <2> HIDE DEF P
  <2>5. ASSUME NEW ret, NEW evts  PROVE P(IcomDriver(rig)!Script(sel, ret, evts))
    <3>1. IcomDriver(rig)!Script(sel, ret, evts).cmds = sel
      BY <1>c
    <3> QED  BY <2>4, <3>1, Zenon
  <2>6. ASSUME NEW x, H(x), NEW ret, NEW evts
        PROVE  P(IcomDriver(rig)!Script(Append(sel, x), ret, evts))
    <3>1. IcomDriver(rig)!Script(Append(sel, x), ret, evts).cmds = Append(sel, x)
      BY <1>c
    <3> QED  BY <2>4, <2>6, <3>1, Zenon
  <2>7. ASSUME NEW x, H(x), NEW y, H(y), NEW ret, NEW evts
        PROVE  P(IcomDriver(rig)!Script(Append(Append(sel, x), y), ret, evts))
    <3>1. IcomDriver(rig)!Script(Append(Append(sel, x), y), ret, evts).cmds = Append(Append(sel, x), y)
      BY <1>c
    <3> QED  BY <2>4, <2>7, <3>1, Zenon
  <2>8. ASSUME NEW x, H(x), NEW last, last.cmds = <<>> \/ One(last), NEW ret, NEW evts
        PROVE  P(IcomDriver(rig)!Script(Append(sel, x) \o last.cmds, ret, evts))
    <3>1. IcomDriver(rig)!Script(Append(sel, x) \o last.cmds, ret, evts).cmds = Append(sel, x) \o last.cmds
      BY <1>c
    <3> QED  BY <2>4, <2>8, <3>1, Zenon
  <2> QED  BY <2>5, <2>6, <2>7, <2>8, Zenon
<1> HIDE DEF One, P
<1>1. P(IcomDriver(rig)!receivers)
  BY <1>e, Zenon DEF IcomDriver!receivers
<1>2. P(IcomDriver(rig)!get_frequency(c[2], a))
  BY <1>a, <1>s, Zenon DEF IcomDriver!get_frequency, IcomDriver!SelectedRead
<1>3. P(IcomDriver(rig)!set_frequency(c[2], c[3]))
  <2>1. \A v : IcomDriver(rig)!cmd_set_frequency(v).p[1] # \h1C
    BY DEF IcomDriver!cmd_set_frequency, IcomDriver!encode_frame
  <2> QED  BY <1>b, <1>s, <2>1, Zenon DEF IcomDriver!set_frequency, IcomDriver!SelectedSet, IcomDriver!Sets
<1>4. P(IcomDriver(rig)!get_mode(c[2], a))
  BY <1>a, <1>s, Zenon DEF IcomDriver!get_mode, IcomDriver!SelectedRead
<1>5. P(IcomDriver(rig)!set_mode(c[2], c[3]))
  <2>1. \A v : IcomDriver(rig)!cmd_set_mode(v).p[1] # \h1C
    BY DEF IcomDriver!cmd_set_mode, IcomDriver!encode_frame
  <2> QED  BY <1>b, <1>s, <2>1, Zenon DEF IcomDriver!set_mode, IcomDriver!SelectedSet, IcomDriver!Sets
<1>6. P(IcomDriver(rig)!get_passband(c[2], a))
  BY <1>a, <1>d, <1>s, Zenon DEF IcomDriver!get_passband, IcomDriver!AfterMode
<1>7. P(IcomDriver(rig)!set_passband(c[2], c[3], a))
  <2>1. \A b : IcomDriver(rig)!encode_frame(\h1A, <<\h03>>, b).p[1] # \h1C
    BY DEF IcomDriver!encode_frame
  <2> DEFINE Chosen(mode) ==
               LET index == IcomDriver(rig)!hz_to_index(mode, c[3])
               IN  IF ~index.ok THEN IcomDriver(rig)!Refused(index.v)
                   ELSE IcomDriver(rig)!Sets(<<IcomDriver(rig)!execute_ack_command(
                          IcomDriver(rig)!encode_frame(\h1A, <<\h03>>,
                                                       IcomDriver(rig)!Bcd4(index.v)))>>, <<>>)
  <2>2. \A mode : Chosen(mode).cmds = <<>> \/ One(Chosen(mode))
    BY <1>b, <1>d, <1>e, <2>1, Zenon
  <2> QED  BY <1>s, <1>a, <2>2, Zenon DEF IcomDriver!set_passband, IcomDriver!AfterMode
<1>8. P(IcomDriver(rig)!get_ptt(a))
  BY <1>a, <1>0, <1>d, Zenon DEF IcomDriver!get_ptt
<1>9. c[2] = FALSE => P(IcomDriver(rig)!set_ptt(c[2]))
  <2> DEFINE x == CASE rig.ptt_method = "Cat" ->
                         IcomDriver(rig)!execute_rt_ack_command(IcomDriver(rig)!cmd_set_ptt(FALSE))
                    [] rig.ptt_method = "Dtr" -> IcomDriver(rig)!set_serial_line_rt(TRUE, FALSE)
                    [] rig.ptt_method = "Rts" -> IcomDriver(rig)!set_serial_line_rt(FALSE, FALSE)
  <2>0. IcomDriver(rig)!Bit(FALSE).v = 0
    BY DEF IcomDriver!Bit, IcomDriver!Digits
  <2>1. IcomDriver(rig)!Switch(FALSE) = <<0>>
    BY DEF IcomDriver!Switch
  <2>2. H(IcomDriver(rig)!execute_rt_ack_command(IcomDriver(rig)!cmd_set_ptt(FALSE)))
    BY <2>1 DEF H, CivHarmless, LineKept, IcomDriver!execute_rt_ack_command,
         IcomDriver!Civ, IcomDriver!cmd_set_ptt, IcomDriver!encode_frame
  <2>3. H(IcomDriver(rig)!set_serial_line_rt(TRUE, FALSE)) /\ H(IcomDriver(rig)!set_serial_line_rt(FALSE, FALSE))
    <3>1. \A p \in {"DTR", "RTS"} : \A d :
            d.v = 0 => H([kind |-> "line", rt |-> TRUE, p |-> p, d |-> d])
      BY DEF H, CivHarmless, LineKept
    <3> QED  BY <2>0, <3>1, Zenon DEF IcomDriver!set_serial_line_rt, IcomDriver!rt_set_line
  <2>4. H(x)
    BY <2>2, <2>3, Zenon DEF Sound, PttMethod
  <2> HIDE DEF x
  <2>5. P(IcomDriver(rig)!Sets(<<x>>, <<<<"PttChanged", FALSE>>>>))
    BY <2>4, <1>f, Zenon
  <2> QED  BY <2>5, Zenon DEF IcomDriver!set_ptt, x
<1>10. P(IcomDriver(rig)!get_power(a))
  BY <1>a, <1>0, <1>d, Zenon DEF IcomDriver!get_power
<1>11. P(IcomDriver(rig)!set_power(c[2]))
  <2>1. \A v : IcomDriver(rig)!cmd_set_level("power", v).p[1] # \h1C
    BY DEF IcomDriver!cmd_set_level, IcomDriver!encode_frame
  <2>2. \A v, evts :
          P(IcomDriver(rig)!Sets(<<IcomDriver(rig)!execute_ack_command(
                                        IcomDriver(rig)!cmd_set_level("power", v))>>, evts))
    BY <1>b, <1>f, <2>1, Zenon
  <2> QED  BY <1>e, <2>2 DEF IcomDriver!set_power
<1>12. P(IcomDriver(rig)!get_s_meter(c[2], a))
  BY <1>a, <1>s, Zenon DEF IcomDriver!get_s_meter, IcomDriver!SelectedRead
<1>13. P(IcomDriver(rig)!get_swr(a))
  BY <1>a, <1>0, <1>d, Zenon DEF IcomDriver!get_swr
<1>14. P(IcomDriver(rig)!get_alc(a))
  BY <1>a, <1>0, <1>d, Zenon DEF IcomDriver!get_alc
<1>15. P(IcomDriver(rig)!get_split(a))
  BY <1>a, <1>0, <1>d, Zenon DEF IcomDriver!get_split
<1>16. P(IcomDriver(rig)!set_split(c[2]))
  <2>1. \A v : IcomDriver(rig)!cmd_set_split(v).p[1] # \h1C
    BY DEF IcomDriver!cmd_set_split, IcomDriver!encode_frame
  <2> QED  BY <1>b, <1>f, <2>1, Zenon DEF IcomDriver!set_split
<1>17. P(IcomDriver(rig)!set_tx_receiver(c[2]))
  <2>1. \A v : IcomDriver(rig)!cmd_select_vfo(v).p[1] # \h1C
    BY DEF IcomDriver!cmd_select_vfo, IcomDriver!encode_frame
  <2> QED  BY <1>b, <1>f, <1>e, <2>1, Zenon DEF IcomDriver!set_tx_receiver
<1>18. P(IcomDriver(rig)!set_cw_key(c[2]))
  <2>1. rig.key_line # "None" => H(IcomDriver(rig)!set_serial_line_rt(rig.key_line = "Dtr", c[2]))
    BY DEF H, CivHarmless, LineKept, IcomDriver!set_serial_line_rt, IcomDriver!rt_set_line, Sound, PttMethod, KeyLine
  <2> QED  BY <1>f, <1>e, <2>1, Zenon DEF IcomDriver!set_cw_key
<1>19. P(IcomDriver(rig)!get_cw_speed(a))
  <2>1. \A res, evt :
          P(IcomDriver(rig)!ReadsAndTells(IcomDriver(rig)!execute_command(IcomDriver(rig)!cmd_read("cw_speed")),
                                          res, evt))
    BY <1>a, <1>0, <1>d, Zenon
  <2> QED  BY <2>1 DEF IcomDriver!get_cw_speed
<1>20. P(IcomDriver(rig)!set_cw_speed(c[2]))
  <2>1. \A v : IcomDriver(rig)!cmd_set_level("cw_speed", v).p[1] # \h1C
    BY DEF IcomDriver!cmd_set_level, IcomDriver!encode_frame
  <2>2. \A v, evts :
          P(IcomDriver(rig)!Sets(<<IcomDriver(rig)!execute_ack_command(
                                        IcomDriver(rig)!cmd_set_level("cw_speed", v))>>, evts))
    BY <1>b, <1>f, <2>1, Zenon
  <2> QED  BY <2>2 DEF IcomDriver!set_cw_speed
<1>21. P(IcomDriver(rig)!send_cw_message(c[2]))
  <2>1. \A v : IcomDriver(rig)!cmd_send_cw_message(v).p[1] # \h1C
    BY DEF IcomDriver!cmd_send_cw_message, IcomDriver!encode_frame
  <2>2. \A v : H(IcomDriver(rig)!execute_rt_ack_command(IcomDriver(rig)!cmd_send_cw_message(v)))
    BY <1>b, <2>1
  <2> QED  BY <2>2 DEF IcomDriver!send_cw_message, IcomDriver!Sets, IcomDriver!Script, P, H, CivAsks
<1>22. P(IcomDriver(rig)!stop_cw_message)
  <2>1. IcomDriver(rig)!cmd_stop_cw_message.p[1] # \h1C
    BY DEF IcomDriver!cmd_stop_cw_message, IcomDriver!encode_frame
  <2> QED  BY <1>b, <1>f, <2>1, Zenon DEF IcomDriver!stop_cw_message
<1>23. P(IcomDriver(rig)!get_agc(c[2], a))
  BY <1>a, <1>s, Zenon DEF IcomDriver!get_agc
<1>24. P(IcomDriver(rig)!set_agc(c[2], c[3]))
  <2>1. \A v : /\ IcomDriver(rig)!cmd_set("agc_time_constant", v).p[1] # \h1C
               /\ IcomDriver(rig)!cmd_set("agc_mode", v).p[1] # \h1C
    BY DEF IcomDriver!cmd_set, IcomDriver!encode_frame
  <2> QED  BY <1>b, <1>s, <2>1, Zenon DEF IcomDriver!set_agc, IcomDriver!SelectedSet, IcomDriver!Sets
<1>25. P(IcomDriver(rig)!get_preamp(c[2], a))
  BY <1>a, <1>s, Zenon DEF IcomDriver!get_preamp, IcomDriver!SelectedRead
<1>26. P(IcomDriver(rig)!set_preamp(c[2], c[3]))
  <2>1. \A v : IcomDriver(rig)!cmd_set("preamp", v).p[1] # \h1C
    BY DEF IcomDriver!cmd_set, IcomDriver!encode_frame
  <2> QED  BY <1>b, <1>s, <2>1, Zenon DEF IcomDriver!set_preamp, IcomDriver!SelectedSet, IcomDriver!Sets
<1>27. P(IcomDriver(rig)!get_attenuator(c[2], a))
  BY <1>a, <1>s, Zenon DEF IcomDriver!get_attenuator, IcomDriver!SelectedRead
<1>28. P(IcomDriver(rig)!set_attenuator(c[2], c[3]))
  <2>1. \A v : IcomDriver(rig)!cmd_set("attenuator", v).p[1] # \h1C
    BY DEF IcomDriver!cmd_set, IcomDriver!encode_frame
  <2> QED  BY <1>b, <1>s, <2>1, Zenon DEF IcomDriver!set_attenuator, IcomDriver!SelectedSet, IcomDriver!Sets
<1>29. P(IcomDriver(rig)!get_antenna(c[2], a))
  BY <1>a, <1>0, <1>d, Zenon DEF IcomDriver!get_antenna
<1>30. P(IcomDriver(rig)!set_antenna(c[2], c[3]))
  <2>1. \A v : IcomDriver(rig)!cmd_set("antenna", v).p[1] # \h1C
    BY DEF IcomDriver!cmd_set, IcomDriver!encode_frame
  <2> QED  BY <1>b, <1>f, <2>1, Zenon DEF IcomDriver!set_antenna
<1>31. P(IcomDriver(rig)!get_rit(a))
  BY <1>a, <1>f, Zenon DEF IcomDriver!get_rit, IcomDriver!SwitchAndOffset
<1>32. P(IcomDriver(rig)!set_rit(c[2], c[3]))
  <2>1. \A v : /\ IcomDriver(rig)!cmd_set_on("rit", v).p[1] # \h1C
               /\ IcomDriver(rig)!cmd_set_rit_xit_offset(v).p[1] # \h1C
    BY DEF IcomDriver!cmd_set_on, IcomDriver!cmd_set_rit_xit_offset, IcomDriver!encode_frame
  <2> QED  BY <1>b, <1>f, <2>1, Zenon DEF IcomDriver!set_rit
<1>33. P(IcomDriver(rig)!get_xit(a))
  BY <1>a, <1>f, Zenon DEF IcomDriver!get_xit, IcomDriver!SwitchAndOffset
<1>34. P(IcomDriver(rig)!set_xit(c[2], c[3]))
  <2>1. \A v : /\ IcomDriver(rig)!cmd_set_on("xit", v).p[1] # \h1C
               /\ IcomDriver(rig)!cmd_set_rit_xit_offset(v).p[1] # \h1C
    BY DEF IcomDriver!cmd_set_on, IcomDriver!cmd_set_rit_xit_offset, IcomDriver!encode_frame
  <2> QED  BY <1>b, <1>f, <2>1, Zenon DEF IcomDriver!set_xit
<1>35. P(IcomDriver(rig)!set_vfo_a_eq_b(c[2]))
  <2>1. IcomDriver(rig)!cmd_vfo("a_eq_b").p[1] # \h1C
    BY DEF IcomDriver!cmd_vfo, IcomDriver!encode_frame
  <2> QED  BY <1>b, <1>f, <2>1, Zenon DEF IcomDriver!set_vfo_a_eq_b
<1>36. P(IcomDriver(rig)!swap_vfo(c[2]))
  <2>1. IcomDriver(rig)!cmd_vfo("swap").p[1] # \h1C
    BY DEF IcomDriver!cmd_vfo, IcomDriver!encode_frame
  <2> QED  BY <1>b, <1>f, <2>1, Zenon DEF IcomDriver!swap_vfo
<1> QED  BY <1>e, <1>1, <1>2, <1>3, <1>4, <1>5, <1>6, <1>7, <1>8, <1>9, <1>10, <1>11, <1>12,
            <1>13, <1>14, <1>15, <1>16, <1>17, <1>18, <1>19, <1>20, <1>21, <1>22, <1>23, <1>24,
            <1>25, <1>26, <1>27, <1>28, <1>29, <1>30, <1>31, <1>32, <1>33, <1>34, <1>35, <1>36,
            ZenonT(60) DEF Operations, P, IcomDriver!Operation

\* The exchange of set_ptt(true) of a Kenwood rig has one of the kinds there are.
LEMMA KenwoodPtt ==
  ASSUME NEW rig, Sound(rig), NEW A, NEW a \in Seq(A)
  PROVE  LET s == KenwoodDriver(rig)!Operation(<<"set_ptt", TRUE>>, a)
         IN  Len(a) < Len(s.cmds) => s.cmds[Len(a) + 1].kind \in {"query", "set", "line"}
<1> DEFINE x == CASE rig.ptt_method = "Cat" -> KenwoodDriver(rig)!rt_set_command(KenwoodDriver(rig)!cmd_set_ptt(TRUE))
                  [] rig.ptt_method = "Dtr" -> KenwoodDriver(rig)!rt_set_line(TRUE, TRUE)
                  [] rig.ptt_method = "Rts" -> KenwoodDriver(rig)!rt_set_line(FALSE, TRUE)
           c == <<"set_ptt", TRUE>>
<1>1. c[1] = "set_ptt" /\ c[2] = TRUE
  OBVIOUS
<1>2. \A cmd, dtr : /\ KenwoodDriver(rig)!rt_set_command(cmd).kind \in {"query", "set", "line"}
                    /\ KenwoodDriver(rig)!rt_set_line(dtr, TRUE).kind \in {"query", "set", "line"}
  BY DEF KenwoodDriver!rt_set_command, KenwoodDriver!rt_set_line
<1>3. x.kind \in {"query", "set", "line"}
  BY <1>2, Zenon DEF Sound, PttMethod
<1> HIDE DEF x, c
<1>4. KenwoodDriver(rig)!Operation(c, a) = KenwoodDriver(rig)!set_ptt(TRUE)
  BY <1>1, Zenon DEF KenwoodDriver!Operation
<1>5. KenwoodDriver(rig)!set_ptt(TRUE) = KenwoodDriver(rig)!Sets(<<x>>, <<<<"PttChanged", TRUE>>>>)
  BY Zenon DEF KenwoodDriver!set_ptt, x
<1>6. KenwoodDriver(rig)!Operation(c, a).cmds = <<x>>
  <2>1. \A y, evts : KenwoodDriver(rig)!Sets(y, evts).cmds = y
    BY DEF KenwoodDriver!Sets, KenwoodDriver!Script
  <2> QED  BY <1>4, <1>5, <2>1, Zenon
<1>7. LET s == KenwoodDriver(rig)!Operation(c, a)
      IN  Len(a) < Len(s.cmds) => s.cmds[Len(a) + 1].kind \in {"query", "set", "line"}
  BY <1>3, <1>6
<1> QED  BY <1>7 DEF c

\* The exchange of set_ptt(true) of an Elecraft rig has one of the kinds there are.
LEMMA ElecraftPtt ==
  ASSUME NEW rig, Sound(rig), NEW A, NEW a \in Seq(A)
  PROVE  LET s == ElecraftDriver(rig)!Operation(<<"set_ptt", TRUE>>, a)
         IN  Len(a) < Len(s.cmds) => s.cmds[Len(a) + 1].kind \in {"query", "set", "line"}
<1> DEFINE x == CASE rig.ptt_method = "Cat" -> ElecraftDriver(rig)!rt_set_command(ElecraftDriver(rig)!cmd_set_ptt(TRUE))
                  [] rig.ptt_method = "Dtr" -> ElecraftDriver(rig)!rt_set_line(TRUE, TRUE)
                  [] rig.ptt_method = "Rts" -> ElecraftDriver(rig)!rt_set_line(FALSE, TRUE)
           c == <<"set_ptt", TRUE>>
<1>1. c[1] = "set_ptt" /\ c[2] = TRUE
  OBVIOUS
<1>2. \A cmd, dtr : /\ ElecraftDriver(rig)!rt_set_command(cmd).kind \in {"query", "set", "line"}
                    /\ ElecraftDriver(rig)!rt_set_line(dtr, TRUE).kind \in {"query", "set", "line"}
  BY DEF ElecraftDriver!rt_set_command, ElecraftDriver!rt_set_line
<1>3. x.kind \in {"query", "set", "line"}
  BY <1>2, Zenon DEF Sound, PttMethod
<1> HIDE DEF x, c
<1>4. ElecraftDriver(rig)!Operation(c, a) = ElecraftDriver(rig)!set_ptt(TRUE)
  BY <1>1, Zenon DEF ElecraftDriver!Operation
<1>5. ElecraftDriver(rig)!set_ptt(TRUE) = ElecraftDriver(rig)!Sets(<<x>>, <<<<"PttChanged", TRUE>>>>)
  BY Zenon DEF ElecraftDriver!set_ptt, x
<1>6. ElecraftDriver(rig)!Operation(c, a).cmds = <<x>>
  <2>1. \A y, evts : ElecraftDriver(rig)!Sets(y, evts).cmds = y
    BY DEF ElecraftDriver!Sets, ElecraftDriver!Script
  <2> QED  BY <1>4, <1>5, <2>1, Zenon
<1>7. LET s == ElecraftDriver(rig)!Operation(c, a)
      IN  Len(a) < Len(s.cmds) => s.cmds[Len(a) + 1].kind \in {"query", "set", "line"}
  BY <1>3, <1>6
<1> QED  BY <1>7 DEF c

\* The exchange of set_ptt(true) of a Yaesu rig has one of the kinds there are.
LEMMA YaesuPtt ==
  ASSUME NEW rig, Sound(rig), NEW A, NEW a \in Seq(A)
  PROVE  LET s == YaesuDriver(rig)!Operation(<<"set_ptt", TRUE>>, a)
         IN  Len(a) < Len(s.cmds) => s.cmds[Len(a) + 1].kind \in {"query", "set", "line"}
<1> DEFINE x == CASE rig.ptt_method = "Cat" -> YaesuDriver(rig)!rt_set_command(YaesuDriver(rig)!cmd_set_ptt(TRUE))
                  [] rig.ptt_method = "Dtr" -> YaesuDriver(rig)!rt_set_line(TRUE, TRUE)
                  [] rig.ptt_method = "Rts" -> YaesuDriver(rig)!rt_set_line(FALSE, TRUE)
           c == <<"set_ptt", TRUE>>
<1>1. c[1] = "set_ptt" /\ c[2] = TRUE
  OBVIOUS
<1>2. \A cmd, dtr : /\ YaesuDriver(rig)!rt_set_command(cmd).kind \in {"query", "set", "line"}
                    /\ YaesuDriver(rig)!rt_set_line(dtr, TRUE).kind \in {"query", "set", "line"}
  BY DEF YaesuDriver!rt_set_command, YaesuDriver!rt_set_line
<1>3. x.kind \in {"query", "set", "line"}
  BY <1>2, Zenon DEF Sound, PttMethod
<1> HIDE DEF x, c
<1>4. YaesuDriver(rig)!Operation(c, a) = YaesuDriver(rig)!set_ptt(TRUE)
  BY <1>1, Zenon DEF YaesuDriver!Operation
<1>5. YaesuDriver(rig)!set_ptt(TRUE) = YaesuDriver(rig)!Sets(<<x>>, <<<<"PttChanged", TRUE>>>>)
  BY Zenon DEF YaesuDriver!set_ptt, x
<1>6. YaesuDriver(rig)!Operation(c, a).cmds = <<x>>
  <2>1. \A y, evts : YaesuDriver(rig)!Sets(y, evts).cmds = y
    BY DEF YaesuDriver!Sets, YaesuDriver!Script
  <2> QED  BY <1>4, <1>5, <2>1, Zenon
<1>7. LET s == YaesuDriver(rig)!Operation(c, a)
      IN  Len(a) < Len(s.cmds) => s.cmds[Len(a) + 1].kind \in {"query", "set", "line"}
  BY <1>3, <1>6
<1> QED  BY <1>7 DEF c

\* The exchange of set_ptt(true) of an Icom rig has one of the kinds there are.
LEMMA IcomPtt ==
  ASSUME NEW rig, Sound(rig), NEW A, NEW a \in Seq(A)
  PROVE  LET s == IcomDriver(rig)!Operation(<<"set_ptt", TRUE>>, a)
         IN  Len(a) < Len(s.cmds) => s.cmds[Len(a) + 1].kind \in {"query", "ack", "line"}
<1> DEFINE x == CASE rig.ptt_method = "Cat" -> IcomDriver(rig)!execute_rt_ack_command(IcomDriver(rig)!cmd_set_ptt(TRUE))
                  [] rig.ptt_method = "Dtr" -> IcomDriver(rig)!set_serial_line_rt(TRUE, TRUE)
                  [] rig.ptt_method = "Rts" -> IcomDriver(rig)!set_serial_line_rt(FALSE, TRUE)
           c == <<"set_ptt", TRUE>>
<1>1. c[1] = "set_ptt" /\ c[2] = TRUE
  OBVIOUS
<1>2. \A cmd, dtr : /\ IcomDriver(rig)!execute_rt_ack_command(cmd).kind \in {"query", "ack", "line"}
                    /\ IcomDriver(rig)!set_serial_line_rt(dtr, TRUE).kind \in {"query", "ack", "line"}
  BY DEF IcomDriver!execute_rt_ack_command, IcomDriver!rt_set_line, IcomDriver!set_serial_line_rt, IcomDriver!Civ
<1>3. x.kind \in {"query", "ack", "line"}
  BY <1>2, Zenon DEF Sound, PttMethod
<1> HIDE DEF x, c
<1>4. IcomDriver(rig)!Operation(c, a) = IcomDriver(rig)!set_ptt(TRUE)
  BY <1>1, Zenon DEF IcomDriver!Operation
<1>5. IcomDriver(rig)!set_ptt(TRUE) = IcomDriver(rig)!Sets(<<x>>, <<<<"PttChanged", TRUE>>>>)
  BY Zenon DEF IcomDriver!set_ptt, x
<1>6. IcomDriver(rig)!Operation(c, a).cmds = <<x>>
  <2>1. \A y, evts : IcomDriver(rig)!Sets(y, evts).cmds = y
    BY DEF IcomDriver!Sets, IcomDriver!Script
  <2> QED  BY <1>4, <1>5, <2>1, Zenon
<1>7. LET s == IcomDriver(rig)!Operation(c, a)
      IN  Len(a) < Len(s.cmds) => s.cmds[Len(a) + 1].kind \in {"query", "ack", "line"}
  BY <1>3, <1>6
<1> QED  BY <1>7 DEF c

-----------------------------------------------------------------------------
(* The transceivers: what an exchange does to one.                         *)

\* A transceiver with a CAT port has a register TX and two control lines.
TextShape(at) ==
  /\ at = [rx |-> at.rx, reg |-> at.reg, keyer |-> at.keyer, lines |-> at.lines]
  /\ at.reg = [k \in DOMAIN at.reg |-> at.reg[k]]
  /\ <<"TX", "">> \in DOMAIN at.reg
  /\ at.lines \in [{"DTR", "RTS"} -> BOOLEAN]

\* The line that keys the transmitter.
LEMMA PttLineOf ==
  ASSUME NEW rig
  PROVE  /\ rig.ptt_method = "Dtr" => /\ Serial(rig)!Line(rig.ptt_method) = "DTR"
                                      /\ Bus(rig)!Line(rig.ptt_method) = "DTR"
         /\ rig.ptt_method = "Rts" => /\ Serial(rig)!Line(rig.ptt_method) = "RTS"
                                      /\ Bus(rig)!Line(rig.ptt_method) = "RTS"
BY Zenon DEF Serial!Line, Bus!Line

\* What changes when a part of a transceiver changes.
LEMMA Parts ==
  ASSUME NEW at, at = [rx |-> at.rx, reg |-> at.reg, keyer |-> at.keyer, lines |-> at.lines]
  PROVE  /\ \A p, v : [at EXCEPT !.lines[p] = v] =
              [rx |-> at.rx, reg |-> at.reg, keyer |-> at.keyer, lines |-> [at.lines EXCEPT ![p] = v]]
         /\ \A v : [at EXCEPT !.rx = v] = [rx |-> v, reg |-> at.reg, keyer |-> at.keyer, lines |-> at.lines]
         /\ \A i, v : [at EXCEPT !.rx[i] = v] =
              [rx |-> [at.rx EXCEPT ![i] = v], reg |-> at.reg, keyer |-> at.keyer, lines |-> at.lines]
         /\ \A p, v : [at EXCEPT !.reg[p] = v] =
              [rx |-> at.rx, reg |-> [at.reg EXCEPT ![p] = v], keyer |-> at.keyer, lines |-> at.lines]
         /\ \A v : [at EXCEPT !.reg = v] = [rx |-> at.rx, reg |-> v, keyer |-> at.keyer, lines |-> at.lines]
         /\ \A v : [at EXCEPT !.keyer = v] = [rx |-> at.rx, reg |-> at.reg, keyer |-> v, lines |-> at.lines]
         /\ \A v : [at EXCEPT !.keyer.room = v] =
              [rx |-> at.rx, reg |-> at.reg, keyer |-> [at.keyer EXCEPT !.room = v], lines |-> at.lines]
         /\ \A v : [at EXCEPT !.keyer.lost = v] =
              [rx |-> at.rx, reg |-> at.reg, keyer |-> [at.keyer EXCEPT !.lost = v], lines |-> at.lines]
OBVIOUS

\* A harmless exchange does not key a transceiver with a CAT port.
LEMMA TextExchange ==
  ASSUME NEW rig, Sound(rig), NEW at, TextShape(at), NEW x, x.kind \in {"query", "set", "line"}
  PROVE  LET b == Serial(rig)!Exchange(at, x).radio
         IN  /\ TextShape(b)
             /\ TextHarmless(rig, x) /\ ~Serial(rig)!Transmits(at) => ~Serial(rig)!Transmits(b)
<1> DEFINE Quiet_(b) == /\ TextShape(b)
                        /\ TextHarmless(rig, x) /\ ~Serial(rig)!Transmits(at) => ~Serial(rig)!Transmits(b)
           Radio(reg, keyer, lines) == [rx |-> at.rx, reg |-> reg, keyer |-> keyer, lines |-> lines]
           Facing_(rx) == [rx |-> rx, reg |-> at.reg, keyer |-> at.keyer, lines |-> at.lines]
<1>0. at = Radio(at.reg, at.keyer, at.lines)
  BY DEF TextShape
<1>1. \A keyer : Quiet_(Radio(at.reg, keyer, at.lines))
  BY DEF TextShape, Serial!Transmits, Serial!PttLine
<1>2. Quiet_(at)
  BY <1>0, <1>1
<1>3. \A on \in BOOLEAN :
        x.kind = "line" /\ on = (x.d.v = 1) => Quiet_(Radio(at.reg, at.keyer, [at.lines EXCEPT ![x.p] = on]))
  <2> SUFFICES ASSUME NEW on \in BOOLEAN, x.kind = "line", on <=> x.d.v = 1
               PROVE  Quiet_(Radio(at.reg, at.keyer, [at.lines EXCEPT ![x.p] = on]))
    OBVIOUS
  <2> DEFINE lines == [at.lines EXCEPT ![x.p] = on]
             b == Radio(at.reg, at.keyer, lines)
  <2>1. lines \in [{"DTR", "RTS"} -> BOOLEAN]
    BY DEF TextShape
  <2>2. TextShape(b)
    BY <2>1 DEF TextShape
  <2>4. ASSUME TextHarmless(rig, x), ~Serial(rig)!Transmits(at)
        PROVE  ~Serial(rig)!PttLine(b)
    <3>1. CASE rig.ptt_method = "Cat"
      BY <3>1 DEF Serial!PttLine
    <3>2. CASE rig.ptt_method = "Dtr"
      BY <2>4, <3>2, PttLineOf DEF Serial!PttLine, Serial!Transmits, TextShape, TextHarmless, LineKept
    <3>3. CASE rig.ptt_method = "Rts"
      BY <2>4, <3>3, PttLineOf DEF Serial!PttLine, Serial!Transmits, TextShape, TextHarmless, LineKept
    <3> QED  BY <3>1, <3>2, <3>3 DEF Sound, PttMethod
  <2> QED  BY <2>2, <2>4 DEF Serial!Transmits
<1>4. \A key, v : (TextHarmless(rig, x) => key # <<"TX", "">> \/ v.v = 0) =>
        Quiet_(Radio([at.reg EXCEPT ![key] = v], at.keyer, at.lines))
  BY DEF TextShape, Serial!Transmits, Serial!PttLine
<1>5. \A rx : Quiet_(Facing_(rx))
  BY DEF TextShape, Serial!Transmits, Serial!PttLine
<1>6. /\ \A p, v : [at EXCEPT !.reg[p] = v] = Radio([at.reg EXCEPT ![p] = v], at.keyer, at.lines)
      /\ \A v : [at EXCEPT !.reg = v] = Radio(v, at.keyer, at.lines)
      /\ \A v : [at EXCEPT !.rx = v] = Facing_(v)
      /\ \A i, v : [at EXCEPT !.rx[i] = v] = Facing_([at.rx EXCEPT ![i] = v])
      /\ \A v : [at EXCEPT !.keyer = v] = Radio(at.reg, v, at.lines)
      /\ \A v : [at EXCEPT !.keyer.room = v] = Radio(at.reg, [at.keyer EXCEPT !.room = v], at.lines)
      /\ \A v : [at EXCEPT !.keyer.lost = v] = Radio(at.reg, [at.keyer EXCEPT !.lost = v], at.lines)
      /\ \A p, v : [at EXCEPT !.lines[p] = v] = Radio(at.reg, at.keyer, [at.lines EXCEPT ![p] = v])
  BY Parts DEF TextShape
<1>61. \A q, w : [at EXCEPT !.lines[q] = w] = Radio(at.reg, at.keyer, [at.lines EXCEPT ![q] = w])
  BY <1>6
<1> HIDE DEF Quiet_, Radio, Facing_
<1>7. x.kind = "line" => Quiet_([at EXCEPT !.lines[x.p] = (x.d.v = 1)])
  <2>1. (x.d.v = 1) \in BOOLEAN
    OBVIOUS
  <2>2. \A p : \A on \in BOOLEAN :
          x.kind = "line" /\ p = x.p /\ on = (x.d.v = 1) => Quiet_([at EXCEPT !.lines[p] = on])
    <3> SUFFICES ASSUME NEW p, NEW on \in BOOLEAN, x.kind = "line", p = x.p, on = (x.d.v = 1)
                 PROVE  Quiet_([at EXCEPT !.lines[p] = on])
      OBVIOUS
    <3>1. Quiet_(Radio(at.reg, at.keyer, [at.lines EXCEPT ![p] = on]))
      BY <1>3
    <3>2. [at EXCEPT !.lines[p] = on] = Radio(at.reg, at.keyer, [at.lines EXCEPT ![p] = on])
      BY ONLY <1>61
    <3> QED  BY <3>1, <3>2
  <2> QED  BY <2>1, <2>2, Zenon
<1>8. \A i, v : Quiet_([at EXCEPT !.rx = v]) /\ Quiet_([at EXCEPT !.rx[i] = v])
  BY <1>5, <1>6
<1>9. \A v, w, y : /\ Quiet_([at EXCEPT !.keyer.room = v]) /\ Quiet_([at EXCEPT !.keyer.lost = y])
                   /\ Quiet_([at EXCEPT !.keyer = v])
  BY <1>1, <1>6
<1>10. \A key, v : (TextHarmless(rig, x) => key # <<"TX", "">> \/ v.v = 0) => Quiet_([at EXCEPT !.reg[key] = v])
  <2> SUFFICES ASSUME NEW key, NEW v, TextHarmless(rig, x) => key # <<"TX", "">> \/ v.v = 0
               PROVE  Quiet_([at EXCEPT !.reg[key] = v])
    OBVIOUS
  <2>1. Quiet_(Radio([at.reg EXCEPT ![key] = v], at.keyer, at.lines))
    BY <1>4
  <2>2. [at EXCEPT !.reg[key] = v] = Radio([at.reg EXCEPT ![key] = v], at.keyer, at.lines)
    BY <1>6
  <2> QED  BY <2>1, <2>2
<1>11. \A key, v : key # <<"TX", "">> => Quiet_([at EXCEPT !.reg[key] = v])
  BY <1>10
<1>12. \A hz : Quiet_(Serial(rig)!Shifted(at, hz))
  BY <1>11, Zenon DEF Serial!Shifted
<1>13. Quiet_([at EXCEPT !.reg[<<"TX", "">>] = Serial(rig)!Bit(FALSE)])
  <2>1. Serial(rig)!Bit(FALSE).v = 0
    BY DEF Serial!Bit, Serial!Digits
  <2> QED  BY <1>10, <2>1, Zenon
<1>14. Serial(rig)!Key(x) = <<"TX", "">> => x.p = "TX"
  <2>1. /\ <<"F", "">> # <<"TX", "">> /\ <<"MD", "">> # <<"TX", "">>
        /\ \A p : <<p, "$">> # <<"TX", "">> /\ (<<p, "">> = <<"TX", "">> => p = "TX")
    OBVIOUS
  <2> QED  BY <2>1, Zenon DEF Serial!Key
<1>15. x.kind = "set" /\ Serial(rig)!Key(x) = <<"TX", "">> /\ TextHarmless(rig, x) => x.d.v = 0
  BY <1>14 DEF TextHarmless
<1>16. x.kind = "set" => Quiet_(Serial(rig)!Does(at, x))
  <2> DEFINE key == Serial(rig)!Key(x)
  <2>1. Quiet_([at EXCEPT !.reg = at.reg])
    <3>1. [at EXCEPT !.reg = at.reg] = at
      BY <1>0, <1>6
    <3> QED  BY <1>2, <3>1
  <2>2. x.kind = "set" => Quiet_([at EXCEPT !.reg = [at.reg EXCEPT ![key] = x.d]])
    <3>1. x.kind = "set" => Quiet_(Radio([at.reg EXCEPT ![key] = x.d], at.keyer, at.lines))
      BY <1>4, <1>15
    <3> QED  BY <1>6, <3>1
  <2>3. x.kind = "set" => Quiet_([at EXCEPT !.reg = Serial(rig)!Takes(at.reg, key, x.d)])
    BY <2>1, <2>2, Zenon DEF Serial!Takes
  <2>4. \A v : Quiet_([at EXCEPT !.reg[<<"RO", "">>] = v])
    BY <1>11
  <2> QED  BY <1>2, <1>8, <1>9, <1>12, <1>13, <2>3, <2>4, Zenon DEF Serial!Does
<1>17. Quiet_(Serial(rig)!Exchange(at, x).radio)
  <2>1. \A b, ok, d : [radio |-> b, ok |-> ok, d |-> d].radio = b
    OBVIOUS
  <2> QED  BY <1>2, <1>7, <1>16, <2>1, Zenon DEF Serial!Exchange
<1> QED  BY <1>17 DEF Quiet_

\* A transceiver on the CI-V bus has a setting \h1C 00 and two control lines.
CivShape(at) ==
  /\ at = [sel |-> at.sel, rx |-> at.rx, set |-> at.set, keyer |-> at.keyer, lines |-> at.lines]
  /\ at.set = [k \in DOMAIN at.set |-> at.set[k]]
  /\ <<\h1C, 0>> \in DOMAIN at.set
  /\ at.lines \in [{"DTR", "RTS"} -> BOOLEAN]

\* What changes when a part of a transceiver on the bus changes.
LEMMA BusParts ==
  ASSUME NEW at,
         at = [sel |-> at.sel, rx |-> at.rx, set |-> at.set, keyer |-> at.keyer, lines |-> at.lines]
  PROVE  /\ \A v : [at EXCEPT !.sel = v] =
              [sel |-> v, rx |-> at.rx, set |-> at.set, keyer |-> at.keyer, lines |-> at.lines]
         /\ \A v : [at EXCEPT !.rx = v] =
              [sel |-> at.sel, rx |-> v, set |-> at.set, keyer |-> at.keyer, lines |-> at.lines]
         /\ \A i, v : [at EXCEPT !.rx[i] = v] =
              [sel |-> at.sel, rx |-> [at.rx EXCEPT ![i] = v], set |-> at.set, keyer |-> at.keyer,
               lines |-> at.lines]
         /\ \A p, v : [at EXCEPT !.set[p] = v] =
              [sel |-> at.sel, rx |-> at.rx, set |-> [at.set EXCEPT ![p] = v], keyer |-> at.keyer,
               lines |-> at.lines]
         /\ \A v : [at EXCEPT !.keyer.took = v] =
              [sel |-> at.sel, rx |-> at.rx, set |-> at.set, keyer |-> [at.keyer EXCEPT !.took = v],
               lines |-> at.lines]
         /\ \A p, v : [at EXCEPT !.lines[p] = v] =
              [sel |-> at.sel, rx |-> at.rx, set |-> at.set, keyer |-> at.keyer,
               lines |-> [at.lines EXCEPT ![p] = v]]
OBVIOUS

\* A harmless exchange does not key a transceiver on the bus.
LEMMA CivExchange ==
  ASSUME NEW rig, Sound(rig), NEW at, CivShape(at), NEW x, x.kind \in {"query", "ack", "line"}
  PROVE  LET b == Bus(rig)!Exchange(at, x).radio
         IN  /\ CivShape(b)
             /\ CivHarmless(rig, x) /\ ~Bus(rig)!Transmits(at) => ~Bus(rig)!Transmits(b)
<1> DEFINE Quiet_(b) == /\ CivShape(b)
                        /\ CivHarmless(rig, x) /\ ~Bus(rig)!Transmits(at) => ~Bus(rig)!Transmits(b)
           Radio(sel, rx, set, keyer, lines) ==
             [sel |-> sel, rx |-> rx, set |-> set, keyer |-> keyer, lines |-> lines]
           Unkeyed(p, v) == CivHarmless(rig, x) => p # <<\h1C, 0>> \/ v = <<0>>
<1>0. at = Radio(at.sel, at.rx, at.set, at.keyer, at.lines)
  BY DEF CivShape
<1>1. \A sel, rx, keyer : Quiet_(Radio(sel, rx, at.set, keyer, at.lines))
  BY DEF CivShape, Bus!Transmits
<1>2. Quiet_(at)
  BY <1>0, <1>1
<1>3. \A on \in BOOLEAN :
        x.kind = "line" /\ on = (x.d.v = 1)
        => Quiet_(Radio(at.sel, at.rx, at.set, at.keyer, [at.lines EXCEPT ![x.p] = on]))
  <2> SUFFICES ASSUME NEW on \in BOOLEAN, x.kind = "line", on <=> x.d.v = 1
               PROVE  Quiet_(Radio(at.sel, at.rx, at.set, at.keyer, [at.lines EXCEPT ![x.p] = on]))
    OBVIOUS
  <2> DEFINE lines == [at.lines EXCEPT ![x.p] = on]
             b == Radio(at.sel, at.rx, at.set, at.keyer, lines)
  <2>1. lines \in [{"DTR", "RTS"} -> BOOLEAN]
    BY DEF CivShape
  <2>2. CivShape(b)
    BY <2>1 DEF CivShape
  <2>3. ASSUME CivHarmless(rig, x), ~Bus(rig)!Transmits(at)
        PROVE  ~Bus(rig)!Transmits(b)
    <3>1. CASE rig.ptt_method = "Cat"
      BY <2>3, <3>1 DEF Bus!Transmits
    <3>2. CASE rig.ptt_method = "Dtr"
      BY <2>3, <3>2, PttLineOf DEF Bus!Transmits, CivShape, CivHarmless, LineKept
    <3>3. CASE rig.ptt_method = "Rts"
      BY <2>3, <3>3, PttLineOf DEF Bus!Transmits, CivShape, CivHarmless, LineKept
    <3> QED  BY <3>1, <3>2, <3>3 DEF Sound, PttMethod
  <2> QED  BY <2>2, <2>3
<1>4. \A p, v : Unkeyed(p, v) =>
        Quiet_(Radio(at.sel, at.rx, [at.set EXCEPT ![p] = v], at.keyer, at.lines))
  BY DEF CivShape, Bus!Transmits
<1>5. /\ \A v : [at EXCEPT !.sel = v] = Radio(v, at.rx, at.set, at.keyer, at.lines)
      /\ \A v : [at EXCEPT !.rx = v] = Radio(at.sel, v, at.set, at.keyer, at.lines)
      /\ \A i, v : [at EXCEPT !.rx[i] = v] =
           Radio(at.sel, [at.rx EXCEPT ![i] = v], at.set, at.keyer, at.lines)
      /\ \A p, v : [at EXCEPT !.set[p] = v] =
           Radio(at.sel, at.rx, [at.set EXCEPT ![p] = v], at.keyer, at.lines)
      /\ \A v : [at EXCEPT !.keyer.took = v] =
           Radio(at.sel, at.rx, at.set, [at.keyer EXCEPT !.took = v], at.lines)
      /\ \A p, v : [at EXCEPT !.lines[p] = v] =
           Radio(at.sel, at.rx, at.set, at.keyer, [at.lines EXCEPT ![p] = v])
  BY BusParts DEF CivShape
<1> HIDE DEF Quiet_, Radio
<1>6. x.kind = "line" => Quiet_([at EXCEPT !.lines[x.p] = (x.d.v = 1)])
  <2>1. (x.d.v = 1) \in BOOLEAN
    OBVIOUS
  <2>2. \A p : \A on \in BOOLEAN :
          x.kind = "line" /\ p = x.p /\ on = (x.d.v = 1) => Quiet_([at EXCEPT !.lines[p] = on])
    <3> SUFFICES ASSUME NEW p, NEW on \in BOOLEAN, x.kind = "line", p = x.p, on = (x.d.v = 1)
                 PROVE  Quiet_([at EXCEPT !.lines[p] = on])
      OBVIOUS
    <3>1. Quiet_(Radio(at.sel, at.rx, at.set, at.keyer, [at.lines EXCEPT ![p] = on]))
      BY <1>3
    <3>2. [at EXCEPT !.lines[p] = on] = Radio(at.sel, at.rx, at.set, at.keyer, [at.lines EXCEPT ![p] = on])
      BY <1>5
    <3> QED  BY <3>1, <3>2
  <2> QED  BY <2>1, <2>2, Zenon
<1>7. \A v, i : /\ Quiet_([at EXCEPT !.sel = v]) /\ Quiet_([at EXCEPT !.rx = v])
                /\ Quiet_([at EXCEPT !.rx[i] = v]) /\ Quiet_([at EXCEPT !.keyer.took = v])
  BY <1>1, <1>5
<1>8. \A p, v : Unkeyed(p, v) => Quiet_([at EXCEPT !.set[p] = v])
  <2> SUFFICES ASSUME NEW p, NEW v, Unkeyed(p, v)
               PROVE  Quiet_([at EXCEPT !.set[p] = v])
    OBVIOUS
  <2>1. Quiet_(Radio(at.sel, at.rx, [at.set EXCEPT ![p] = v], at.keyer, at.lines))
    BY <1>4
  <2>2. [at EXCEPT !.set[p] = v] = Radio(at.sel, at.rx, [at.set EXCEPT ![p] = v], at.keyer, at.lines)
    BY <1>5
  <2> QED  BY <2>1, <2>2
<1>9. x.kind = "ack" => Quiet_(Bus(rig)!Does(at, x))
  <2>1. x.kind = "ack" => Quiet_([at EXCEPT !.set[x.p] = x.d])
    BY <1>8 DEF CivHarmless
  <2>2. \A v : Quiet_([at EXCEPT !.set[<<\h0F>>] = v])
    <3>1. <<\h0F>> # <<\h1C, 0>>
      OBVIOUS
    <3> QED  BY <1>8, <3>1
  <2> QED  BY <1>2, <1>7, <2>1, <2>2, Zenon DEF Bus!Does
<1>10. Quiet_(Bus(rig)!Exchange(at, x).radio)
  <2>1. \A b, ok, d : [radio |-> b, ok |-> ok, d |-> d].radio = b
    OBVIOUS
  <2> QED  BY <1>2, <1>6, <1>9, <2>1, Zenon DEF Bus!Exchange
<1> QED  BY <1>10 DEF Quiet_

\* Each kind of transceiver begins in its shape.
LEMMA TextFresh ==
  ASSUME NEW rig
  PROVE  TextShape(Serial(rig)!Fresh)
<1>1. ASSUME NEW pairs, NEW v, <<<<"TX", "">>, v>> \in pairs
      PROVE  LET f == Serial(rig)!Table(pairs)
             IN  f = [k \in DOMAIN f |-> f[k]] /\ <<"TX", "">> \in DOMAIN f
  <2>1. <<"TX", "">> \in {p[1] : p \in pairs}
    <3>1. <<<<"TX", "">>, v>>[1] = <<"TX", "">>
      OBVIOUS
    <3> QED  BY <1>1, <3>1, Zenon
  <2> DEFINE keys == {p[1] : p \in pairs}
             value(k) == (CHOOSE p \in pairs : p[1] = k)[2]
             f == [k \in keys |-> value(k)]
  <2>2. Serial(rig)!Table(pairs) = f
    BY Zenon DEF Serial!Table
  <2> HIDE DEF keys, value
  <2>3. f = [k \in DOMAIN f |-> f[k]] /\ DOMAIN f = keys
    OBVIOUS
  <2> HIDE DEF f
  <2> QED  BY <2>1, <2>2, <2>3 DEF keys
<1>2. [line \in {"DTR", "RTS"} |-> FALSE] \in [{"DTR", "RTS"} -> BOOLEAN]
  OBVIOUS
<1>3. \A f, rx, keyer : f = [k \in DOMAIN f |-> f[k]] /\ <<"TX", "">> \in DOMAIN f
        => TextShape([rx |-> rx, reg |-> f, keyer |-> keyer, lines |-> [line \in {"DTR", "RTS"} |-> FALSE]])
  BY <1>2 DEF TextShape
<1>4. <<<<"TX", "">>, Serial(rig)!Bit(FALSE)>> \in Serial(rig)!Common
  BY Zenon DEF Serial!Common
<1> HIDE DEF TextShape
<1>5. \A pairs, rx, keyer :
        <<<<"TX", "">>, Serial(rig)!Bit(FALSE)>> \in pairs =>
        TextShape([rx |-> rx, reg |-> Serial(rig)!Table(pairs), keyer |-> keyer,
                   lines |-> [line \in {"DTR", "RTS"} |-> FALSE]])
  BY <1>1, <1>3, Zenon
<1> QED  BY <1>4, <1>5, Zenon DEF Serial!Fresh

\* So does one on the bus.
LEMMA CivFresh ==
  ASSUME NEW rig
  PROVE  CivShape(Bus(rig)!Fresh)
<1>1. ASSUME NEW pairs, NEW v, <<<<\h1C, 0>>, v>> \in pairs
      PROVE  LET f == Bus(rig)!Table(pairs)
             IN  f = [k \in DOMAIN f |-> f[k]] /\ <<\h1C, 0>> \in DOMAIN f
  <2>1. <<\h1C, 0>> \in {p[1] : p \in pairs}
    <3>1. <<<<\h1C, 0>>, v>>[1] = <<\h1C, 0>>
      OBVIOUS
    <3> QED  BY <1>1, <3>1, Zenon
  <2> DEFINE keys == {p[1] : p \in pairs}
             value(k) == (CHOOSE p \in pairs : p[1] = k)[2]
             f == [k \in keys |-> value(k)]
  <2>2. Bus(rig)!Table(pairs) = f
    BY Zenon DEF Bus!Table
  <2> HIDE DEF keys, value
  <2>3. f = [k \in DOMAIN f |-> f[k]] /\ DOMAIN f = keys
    OBVIOUS
  <2> HIDE DEF f
  <2> QED  BY <2>1, <2>2, <2>3 DEF keys
<1>2. [line \in {"DTR", "RTS"} |-> FALSE] \in [{"DTR", "RTS"} -> BOOLEAN]
  OBVIOUS
<1>3. \A f, sel, rx, keyer : f = [k \in DOMAIN f |-> f[k]] /\ <<\h1C, 0>> \in DOMAIN f
        => CivShape([sel |-> sel, rx |-> rx, set |-> f, keyer |-> keyer,
                     lines |-> [line \in {"DTR", "RTS"} |-> FALSE]])
  BY <1>2 DEF CivShape
<1> HIDE DEF CivShape
<1>4. \A pairs, sel, rx, keyer :
        <<<<\h1C, 0>>, <<0>>>> \in pairs =>
        CivShape([sel |-> sel, rx |-> rx, set |-> Bus(rig)!Table(pairs), keyer |-> keyer,
                  lines |-> [line \in {"DTR", "RTS"} |-> FALSE]])
  BY <1>1, <1>3, Zenon
<1>5. <<<<\h1C, 0>>, <<0>>>> \in Bus(rig)!Common
  BY Zenon DEF Bus!Common
<1> QED  BY <1>4, <1>5, Zenon DEF Bus!Fresh

-----------------------------------------------------------------------------
(* A call of any make.                                                     *)

\* A transceiver, an exchange and the kinds of exchanges, by the port of the rig.
Shaped(rig, at)  == IF Icom(rig) THEN CivShape(at) ELSE TextShape(at)
Harmless(rig, x) == IF Icom(rig) THEN CivHarmless(rig, x) ELSE TextHarmless(rig, x)
Kinds(rig)       == IF Icom(rig) THEN {"query", "ack", "line"} ELSE {"query", "set", "line"}

\* What a rig and a call have for parameters.
Parameters(rig, c) ==
  /\ rig.model.make \in {"Kenwood", "Elecraft", "Yaesu", "Icom"}
  /\ rig.model.make = "Kenwood" =>
       rig.model.agc_command_style \in {"GcSimple", "GcVfo", "GtTimeConstant"}
  /\ rig.model.make \in {"Kenwood", "Elecraft"} => rig.model.rit_step_hz \in Nat \ {0}
  /\ c[1] \in Operations
  /\ c[1] = "set_ptt" => c \in {<<"set_ptt", TRUE>>, <<"set_ptt", FALSE>>}
  /\ c[1] \in {"set_rit", "set_xit"} => c[3] \in Int

\* What a call asks next is an exchange there is, and harmless unless the call is
\* set_ptt(true).
LEMMA Asked ==
  ASSUME NEW rig, Sound(rig), NEW c, Parameters(rig, c), NEW A, NEW a \in Seq(A),
         Len(a) < Len(OperationOf(rig, c, a).cmds)
  PROVE  LET x == OperationOf(rig, c, a).cmds[Len(a) + 1]
         IN  x.kind \in Kinds(rig) /\ (c # <<"set_ptt", TRUE>> => Harmless(rig, x))
<1> DEFINE Good(s) == Len(a) < Len(s.cmds) =>
                        /\ s.cmds[Len(a) + 1].kind \in Kinds(rig)
                        /\ c # <<"set_ptt", TRUE>> => Harmless(rig, s.cmds[Len(a) + 1])
<1>1. c # <<"set_ptt", TRUE>> => (c[1] = "set_ptt" => c[2] = FALSE)
  <2>1. <<"set_ptt", FALSE>>[2] = FALSE
    OBVIOUS
  <2> QED  BY <2>1, Zenon DEF Parameters
<1>2. \A s : ~Icom(rig) /\ TextAsks(rig, s, a) => Good(s)
  BY DEF TextAsks, Kinds, Harmless, TextHarmless
<1>3. \A s : Icom(rig) /\ CivAsks(rig, s, a) => Good(s)
  BY DEF CivAsks, Kinds, Harmless, CivHarmless
<1>4. rig.model.make = "Kenwood" => Good(KenwoodDriver(rig)!Operation(c, a))
  <2> SUFFICES ASSUME rig.model.make = "Kenwood"  PROVE Good(KenwoodDriver(rig)!Operation(c, a))
    OBVIOUS
  <2>1. ~Icom(rig)
    BY DEF Icom
  <2>2. CASE c = <<"set_ptt", TRUE>>
    BY <2>1, <2>2, KenwoodPtt DEF Kinds
  <2>3. CASE c # <<"set_ptt", TRUE>>
    BY <1>1, <1>2, <2>1, <2>3, KenwoodAsks DEF Parameters
  <2> QED  BY <2>2, <2>3
<1>5. rig.model.make = "Elecraft" => Good(ElecraftDriver(rig)!Operation(c, a))
  <2> SUFFICES ASSUME rig.model.make = "Elecraft"  PROVE Good(ElecraftDriver(rig)!Operation(c, a))
    OBVIOUS
  <2>1. ~Icom(rig)
    BY DEF Icom
  <2>2. CASE c = <<"set_ptt", TRUE>>
    BY <2>1, <2>2, ElecraftPtt DEF Kinds
  <2>3. CASE c # <<"set_ptt", TRUE>>
    BY <1>1, <1>2, <2>1, <2>3, ElecraftAsks DEF Parameters
  <2> QED  BY <2>2, <2>3
<1>6. rig.model.make = "Yaesu" => Good(YaesuDriver(rig)!Operation(c, a))
  <2> SUFFICES ASSUME rig.model.make = "Yaesu"  PROVE Good(YaesuDriver(rig)!Operation(c, a))
    OBVIOUS
  <2>1. ~Icom(rig)
    BY DEF Icom
  <2>2. CASE c = <<"set_ptt", TRUE>>
    BY <2>1, <2>2, YaesuPtt DEF Kinds
  <2>3. CASE c # <<"set_ptt", TRUE>>
    BY <1>1, <1>2, <2>1, <2>3, YaesuAsks DEF Parameters
  <2> QED  BY <2>2, <2>3
<1>7. rig.model.make = "Icom" => Good(IcomDriver(rig)!Operation(c, a))
  <2> SUFFICES ASSUME rig.model.make = "Icom"  PROVE Good(IcomDriver(rig)!Operation(c, a))
    OBVIOUS
  <2>1. Icom(rig)
    BY DEF Icom
  <2>2. CASE c = <<"set_ptt", TRUE>>
    BY <2>1, <2>2, IcomPtt DEF Kinds
  <2>3. CASE c # <<"set_ptt", TRUE>>
    BY <1>1, <1>3, <2>1, <2>3, IcomAsks DEF Parameters
  <2> QED  BY <2>2, <2>3
<1> HIDE DEF Good
<1>8. Good(OperationOf(rig, c, a))
  BY <1>4, <1>5, <1>6, <1>7, Zenon DEF OperationOf, Parameters
<1> QED  BY <1>8 DEF Good

\* An exchange keeps the form of a transceiver, and a harmless one does not key it.
LEMMA Exchanges ==
  ASSUME NEW rig, Sound(rig), NEW at, Shaped(rig, at), NEW x, x.kind \in Kinds(rig)
  PROVE  LET b == Exchange(rig, at, x).radio
         IN  Shaped(rig, b) /\ (Harmless(rig, x) /\ ~Transmits(rig, at) => ~Transmits(rig, b))
<1>1. CASE Icom(rig)
  BY <1>1, CivExchange DEF Shaped, Harmless, Kinds, Exchange, Transmits
<1>2. CASE ~Icom(rig)
  BY <1>2, TextExchange DEF Shaped, Harmless, Kinds, Exchange, Transmits
<1> QED  BY <1>1, <1>2

-----------------------------------------------------------------------------
(* The invariant and the theorem.                                          *)

\* The inductive invariant: the rig is one that its builder accepts, the
\* transceiver keeps its form, and a task is in no call or in one of its calls,
\* with a sequence of answers.
IInv ==
  /\ self \in Rigs /\ Sound(self)
  /\ Shaped(self, radio)
  /\ call = [t \in Tasks |-> call[t]]
  /\ \A t \in Tasks : call[t] # Idle => call[t] \in Calls(t, self)
  /\ r = [t \in Tasks |-> r[t]]
  /\ \A t \in Tasks : \E S : r[t] \in Seq(S)

\* A rig that its builder accepts has a line of its own for the transmitter.
LEMMA BuiltSound ==
  ASSUME NEW rig \in Rigs, Built(rig)
  PROVE  Sound(rig)
<1> DEFINE ptt == rig.ptt_method
           key == rig.key_line
           tell == rig.io.ai_enabled
<1>1. /\ ptt \in PttMethod /\ key \in KeyLine
      /\ rig.model.make \in {"Kenwood", "Elecraft", "Yaesu", "Icom"}
  BY ParametersAssumption
<1>2. CASE rig.model.make = "Kenwood"
  <2>1. KenwoodDriver(rig)!build_with_transport(ptt, key, tell).ret.ok
    BY <1>2, Zenon DEF Built
  <2>2. ~(ptt = key /\ key # "None")
    BY <2>1 DEF KenwoodDriver!build_with_transport, KenwoodDriver!Refused, KenwoodDriver!Script, KenwoodDriver!Err
  <2> QED  BY <1>1, <2>2 DEF Sound, PttMethod, KeyLine
<1>3. CASE rig.model.make = "Elecraft"
  <2>1. ElecraftDriver(rig)!build_with_transport(ptt, key, tell).ret.ok
    BY <1>3, Zenon DEF Built
  <2>2. ~(ptt = key /\ key # "None")
    BY <2>1 DEF ElecraftDriver!build_with_transport, ElecraftDriver!Refused, ElecraftDriver!Script, ElecraftDriver!Err
  <2> QED  BY <1>1, <2>2 DEF Sound, PttMethod, KeyLine
<1>4. CASE rig.model.make = "Yaesu"
  <2>1. YaesuDriver(rig)!build_with_transport(ptt, key, tell).ret.ok
    BY <1>4, Zenon DEF Built
  <2>2. ~(ptt = key /\ key # "None")
    BY <2>1 DEF YaesuDriver!build_with_transport, YaesuDriver!Refused, YaesuDriver!Script, YaesuDriver!Err
  <2> QED  BY <1>1, <2>2 DEF Sound, PttMethod, KeyLine
<1>5. CASE rig.model.make = "Icom"
  <2>1. IcomDriver(rig)!lines_differ(ptt, key, tell).ret.ok
    BY <1>5, Zenon DEF Built
  <2>2. <<ptt, key>> \notin {<<"Dtr", "Dtr">>, <<"Rts", "Rts">>}
    BY <2>1 DEF IcomDriver!lines_differ, IcomDriver!Refused, IcomDriver!Script, IcomDriver!Err
  <2> QED  BY <1>1, <2>2 DEF Sound, PttMethod, KeyLine
<1> QED  BY <1>1, <1>2, <1>3, <1>4, <1>5

\* What the rig and a call it is in have for parameters.
LEMMA CallParameters ==
  ASSUME NEW rig \in Rigs, NEW t \in Tasks, NEW c \in Calls(t, rig)
  PROVE  Parameters(rig, c)
<1>1. /\ rig.model.make \in {"Kenwood", "Elecraft", "Yaesu", "Icom"}
      /\ rig.model.make = "Kenwood" =>
           rig.model.agc_command_style \in {"GcSimple", "GcVfo", "GtTimeConstant"}
      /\ rig.model.make \in {"Kenwood", "Elecraft"} => rig.model.rit_step_hz \in Nat \ {0}
  BY ParametersAssumption
<1>2. /\ c[1] \in Operations
      /\ c[1] = "set_ptt" => c \in {<<"set_ptt", TRUE>>, <<"set_ptt", FALSE>>}
      /\ c[1] \in {"set_rit", "set_xit"} => c[3] \in Int
  BY ParametersAssumption
<1> QED  BY <1>1, <1>2 DEF Parameters

\* The scripts are those of the drivers, as in every instance.
Operated == \A rig, c, answers : RigOperation(rig, c, answers) = OperationOf(rig, c, answers)

\* The exchange a task wants next.
LEMMA WantedExchange ==
  ASSUME Operated, IInv, NEW t \in Tasks, Asks(t)
  PROVE  /\ Wanted(t).kind \in Kinds(self)
         /\ call[t] # <<"set_ptt", TRUE>> => Harmless(self, Wanted(t))
<1>1. call[t] \in Calls(t, self)
  BY DEF IInv, Asks
<1>2. Parameters(self, call[t])
  BY <1>1, CallParameters DEF IInv
<1>3. PICK S : r[t] \in Seq(S)
  BY DEF IInv
<1> QED  BY <1>2, <1>3, Asked DEF IInv, Asks, Wanted, Now, Operated

\* What a turn of the operator does is harmless.
LEMMA TurnHarmless ==
  ASSUME NEW rig \in Rigs, NEW turn \in Turns(rig)
  PROVE  turn.x.kind \in Kinds(rig) /\ Harmless(rig, turn.x)
<1>1. IF Icom(rig) THEN turn.x.kind = "ack" /\ turn.x.p # <<\h1C, 0>>
      ELSE turn.x.kind = "set" /\ turn.x.p # "TX"
  BY ParametersAssumption
<1> QED  BY <1>1 DEF Kinds, Harmless, CivHarmless, TextHarmless, LineKept

\* The invariant is about the rig, the transceiver, the calls and the answers.
LEMMA Keeps ==
  ASSUME IInv, self' = self, Shaped(self, radio'), NEW t \in Tasks,
         \/ UNCHANGED <<call, r>>
         \/ \E c : c \in Calls(t, self) /\ call' = [call EXCEPT ![t] = c] /\ r' = [r EXCEPT ![t] = <<>>]
         \/ call' = [call EXCEPT ![t] = Idle] /\ r' = [r EXCEPT ![t] = <<>>]
         \/ UNCHANGED call /\ \E a : r' = [r EXCEPT ![t] = Append(@, a)]
  PROVE  IInv'
<1>1. /\ call' = [u \in Tasks |-> call'[u]]
      /\ \A u \in Tasks : call'[u] # Idle => call'[u] \in Calls(u, self)
  BY DEF IInv
<1>2. r' = [u \in Tasks |-> r'[u]]
  BY DEF IInv
<1>3. ASSUME NEW u \in Tasks  PROVE \E S : r'[u] \in Seq(S)
  <2>1. PICK S : r[u] \in Seq(S)
    BY DEF IInv
  <2>2. CASE r'[u] = r[u]
    BY <2>1, <2>2
  <2>3. CASE r'[u] = <<>>
    BY <2>3
  <2>4. CASE \E a : r'[u] = Append(r[u], a)
    <3>1. PICK a : r'[u] = Append(r[u], a)
      BY <2>4
    <3>2. r[u] \in Seq(S \cup {a})
      BY <2>1
    <3> QED  BY <3>1, <3>2
  <2> QED  BY <2>2, <2>3, <2>4 DEF IInv
<1> QED  BY <1>1, <1>2, <1>3 DEF IInv

\* The invariant holds initially.
LEMMA Initially == Init => IInv
<1> SUFFICES ASSUME Init  PROVE IInv
  OBVIOUS
<1>1. Sound(self)
  BY BuiltSound DEF Init
<1>2. Shaped(self, radio)
  BY TextFresh, CivFresh DEF Init, Shaped, Fresh
<1>3. /\ call = [t \in Tasks |-> call[t]] /\ \A t \in Tasks : call[t] = Idle
      /\ r = [t \in Tasks |-> r[t]] /\ \A t \in Tasks : r[t] = <<>>
  BY DEF Init
<1>4. \A t \in Tasks : \E S : r[t] \in Seq(S)
  <2>1. \A S : <<>> \in Seq(S)
    OBVIOUS
  <2> QED  BY <1>3, <2>1
<1> QED  BY <1>1, <1>2, <1>3, <1>4 DEF Init, IInv

\* A step keeps the invariant, and keys the transmitter only for a set_ptt(true).
LEMMA Steps ==
  ASSUME Operated, IInv, [Next]_vars
  PROVE  /\ IInv'
         /\ ~Transmits(self, radio) /\ Transmits(self', radio') =>
              \E t \in Tasks : call[t] = <<"set_ptt", TRUE>>
<1> DEFINE Asked_ == \E t \in Tasks : call[t] = <<"set_ptt", TRUE>>
           Goes(b) == Shaped(self, b) /\ (~Transmits(self, radio) /\ Transmits(self, b) => Asked_)
<1>0. /\ self \in Rigs /\ Sound(self) /\ Shaped(self, radio)
  BY DEF IInv
<1>1. Goes(radio)
  BY <1>0
<1>2. ASSUME NEW t \in Tasks, Asks(t)  PROVE Goes(Exchange(self, radio, Wanted(t)).radio)
  BY <1>0, <1>2, WantedExchange, Exchanges
<1>3. ASSUME NEW turn \in Turns(self)  PROVE Goes(Exchange(self, radio, turn.x).radio)
  BY <1>0, TurnHarmless, Exchanges
<1>4. ASSUME NEW v, ~Icom(self)  PROVE Goes([radio EXCEPT !.keyer.room = v])
  <2>1. [radio EXCEPT !.keyer.room = v] =
          [rx |-> radio.rx, reg |-> radio.reg, keyer |-> [radio.keyer EXCEPT !.room = v],
           lines |-> radio.lines]
    <3>1. radio = [rx |-> radio.rx, reg |-> radio.reg, keyer |-> radio.keyer, lines |-> radio.lines]
      BY <1>0, <1>4 DEF Shaped, TextShape
    <3> QED  BY ONLY <3>1
  <2>2. \A keyer :
          Goes([rx |-> radio.rx, reg |-> radio.reg, keyer |-> keyer, lines |-> radio.lines])
    BY <1>0, <1>4 DEF Shaped, TextShape, Transmits, Serial!Transmits, Serial!PttLine
  <2> HIDE DEF Goes
  <2> QED  BY <2>1, <2>2
<1> HIDE DEF Goes
<1>5. ASSUME self' = self, Goes(radio'), IInv'
      PROVE  IInv' /\ (~Transmits(self, radio) /\ Transmits(self', radio') => Asked_)
  BY <1>5 DEF Goes
<1>6. \A b : Goes(b) => Shaped(self, b)
  BY DEF Goes
<1>7. ASSUME NEW t \in Tasks, Call(t)  PROVE self' = self /\ Goes(radio') /\ IInv'
  <2>1. self' = self /\ radio' = radio
    BY <1>7 DEF Call
  <2>2. \E c \in Calls(t, self) : call' = [call EXCEPT ![t] = c] /\ r' = [r EXCEPT ![t] = <<>>]
    BY <1>7 DEF Call
  <2> QED  BY <1>1, <1>6, <2>1, <2>2, Keeps
<1>8. ASSUME NEW t \in Tasks, Exchanged(t)  PROVE self' = self /\ Goes(radio') /\ IInv'
  <2>1. self' = self /\ radio' = Exchange(self, radio, Wanted(t)).radio /\ Asks(t)
    BY <1>8 DEF Exchanged, Becomes
  <2>2. \/ call' = [call EXCEPT ![t] = Idle] /\ r' = [r EXCEPT ![t] = <<>>]
        \/ UNCHANGED call /\ \E a : r' = [r EXCEPT ![t] = Append(@, a)]
    BY <1>8 DEF Exchanged, Ends
  <2> QED  BY <1>2, <1>6, <2>1, <2>2, Keeps
<1>9. ASSUME NEW t \in Tasks, Lost(t)  PROVE self' = self /\ Goes(radio') /\ IInv'
  <2>1. /\ self' = self /\ Asks(t)
        /\ radio' = radio \/ radio' = Exchange(self, radio, Wanted(t)).radio
    BY <1>9 DEF Lost, Becomes
  <2>2. \/ call' = [call EXCEPT ![t] = Idle] /\ r' = [r EXCEPT ![t] = <<>>]
        \/ UNCHANGED call /\ \E a : r' = [r EXCEPT ![t] = Append(@, a)]
    BY <1>9 DEF Lost, Ends
  <2>3. Goes(radio')
    BY <1>1, <1>2, <2>1
  <2> QED  BY <1>6, <2>1, <2>2, <2>3, Keeps
<1>10. ASSUME NEW t \in Tasks, Returns(t)  PROVE self' = self /\ Goes(radio') /\ IInv'
  <2>1. self' = self /\ radio' = radio
    BY <1>10 DEF Returns
  <2>2. call' = [call EXCEPT ![t] = Idle] /\ r' = [r EXCEPT ![t] = <<>>]
    BY <1>10 DEF Returns, Ends
  <2> QED  BY <1>1, <1>6, <2>1, <2>2, Keeps
<1>11. ASSUME self' = self, UNCHANGED <<call, r>>, Goes(radio')  PROVE IInv'
  BY <1>6, <1>11 DEF IInv
<1>12. ASSUME KeyerSends  PROVE self' = self /\ Goes(radio') /\ IInv'
  <2>1. self' = self /\ UNCHANGED <<call, r>> /\ Goes(radio')
    BY <1>4, <1>12 DEF KeyerSends
  <2> QED  BY <1>11, <2>1
<1>13. ASSUME Turn  PROVE self' = self /\ Goes(radio') /\ IInv'
  <2>1. self' = self /\ UNCHANGED <<call, r>>
    BY <1>13 DEF Turn
  <2>2. \E turn \in Turns(self) : radio' = Exchange(self, radio, turn.x).radio
    BY <1>13 DEF Turn, Becomes
  <2> QED  BY <1>3, <1>11, <2>1, <2>2
<1>14. ASSUME UNCHANGED vars  PROVE self' = self /\ Goes(radio') /\ IInv'
  BY <1>1, <1>11, <1>14 DEF vars
<1>15. self' = self /\ Goes(radio') /\ IInv'
  BY <1>7, <1>8, <1>9, <1>10, <1>12, <1>13, <1>14 DEF Next
<1> QED  BY <1>5, <1>15

\* Only a call of set_ptt(true) switches the transmitter on, whatever the makes,
\* the tasks and the calls they make at once.
THEOREM OnlyPttTransmitsHolds ==
  ASSUME Operated
  PROVE  Spec => OnlyPttTransmits
<1>1. IInv /\ [Next]_vars => IInv'
  BY Steps
<1>2. IInv /\ [Next]_vars =>
        [~Transmits(self, radio) /\ Transmits(self, radio)' =>
         \E t \in Tasks : call[t] = <<"set_ptt", TRUE>>]_vars
  BY Steps
<1> QED  BY <1>1, <1>2, Initially, PTL DEF Spec, OnlyPttTransmits
=============================================================================
