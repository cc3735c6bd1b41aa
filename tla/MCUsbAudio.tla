---------------------------- MODULE MCUsbAudio ----------------------------
(* An instance of UsbAudio for TLC.                                        *)
EXTENDS UsbAudio

Device(n, input, output, rate) ==
  [name |-> n, input |-> input, output |-> output, channels |-> 2, rate |-> rate]

\* The usual codec; one that takes f32, behind a device without input; a codec
\* with the same name as the one before it and in a format nobody converts.
MCHosts ==
  {<<Device("codec", "I16", "I16", 48000)>>,
   <<Device("speakers", "none", "F32", 44100), Device("codec", "F32", "F32", 44100)>>,
   <<Device("codec", "I16", "U8", 48000), Device("codec", "U8", "I16", 44100)>>}

MCHeard  == {<<I16_MIN, 0>>}
MCSpoken == {<<-4 * I16_MAX, 4 * I16_MAX>>}
=============================================================================
