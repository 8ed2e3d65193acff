---------------------------- MODULE DemuxSamples ----------------------------
(***************************************************************************)
(* The tables of the demux samples for SampleLife: the calls of main with  *)
(* the label each goes to when it fails, the ladder at the end of main,    *)
(* and the threads.  The labels are those of the source; a call that only  *)
(* reads or sets attributes is a Try.  Samples that keep arrays of         *)
(* channels are taken with two.                                            *)
(***************************************************************************)
EXTENDS SampleLife

Tx == One("tx")
Rx == One("rx")
RxOf(i) == <<"rx", i>>
IdxOf(i) == <<"idx", i>>
RecOf(i) == <<"rec_rx", i>>

(* The threads: g_ts_mutex is only taken by the sender, which finishes with *)
(* a reset of its buffer after the last unlock.                             *)
Sender(buffer) ==
  [uses |-> { buffer, One("in_file"), One("mutex") }, last |-> { buffer }, flag |-> "put",
   breaks |-> FALSE]
Receiver(channel, file) ==
  [uses |-> { channel, file }, last |-> {}, flag |-> "get", breaks |-> FALSE]
TwoThreads(buffer, channel) ==
  [ w \in { Tx, Rx } |-> IF w = Tx THEN Sender(One(buffer))
                                   ELSE Receiver(One(channel), One("out_file")) ]

StartTwo == << Get(One("mutex"), ""), Run(Tx), Run(Rx) >>
StopTwo == << Raise("put"), Raise("get"), Join(Tx), Join(Rx), Put(One("mutex")) >>

(***************************************************************************)
(* The samples on the MPI: RAM port, band, PID channel, play channel.      *)
(***************************************************************************)
MpiFiles ==
  << Get(One("in_file"), "out"), Get(One("out_file"), "DMX_CLOSE_IN_FILE"),
     Get(One("sys"), "DMX_CLOSE_OUT_FILE"), Get(One("dmx"), "DMX_SYS_DEINIT") >>
MpiBand ==
  << Try("DMX_DEINIT"), Get(One("ram"), "DMX_DEINIT"), Try("DMX_RAM_CLOSE"), Try("DMX_RAM_CLOSE"),
     Get(One("band"), "DMX_RAM_CLOSE"), Get(One("band_port"), "DMX_BAND_CLOSE"),
     Get(One("pid_ch"), "DMX_BAND_DETACH"), Try("DMX_PIDCH_DESTROY") >>
MpiPlay ==
  << Get(One("play"), "DMX_PIDCH_DESTROY"), Get(One("play_ch"), "DMX_PLY_DESTROY") >>

FilesDown ==
  Ladder(<< <<"DMX_CLOSE_IN_FILE", "in_file">>, <<"DMX_CLOSE_OUT_FILE", "out_file">> >>)
MpiBandDown ==
  Ladder(<< <<"DMX_PIDCH_DESTROY", "pid_ch">>, <<"DMX_BAND_DETACH", "band_port">>,
            <<"DMX_BAND_CLOSE", "band">>, <<"DMX_RAM_CLOSE", "ram">>,
            <<"DMX_DEINIT", "dmx">>, <<"DMX_SYS_DEINIT", "sys">> >>)
MpiPlayDown ==
  Ladder(<< <<"DMX_PLY_DETACH", "play_ch">>, <<"DMX_PLY_DESTROY", "play">> >>)
    \o MpiBandDown \o FilesDown

PesMpiUp ==
  MpiFiles \o MpiBand \o MpiPlay \o << Get(One("play_open"), "DMX_PLY_DETACH") >> \o StartTwo
PesMpiDown == StopTwo \o << Put(One("play_open")) >> \o MpiPlayDown
PesMpi == [up |-> PesMpiUp, down |-> PesMpiDown, threads |-> TwoThreads("ram", "play_open")]

(* The same calls and labels, for whole TS packets.                         *)
TsMpiUp ==
  MpiFiles \o MpiBand \o MpiPlay \o << Get(One("play_open"), "DMX_PLY_DETACH") >> \o StartTwo
TsMpiDown == StopTwo \o << Put(One("play_open")) >> \o MpiPlayDown
TsMpi == [up |-> TsMpiUp, down |-> TsMpiDown, threads |-> TwoThreads("ram", "play_open")]

(* With a section filter on the play channel.                               *)
SecMpiUp ==
  MpiFiles \o MpiBand \o MpiPlay
    \o << Get(One("filter"), "DMX_PLY_DETACH"), Get(One("filter_on"), "DMX_FLT_DESTROY"),
          Get(One("play_open"), "DMX_FLT_DEL") >> \o StartTwo
SecMpiDown ==
  StopTwo \o << Put(One("play_open")) >>
    \o Ladder(<< <<"DMX_FLT_DEL", "filter_on">>, <<"DMX_FLT_DESTROY", "filter">> >>) \o MpiPlayDown
SecMpi == [up |-> SecMpiUp, down |-> SecMpiDown, threads |-> TwoThreads("ram", "play_open")]

(* With a secure memory session: both buffers are attached to it.           *)
SecureRamUp ==
  << Get(One("in_file"), "out"), Get(One("out_file"), "dmx_close_in_file"),
     Get(One("sys"), "dmx_close_out_file"), Get(One("dmx"), "dmx_sys_deinit"),
     Get(One("ssm_lib"), "dmx_deinit"), Get(One("ssm"), "ssm_deinit"),
     Try("ssm_destroy"), Get(One("ram"), "ssm_destroy"), Try("dmx_ram_close"), Try("dmx_ram_close"),
     Get(One("band"), "dmx_ram_close"), Get(One("band_port"), "dmx_band_close"),
     Get(One("pid_ch"), "dmx_band_detach"), Try("dmx_pidch_destroy"),
     Get(One("play"), "dmx_pidch_destroy"), Get(One("play_ch"), "dmx_ply_destroy"),
     Try("dmx_ply_detach"), Try("dmx_ply_detach"), Try("dmx_ply_detach"), Try("dmx_ply_detach"),
     Get(One("play_open"), "dmx_ply_detach") >> \o StartTwo
SecureRamDown ==
  StopTwo \o << Put(One("play_open")) >>
    \o Ladder(<< <<"dmx_ply_detach", "play_ch">>, <<"dmx_ply_destroy", "play">>,
                 <<"dmx_pidch_destroy", "pid_ch">>, <<"dmx_band_detach", "band_port">>,
                 <<"dmx_band_close", "band">>, <<"dmx_ram_close", "ram">>,
                 <<"ssm_destroy", "ssm">>, <<"ssm_deinit", "ssm_lib">>,
                 <<"dmx_deinit", "dmx">>, <<"dmx_sys_deinit", "sys">>,
                 <<"dmx_close_in_file", "in_file">>, <<"dmx_close_out_file", "out_file">> >>)
SecureRam == [up |-> SecureRamUp, down |-> SecureRamDown, threads |-> TwoThreads("ram", "play_open")]

(***************************************************************************)
(* The samples on the UNF: TS buffer, port of the demux, play channel.     *)
(***************************************************************************)
UnfPort ==
  << Try("DMX_DEINIT"), Get(One("ts_buf"), "DMX_DEINIT"), Get(One("ts_port"), "DMX_DESTROY_TSBUF"),
     Try("DMX_RAMPORT_DETACH"), Get(One("play"), "DMX_RAMPORT_DETACH"), Try("DMX_PLY_DESTROY") >>
UnfPortDown ==
  Ladder(<< <<"DMX_PLY_DESTROY", "play">>, <<"DMX_RAMPORT_DETACH", "ts_port">>,
            <<"DMX_DESTROY_TSBUF", "ts_buf">>, <<"DMX_DEINIT", "dmx">>,
            <<"DMX_SYS_DEINIT", "sys">> >>) \o FilesDown

PesUnfUp == MpiFiles \o UnfPort \o << Get(One("play_open"), "DMX_PLY_DESTROY") >> \o StartTwo
PesUnfDown == StopTwo \o << Put(One("play_open")) >> \o UnfPortDown
PesUnf == [up |-> PesUnfUp, down |-> PesUnfDown, threads |-> TwoThreads("ts_buf", "play_open")]

TsUnfUp == MpiFiles \o UnfPort \o << Get(One("play_open"), "DMX_PLY_DESTROY") >> \o StartTwo
TsUnfDown == StopTwo \o << Put(One("play_open")) >> \o UnfPortDown
TsUnf == [up |-> TsUnfUp, down |-> TsUnfDown, threads |-> TwoThreads("ts_buf", "play_open")]

SecUnfUp ==
  MpiFiles \o UnfPort
    \o << Get(One("filter"), "DMX_PLY_DESTROY"), Get(One("filter_on"), "DMX_FLT_DESTROY"),
          Get(One("play_open"), "DMX_FLT_DETACH") >> \o StartTwo
SecUnfDown ==
  StopTwo \o << Put(One("play_open")) >>
    \o Ladder(<< <<"DMX_FLT_DETACH", "filter_on">>, <<"DMX_FLT_DESTROY", "filter">> >>) \o UnfPortDown
SecUnf == [up |-> SecUnfUp, down |-> SecUnfDown, threads |-> TwoThreads("ts_buf", "play_open")]

(* Descrambling with a clear key.  EXTERNAL_KEYSLOT is defined: the key slot *)
(* is made on its own, then attached to the descrambler and to the key       *)
(* ladder.  The port is attached before its buffer is made.  The receiver    *)
(* leaves its loop when it cannot acquire for another reason than no data.   *)
DscUnfUp ==
  << Get(One("in_file"), "out"), Get(One("out_file"), "dmx_close_in_file"), Get(One("mutex"), ""),
     Get(One("sys"), "dmx_close_out_file"), Get(One("dmx"), "sys_deinit"),
     Get(One("ks_lib"), "dmx_deinit"), Get(One("klad_lib"), "ks_deinit"),
     Get(One("ks"), "klad_deinit"), Get(One("klad"), "ks_destroy"), Try("klad_destroy"),
     Get(One("ts_port"), "klad_destroy"), Try("detach_ts_port"),
     Get(One("ts_buf"), "detach_ts_port"), Try("desrtoy_ts_buffer"),
     Get(One("play"), "desrtoy_ts_buffer"), Try("play_destroy"), Try("play_destroy"),
     Get(One("dsc"), "play_destroy"), Get(One("dsc_pid"), "dsc_destroy"),
     Get(One("dsc_ks"), "dsc_detach"), Get(One("klad_slot"), "dsc_detach_keyslot"),
     Try("klad_detach"), Try("klad_detach"), Get(One("play_open"), "klad_detach"),
     Run(Rx), Run(Tx) >>
DscUnfDown ==
  StopTwo \o << Put(One("play_open")) >>
    \o Ladder(<< <<"klad_detach", "klad_slot">>, <<"dsc_detach_keyslot", "dsc_ks">>,
                 <<"dsc_detach", "dsc_pid">>, <<"dsc_destroy", "dsc">>,
                 <<"play_destroy", "play">>, <<"desrtoy_ts_buffer", "ts_buf">>,
                 <<"detach_ts_port", "ts_port">>, <<"klad_destroy", "klad">>,
                 <<"ks_destroy", "ks">>, <<"klad_deinit", "klad_lib">>, <<"ks_deinit", "ks_lib">>,
                 <<"dmx_deinit", "dmx">>, <<"sys_deinit", "sys">>,
                 <<"dmx_close_in_file", "in_file">>, <<"dmx_close_out_file", "out_file">> >>)
DscUnfThreads == [TwoThreads("ts_buf", "play_open") EXCEPT ![Rx].breaks = TRUE]
DscUnf == [up |-> DscUnfUp, down |-> DscUnfDown, threads |-> DscUnfThreads]

(***************************************************************************)
(* The samples with arrays of channels.  A call that fails for one channel *)
(* releases what that channel has, then the channels before it, then jumps *)
(* past the part of the ladder that releases all of them.                  *)
(***************************************************************************)
Each(steps(_)) == steps(1) \o steps(2)
Before(i, undo(_)) == IF i = 1 THEN <<>> ELSE undo(1)
PutAll(things) == [k \in DOMAIN things |-> Put(things[k])]
AtLabel(l, steps) == [steps EXCEPT ![1].label = l]

(* Through the TS I/O block: one buffer, every channel on the same PID.     *)
TsioFilesUp(i) == << GetElse(<<"out_file", i>>, Before(i, LAMBDA j : << <<"out_file", j>> >>), "DMX_CLOSE_IN_FILE") >>
TsioChan(i) == << <<"play_open", i>>, <<"play", i>> >>
TsioChanUp(i) ==
  << GetElse(<<"play", i>>, Before(i, TsioChan), "DMX_DETACH"),
     GetElse(Nothing, << <<"play", i>> >> \o Before(i, TsioChan), "DMX_DETACH"),
     GetElse(<<"play_open", i>>, << <<"play", i>> >> \o Before(i, TsioChan), "DMX_DETACH") >>
TsioUp ==
  << Get(One("in_file"), "out") >> \o Each(TsioFilesUp)
    \o << Get(One("sys"), "DMX_CLOSE_OUT_FILE"), Get(One("dmx"), "DMX_SYS_DEINIT"),
          Get(One("tsio_lib"), "DMX_DEINIT"), Get(One("tsio_buf"), "TSIO_DEINIT"),
          Get(One("tsio"), "TSIO_DESTROY_BUFFER"), Get(One("tsio_in"), "TSIO_DESTROY"),
          Get(One("tsio_pid"), "TSIO_DETACH"), Get(One("tsio_on"), "TSIO_DELPID"),
          Get(One("ts_port"), "TSIO_STOP"), Try("DMX_DETACH") >>
    \o Each(TsioChanUp) \o << Run(Tx), Run(RxOf(1)), Run(RxOf(2)) >>
TsioDown ==
  << Raise("get"), Join(RxOf(1)), Join(RxOf(2)), Raise("put"), Join(Tx) >>
    \o PutAll(Each(TsioChan))
    \o Ladder(<< <<"DMX_DETACH", "ts_port">>, <<"TSIO_STOP", "tsio_on">>, <<"TSIO_DELPID", "tsio_pid">>,
                 <<"TSIO_DETACH", "tsio_in">>, <<"TSIO_DESTROY", "tsio">>,
                 <<"TSIO_DESTROY_BUFFER", "tsio_buf">>, <<"TSIO_DEINIT", "tsio_lib">>,
                 <<"DMX_DEINIT", "dmx">>, <<"DMX_SYS_DEINIT", "sys">> >>)
    \o AtLabel("DMX_CLOSE_OUT_FILE", PutAll(<< <<"out_file", 1>>, <<"out_file", 2>> >>))
    \o Ladder(<< <<"DMX_CLOSE_IN_FILE", "in_file">> >>)
TsioThreads ==
  [ w \in { Tx, RxOf(1), RxOf(2) } |->
      IF w = Tx THEN [Sender(One("tsio_buf")) EXCEPT !.uses = @ \ { One("mutex") }]
                ELSE Receiver(<<"play_open", w[2]>>, <<"out_file", w[2]>>) ]
Tsio == [up |-> TsioUp, down |-> TsioDown, threads |-> TsioThreads]

(* One demux per channel, to measure how fast it is; the file is read first. *)
PerfBuffer(i) == << <<"ts_port", i>>, <<"ts_buf", i>> >>
PerfBufferUp(i) ==
  << GetElse(<<"ts_buf", i>>, Before(i, PerfBuffer), "DMX_DEINIT"),
     GetElse(<<"ts_port", i>>, << <<"ts_buf", i>> >> \o Before(i, PerfBuffer), "DMX_DEINIT") >>
PerfChan(i) == << <<"play_open", i>>, <<"play", i>> >>
PerfChanUp(i) ==
  << GetElse(<<"play", i>>, Before(i, PerfChan), "DMX_RAMPORT_DETACH_DESTROY"),
     GetElse(Nothing, << <<"play", i>> >> \o Before(i, PerfChan), "DMX_RAMPORT_DETACH_DESTROY"),
     GetElse(<<"play_open", i>>, << <<"play", i>> >> \o Before(i, PerfChan), "DMX_RAMPORT_DETACH_DESTROY") >>
PerfUp ==
  << Get(One("in_file"), "out"), Try("out"), Get(One("sys"), "DMX_CLOSE_IN_FILE"),
     Get(One("dmx"), "DMX_SYS_DEINIT"), Try("DMX_DEINIT") >>
    \o Each(PerfBufferUp) \o << Try("DMX_RAMPORT_DETACH_DESTROY") >> \o Each(PerfChanUp)
    \o << Run(<<"tx", 1>>), Run(RxOf(1)), Run(<<"tx", 2>>), Run(RxOf(2)) >>
PerfDown ==
  << Raise("put"), Raise("get"), Join(<<"tx", 1>>), Join(RxOf(1)), Join(<<"tx", 2>>), Join(RxOf(2)) >>
    \o PutAll(Each(PerfChan)) \o AtLabel("DMX_RAMPORT_DETACH_DESTROY", PutAll(Each(PerfBuffer)))
    \o Ladder(<< <<"DMX_DEINIT", "dmx">>, <<"DMX_SYS_DEINIT", "sys">>, <<"DMX_CLOSE_IN_FILE", "in_file">> >>)
PerfThreads ==
  [ w \in { <<"tx", 1>>, <<"tx", 2>>, RxOf(1), RxOf(2) } |->
      IF w[1] = "tx"
      THEN [uses |-> { <<"ts_buf", w[2]>> }, last |-> { <<"ts_buf", w[2]>> }, flag |-> "put",
            breaks |-> FALSE]
      ELSE [uses |-> { <<"play_open", w[2]>> }, last |-> {}, flag |-> "get", breaks |-> FALSE] ]
Perf == [up |-> PerfUp, down |-> PerfDown, threads |-> PerfThreads]

(* Recording with an index: two threads for every recording channel.        *)
RecIndexFiles(i) == << <<"out_file", i>>, <<"index_file", i>> >>
RecIndexFilesUp(i) ==
  << GetElse(<<"out_file", i>>, Before(i, RecIndexFiles), "DMX_CLOSE_IN_FILE"),
     GetElse(<<"index_file", i>>, << <<"out_file", i>> >> \o Before(i, RecIndexFiles), "DMX_CLOSE_IN_FILE") >>
RecIndexChan(i) == << <<"rec_on", i>>, <<"rec_pid", i>>, <<"rec", i>> >>
RecIndexChanUp(i) ==
  << GetElse(<<"rec", i>>, Before(i, RecIndexChan), "DMX_RAMPORT_DETACH"),
     GetElse(<<"rec_pid", i>>, << <<"rec", i>> >> \o Before(i, RecIndexChan), "DMX_RAMPORT_DETACH"),
     GetElse(<<"rec_on", i>>, << <<"rec_pid", i>>, <<"rec", i>> >> \o Before(i, RecIndexChan),
             "DMX_RAMPORT_DETACH") >>
RecIndexUp ==
  << Get(One("in_file"), "out") >> \o Each(RecIndexFilesUp)
    \o << Get(One("sys"), "DMX_CLOSE_REC_FILE"), Get(One("dmx"), "DMX_SYS_DEINIT"), Try("DMX_DEINIT"),
          Get(One("ts_buf"), "DMX_DEINIT"), Get(One("ts_port"), "DMX_DESTROY_TSBUFFER") >>
    \o Each(RecIndexChanUp)
    \o << Get(One("mutex"), ""), Run(RxOf(1)), Run(IdxOf(1)), Run(RxOf(2)), Run(IdxOf(2)), Run(Tx) >>
RecIndexDown ==
  << Raise("put"), Join(Tx), Raise("get"), Join(RxOf(1)), Join(IdxOf(1)), Join(RxOf(2)), Join(IdxOf(2)),
     Put(One("mutex")) >> \o PutAll(Each(RecIndexChan))
    \o Ladder(<< <<"DMX_RAMPORT_DETACH", "ts_port">>, <<"DMX_DESTROY_TSBUFFER", "ts_buf">>,
                 <<"DMX_DEINIT", "dmx">>, <<"DMX_SYS_DEINIT", "sys">> >>)
    \o AtLabel("DMX_CLOSE_REC_FILE", PutAll(Each(RecIndexFiles)))
    \o Ladder(<< <<"DMX_CLOSE_IN_FILE", "in_file">> >>)
RecIndexThreads ==
  [ w \in { Tx, RxOf(1), IdxOf(1), RxOf(2), IdxOf(2) } |->
      CASE w = Tx -> Sender(One("ts_buf"))
        [] w[1] = "rx" -> Receiver(<<"rec_on", w[2]>>, <<"out_file", w[2]>>)
        [] w[1] = "idx" -> Receiver(<<"rec_on", w[2]>>, <<"index_file", w[2]>>) ]
RecIndex == [up |-> RecIndexUp, down |-> RecIndexDown, threads |-> RecIndexThreads]

(***************************************************************************)
(* Playing and recording one PID at once on the MPI; with filters for      *)
(* sections and PES.  What creating and adding a filter returns is not     *)
(* looked at: both are taken to succeed.                                   *)
(***************************************************************************)
Filters(filtered, i) == IF filtered THEN << <<"filter_on", i>>, <<"filter", i>> >> ELSE <<>>
RecPlayChan(filtered, i) ==
  << <<"play_open", i>> >> \o Filters(filtered, i) \o << <<"play_ch", i>>, <<"play", i>> >>
(* After a failed open the channels before are detached ahead of their filters. *)
RecPlayChanOpen(filtered, i) ==
  << <<"play_open", i>>, <<"play_ch", i>> >> \o Filters(filtered, i) \o << <<"play", i>> >>
RecPlayChanUp(filtered, i) ==
  LET before == Before(i, LAMBDA j : RecPlayChan(filtered, j))
      opened == Before(i, LAMBDA j : RecPlayChanOpen(filtered, j))
  IN << GetElse(<<"play", i>>, before, "DMX_PIDCH_DESTROY"),
        GetElse(<<"play_ch", i>>, << <<"play", i>> >> \o before, "DMX_PIDCH_DESTROY") >>
     \o (IF filtered THEN << Get(<<"filter", i>>, ""), Get(<<"filter_on", i>>, "") >> ELSE <<>>)
     \o << GetElse(<<"play_open", i>>,
                   << <<"play_ch", i>> >> \o Filters(filtered, i) \o << <<"play", i>> >> \o opened,
                   "DMX_PIDCH_DESTROY") >>
RecPlayRec(i) == << <<"rec_on", i>>, <<"rec_ch", i>>, <<"rec", i>> >>
RecPlayRecUp(i) ==
  << GetElse(<<"rec", i>>, Before(i, RecPlayRec), "DMX_PLY_EXIT"),
     GetElse(<<"rec_ch", i>>, << <<"rec", i>> >> \o Before(i, RecPlayRec), "DMX_PLY_EXIT"),
     GetElse(<<"rec_on", i>>, << <<"rec_ch", i>>, <<"rec", i>> >> \o Before(i, RecPlayRec), "DMX_PLY_EXIT") >>
RecPlayFilesUp ==
  << Get(One("in_file"), "out") >> \o Each(TsioFilesUp)
    \o Each(LAMBDA i : << GetElse(<<"rec_file", i>>, Before(i, LAMBDA j : << <<"rec_file", j>> >>),
                                  "DMX_CLOSE_PLAY_FILE") >>)
    \o << Get(One("sys"), "DMX_CLOSE_REC_FILE"), Get(One("dmx"), "DMX_SYS_DEINIT") >>
RecPlayUp(filtered) ==
  RecPlayFilesUp \o MpiBand \o Each(LAMBDA i : RecPlayChanUp(filtered, i))
    \o << Try("DMX_PLY_EXIT") >> \o Each(RecPlayRecUp)
    \o << Get(One("mutex"), ""), Run(Tx), Run(RxOf(1)), Run(RecOf(1)), Run(RxOf(2)), Run(RecOf(2)) >>
RecPlayDown(filtered) ==
  << Raise("put"), Raise("get"), Join(Tx), Join(RxOf(1)), Join(RecOf(1)), Join(RxOf(2)), Join(RecOf(2)),
     Put(One("mutex")) >> \o PutAll(Each(RecPlayRec))
    \o AtLabel("DMX_PLY_EXIT", PutAll(Each(LAMBDA i : RecPlayChan(filtered, i)))) \o MpiBandDown
    \o AtLabel("DMX_CLOSE_REC_FILE", PutAll(<< <<"rec_file", 1>>, <<"rec_file", 2>> >>))
    \o AtLabel("DMX_CLOSE_PLAY_FILE", PutAll(<< <<"out_file", 1>>, <<"out_file", 2>> >>))
    \o Ladder(<< <<"DMX_CLOSE_IN_FILE", "in_file">> >>)
RecPlayThreads ==
  [ w \in { Tx, RxOf(1), RecOf(1), RxOf(2), RecOf(2) } |->
      CASE w = Tx -> Sender(One("ram"))
        [] w[1] = "rx" -> Receiver(<<"play_open", w[2]>>, <<"out_file", w[2]>>)
        [] w[1] = "rec_rx" -> Receiver(<<"rec_on", w[2]>>, <<"rec_file", w[2]>>) ]
RecPlay(filtered) ==
  [up |-> RecPlayUp(filtered), down |-> RecPlayDown(filtered), threads |-> RecPlayThreads]

-----------------------------------------------------------------------------
DemuxProgram ==
  { PesMpi, TsMpi, SecMpi, SecureRam, PesUnf, TsUnf, SecUnf, DscUnf, Tsio, Perf, RecIndex,
    RecPlay(FALSE), RecPlay(TRUE) }
=============================================================================
