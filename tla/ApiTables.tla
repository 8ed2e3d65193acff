----------------------------- MODULE ApiTables ------------------------------
(***************************************************************************)
(* The functions of inv478x.c for ApiCalls, in the order of the file.  A    *)
(* row is named after its functions without inv478x_, one that has a _set   *)
(* and a _get without these endings.  The kinds are those of the push and   *)
(* pop functions.                                                           *)
(***************************************************************************)
EXTENDS ApiCalls

(* The chip: identity, firmware, heart beat.                                 *)
VersionCalls ==
  [ chip_id_query |-> Query(<< >>, << Long >>), chip_revision_query |-> Query(<< >>, << Long >>),
    firmware_version_query |-> Query(<< >>, << String >>),
    heart_beat |-> SetGet(<< >>, << Bool >>) ]

(* The mask of the event flags, freeze.                                      *)
FlagCalls ==
  [ event_flags_mask |-> SetGet(<< >>, << Long >>), freeze |-> SetGet(<< >>, << Bool >>) ]

(* The event flags themselves.                                               *)
FlagStatCalls ==
  [ event_flags_stat_query |-> Query(<< >>, << Long >>),
    event_flag_stat_clear |-> Order(<< >>, << Long >>) ]

(* License and power.  The certificate has the longer time-out.              *)
LicenseCalls ==
  [ dl_swap |-> SetGet(<< >>, << Bool >>), chip_serial_query |-> Query(<< >>, << Long >>),
    license_cert_set |-> [Order(<< >>, << Array(64) >>) EXCEPT !.slow = TRUE],
    license_id_query |-> Query(<< >>, << Long >>), pwr_down_req |-> Order(<< >>, << >>) ]

(* Modes of the dual link.                                                   *)
LinkModeCalls ==
  [ dl_mode |-> SetGet(<< >>, << Byte >>), dl_split_overlap |-> SetGet(<< >>, << Byte >>),
    hdcp_ksv_big_endian |-> SetGet(<< >>, << Bool >>) ]

(* The user tag of the firmware.                                             *)
UserTagCalls ==
  [ firmware_user_tag_query |-> Query(<< >>, << String >>) ]

(* Formats of the audio ports.                                               *)
AudioPortCalls ==
  [ ap_rx_fmt |-> SetGet(<< "port" >>, << Byte >>),
    ap_rx_info |-> SetGet(<< "port" >>, << Array(9), Array(10) >>),
    ap_tx_fmt_query |-> Query(<< "port" >>, << Byte >>),
    ap_tx_info_query |-> Query(<< "port" >>, << Array(9), Array(10) >>),
    ap_tx_mute |-> SetGet(<< "port" >>, << Bool >>) ]

(* The audio test pattern.                                                   *)
PatternCalls ==
  [ atpg_fmt |-> SetGet(<< >>, << Byte >>), atpg_ampl |-> SetGet(<< >>, << Word >>),
    atpg_freq |-> SetGet(<< >>, << Word >>), atpg_ptrn |-> SetGet(<< >>, << Byte >>) ]

(* The sizes of the picture, its blanking and its sync pulses.               *)
EightWords == << Word, Word, Word, Word, Word, Word, Word, Word >>

(* Input port and its EDID, video timing.                                    *)
RxSelectCalls ==
  [ rx_port_select |-> SetGet(<< >>, << Byte >>), rx_fast_switch |-> SetGet(<< >>, << Bool >>),
    rx_edid |-> SetAsk(<< "port", "block", "offset", "len_in_block" >>, << List(1) >>,
                          << "port", "offset", "block", "len_in_block" >>),
    rx_video_tim_query |-> Query(<< "port" >>,
                             EightWords \o << Long, Bool, Bool, Bool >>) ]

(* State of the input, ARC.                                                  *)
RxLinkCalls ==
  [ rx_av_link_query |-> Query(<< "port" >>, << Byte >>),
    rx_hpd_enable |-> SetGet(<< "port" >>, << Bool >>),
    rx_deep_clr_query |-> Query(<< "port" >>, << Byte >>),
    rx_pixel_fmt_query |-> Query(<< "port" >>, << Byte, Byte, Bool, Byte >>),
    arc_support_mode |-> SetGet(<< >>, << Byte >>) ]

(* Hot plug of the input; the first two are the requests of                  *)
(* inv478x_ext_aud_info_get.                                                 *)
RxPlugCalls ==
  [ channel_status |-> Query(<< >>, << Array(7) >>), aif |-> Query(<< >>, << Array(4) >>),
    rx_hpd_phy_query |-> Query(<< "port" >>, << Bool >>),
    rx_hpd_low_time |-> SetGet(<< "port" >>, << Word >>),
    rx_rsen_enable |-> SetGet(<< "port" >>, << Bool >>),
    rx_edid_enable |-> SetGet(<< "port" >>, << Bool >>) ]

(* HDCP of the input.                                                        *)
RxHdcpCalls ==
  [ rx_plus5v_query |-> Query(<< "port" >>, << Bool >>),
    rx_avmute_query |-> Query(<< "port" >>, << Bool >>),
    rx_hdcp_bksv_query |-> Query(<< "port" >>, << Array(5) >>),
    rx_hdcp_rxid_query |-> Query(<< "port" >>, << Array(5) >>),
    rx_hdcp_aksv_query |-> Query(<< "port" >>, << Array(5) >>),
    rx_hdcp_stat_query |-> Query(<< "port" >>, << Byte >>),
    rx_hdcp_ext_enable_set |-> Order(<< "port" >>, << Bool >>),
    rx_hdcp_ext_topology_set |->
       Order(<< "port" >>, << Bool, Bool, Bool, Bool, Byte, Byte, Long >>) ]

(* Formats of the input.                                                     *)
RxFormatCalls ==
  [ rx_hdcp_ext_ksvlist_set |-> Order(<< "port", "len" >>, << List(5) >>),
    rx_hdcp_encryption_status_get |-> Query(<< "port" >>, << Byte >>),
    rx_video_fmt_query |-> Query(<< "port" >>, << Word >>),
    rx_audio_fmt_query |-> Query(<< "port" >>, << Byte >>),
    rx_audio_info_query |-> Query(<< "port" >>, << Array(9), Array(10) >>),
    rx_audio_ctsn_query |-> Query(<< "port" >>, << Long, Long >>),
    dl_split_auto |-> SetGet(<< >>, << Word >>) ]

(* Registers and packets of the input.                                       *)
RxPacketCalls ==
  [ rx_scdc_register_query |-> Query(<< "port", "offset" >>, << Byte >>),
    rx_packet_query |-> Query(<< "port", "type", "len" >>, << List(1) >>),
    rx_hdcp_mode |-> SetGet(<< "port" >>, << Byte >>),
    rx_hdcp_trash_req |-> Order(<< "port" >>, << >>),
    rx_hdcp_type_query |-> Query(<< "port" >>, << Byte >>),
    rx_packet_act_stat_query |-> Query(<< "port" >>, << Long >>),
    rx_packet_evt_stat_query |-> Query(<< "port" >>, << Long >>) ]

(* Masks and enables of the input.                                           *)
RxMaskCalls ==
  [ rx_packet_evt_mask |-> SetGet(<< "port" >>, << Long >>),
    rx_hdcp_csm_query |-> Query(<< "port" >>, << Long, Word >>),
    rx_rsen_value |-> SetGet(<< "port" >>, << Byte >>),
    rx_edid_auto_adb |-> SetGet(<< "port" >>, << Bool >>) ]

(* HDCP topology of the input.                                               *)
RxTopologyCalls ==
  [ rx_packet_vs_user_ieee |-> SetGet(<< "port" >>, << Long >>),
    rx_hdcp_cap |-> SetGet(<< "port" >>, << Byte >>),
    rx_hdcp_topology_query |-> Query(<< "port" >>, << Bool, Bool, Bool, Bool, Byte, Byte, Long >>),
    rx_hdcp_ksvlist_query |-> Query(<< "port", "len" >>, << List(5) >>) ]

(* eARC: sources and formats.                                                *)
EarcCalls ==
  [ earc_aud_mute |-> SetGet(<< >>, << Bool >>), earc_tx_src |-> SetGet(<< >>, << Byte >>),
    earc_mode |-> SetGet(<< >>, << Byte >>), earc_fmt_query |-> Query(<< >>, << Byte >>),
    earc_info_query |-> Query(<< >>, << Array(9), Array(10) >>) ]

(* eARC: latency and capabilities.                                           *)
EarcCapCalls ==
  [ earc_link_query |-> Query(<< >>, << Bool >>), earc_erx_latency |-> SetGet(<< >>, << Byte >>),
    earc_erx_latency_query |-> Query(<< >>, << Byte >>),
    earc_rxcap_struct |-> SetGet(<< "offset", "len" >>, << List(1) >>),
    earc_rxcap_struct_query |-> Query(<< "offset", "len" >>, << List(1) >>) ]

(* eARC: packets.                                                            *)
EarcPacketCalls ==
  [ earc_packet |-> SetGet(<< "type", "len" >>, << List(1) >>),
    earc_packet_query |-> Query(<< "type", "len" >>, << List(1) >>),
    earc_cfg |-> SetGet(<< >>, << Byte >>) ]

(* Sources and clocks of the audio ports.                                    *)
ApCalls ==
  [ ap_tx_src |-> SetGet(<< "port" >>, << Byte >>), ap_mode |-> SetGet(<< "port" >>, << Byte >>),
    ap_mclk |-> SetGet(<< "port" >>, << Byte >>), atpg_fs |-> SetGet(<< >>, << Byte >>),
    ap_cfg |-> SetGet(<< "port" >>, << Byte >>) ]

(* The video test pattern.                                                   *)
VtpgCalls ==
  [ vtpg_enable |-> SetGet(<< >>, << Bool >>), vtpg_ptrn |-> SetGet(<< >>, << Byte >>),
    vtpg_video_fmt |-> SetGet(<< >>, << Word >>) ]

(* Replication.  The set of rx_edid_replicate pushes its enumeration as a    *)
(* bool, which keeps the byte.                                               *)
ReplicateCalls ==
  [ tx_audio_info_query |-> Query(<< "port" >>, << Array(9), Array(10) >>),
    rx_hpd_replicate |-> SetGet(<< "port" >>, << Byte >>),
    rx_edid_replicate |-> SetGet(<< "port" >>, << Byte >>),
    rx_av_link |-> SetGet(<< "port" >>, << Byte >>) ]

(* State of the outputs.                                                     *)
TxLinkCalls ==
  [ tx_rsen_query |-> Query(<< "port" >>, << Bool >>),
    tx_edid_stat_query |-> Query(<< "port" >>, << Byte >>),
    tx_audio_fmt_query |-> Query(<< "port" >>, << Byte >>),
    tx_av_link |-> SetGet(<< "port" >>, << Byte >>),
    tx_ddc_enable |-> SetGet(<< "port" >>, << Bool >>) ]

(* Sources of the outputs.                                                   *)
TxSourceCalls ==
  [ tx_deep_clr_max |-> SetGet(<< "port" >>, << Byte >>),
    tx_hpd_query |-> Query(<< "port" >>, << Bool >>),
    tx_edid_query |-> Query(<< "port", "block", "offset", "len_past_offset" >>, << List(1) >>),
    tx_video_src |-> SetGet(<< "port" >>, << Byte >>),
    tx_tmds2_1over4_query |-> Query(<< "port" >>, << Bool >>) ]

(* HDCP of the outputs.  Two of them push what the caller's variable         *)
(* happens to hold.                                                          *)
TxHdcpCalls ==
  [ tx_tmds2_scramble340 |-> SetGet(<< "port" >>, << Bool >>),
    tx_hdcp_mode |-> SetAsk(<< "port" >>, << Byte >>, << "port", "p_val" >>),
    tx_hdcp_start |-> Order(<< "port" >>, << Bool >>),
    tx_hdcp_stat_query |-> Query(<< "port" >>, << Byte >>),
    tx_hdcp_type_query |-> Query(<< "port", "p_val" >>, << Byte >>) ]

(* CEC, mute and hot plug of the outputs.                                    *)
TxMuteCalls ==
  [ cec_arc_init |-> Order(<< >>, << >>), cec_arc_term |-> Order(<< >>, << >>),
    tx_avmute |-> SetGet(<< "port" >>, << Bool >>),
    tx_avmute_query |-> Query(<< "port" >>, << Bool >>),
    tx_gated_by_hpd |-> SetGet(<< "port" >>, << Bool >>),
    tx_edid_read_on_hpd |-> SetGet(<< "port" >>, << Bool >>) ]

(* HDCP topology of the outputs.  A list of 52 keys or more takes several    *)
(* such requests.                                                            *)
TxListCalls ==
  [ tx_hdcp_topology_query |-> Query(<< "port" >>, << Bool, Bool, Bool, Bool, Byte, Byte, Long >>),
    tx_hdcp_ksvlist_query |-> Query(<< "port", "len" >>, << List(5) >>),
    tx_hdcp_csm |-> SetGet(<< "port" >>, << Long, Word >>),
    tx_hdcp_aksv_query |-> Query(<< "port" >>, << Array(5) >>),
    tx_hdcp_failure_query |-> Query(<< "port" >>, << Byte >>) ]

(* Audio of the outputs.                                                     *)
TxAudioCalls ==
  [ tx_audio_ctsn_query |-> Query(<< "port" >>, << Long, Long >>),
    tx_audio_mute |-> SetGet(<< "port" >>, << Bool >>),
    tx_hdcp_encrypt |-> SetGet(<< "port" >>, << Bool >>),
    tx_hdcp_approve |-> Order(<< "port" >>, << >>),
    tx_csc_enable |-> SetGet(<< "port" >>, << Bool >>) ]

(* Colour space of the outputs.                                              *)
TxCscCalls ==
  [ tx_csc_failure_query |-> Query(<< "port" >>, << Bool >>),
    tx_csc_pixel_fmt |-> SetGet(<< "port" >>, << Byte, Byte, Bool, Byte >>),
    tx_hdcp_reauth_req |-> Order(<< "port" >>, << >>),
    tx_hdcp_ds_cap_query |-> Query(<< "port" >>, << Byte >>),
    tx_hdcp_auto_approve |-> SetGet(<< "port" >>, << Bool >>) ]

(* Sources and pins of the outputs.  The set of tx_avmute_auto_clear         *)
(* pushes its bool as a byte.                                                *)
TxPolarityCalls ==
  [ tx_deep_clr_query |-> Query(<< "port" >>, << Byte >>),
    tx_audio_src |-> SetGet(<< "port" >>, << Byte >>),
    tx_avmute_auto_clear |-> SetGet(<< "port" >>, << Bool >>),
    tx_pin_swap |-> SetGet(<< "port" >>, << Byte >>) ]

(* Enables and blanking of the outputs.                                      *)
TxEnableCalls ==
  [ tx_hvsync_pol |-> SetGet(<< "port" >>, << Byte >>),
    tx_auto_enable |-> SetGet(<< "port" >>, << Bool >>),
    tx_reenable |-> Order(<< "port" >>, << >>),
    tx_blank_color |-> SetGet(<< "port" >>, << Byte, Byte, Byte >>) ]

(* SCDC and DDC: writes go to the sink.                                      *)
TxScdcCalls ==
  [ tx_scdc_rr_enable |-> SetGet(<< "port" >>, << Bool >>),
    tx_scdc_poll_period |-> SetGet(<< "port" >>, << Word >>),
    tx_scdc_write |-> Order(<< "port", "offset" >>, << Byte >>),
    tx_scdc_read |-> Query(<< "port", "offset" >>, << Byte >>),
    tx_ddc_write |-> Order(<< "port", "slv_addr", "offset", "len" >>, << List(1) >>) ]

(* Reads from the sink, DDC frequency.                                       *)
TxDdcCalls ==
  [ tx_ddc_read |-> Query(<< "port", "slv_addr", "offset", "len" >>, << List(1) >>),
    tx_ddc_freq |-> SetGet(<< "port" >>, << Byte >>),
    tx_av_link_query |-> Query(<< "port" >>, << Byte >>),
    tx_tmds2_scramble_query |-> Query(<< "port" >>, << Bool >>) ]

(* Video timing, blanking and packets of the outputs.                        *)
VideoTimingCalls ==
  [ vtpg_video_tim |-> SetGet(<< >>, EightWords \o << Long, Byte, Byte, Byte >>),
    tx_blank_enable |-> SetGet(<< "port" >>, << Bool >>),
    tx_packet |-> SetGet(<< "port", "type", "len" >>, << List(1) >>) ]

(* Sources of packets.                                                       *)
PacketSrcCalls ==
  [ tx_packet_src |-> SetGet(<< "port", "type" >>, << Byte >>) ]

(* General purpose pins.                                                     *)
GpioCalls ==
  [ gpio_enable |-> SetGet(<< >>, << Byte >>), gpio_mode |-> SetGet(<< >>, << Byte >>),
    gpio |-> SetGet(<< >>, << Byte >>), gpio_set_bits |-> Order(<< >>, << Byte >>),
    gpio_bit_get |-> Query(<< >>, << Byte >>), gpio_clear_bits |-> Order(<< >>, << Byte >>) ]

(* Their events.                                                             *)
GpioEventCalls ==
  [ gpio_query |-> Query(<< >>, << Byte >>), gpio_evt_stat_query |-> Query(<< >>, << Byte >>),
    gpio_evt_mask |-> SetGet(<< >>, << Byte >>) ]

-----------------------------------------------------------------------------
RowsOf(table) == { table[name] : name \in DOMAIN table }
ApiRows ==
  UNION { RowsOf(table) : table \in {
    VersionCalls, FlagCalls, FlagStatCalls, LicenseCalls, LinkModeCalls,
    UserTagCalls, AudioPortCalls, PatternCalls, RxSelectCalls, RxLinkCalls,
    RxPlugCalls, RxHdcpCalls, RxFormatCalls, RxPacketCalls, RxMaskCalls,
    RxTopologyCalls, EarcCalls, EarcCapCalls, EarcPacketCalls, ApCalls,
    VtpgCalls, ReplicateCalls, TxLinkCalls, TxSourceCalls, TxHdcpCalls,
    TxMuteCalls, TxListCalls, TxAudioCalls, TxCscCalls, TxPolarityCalls,
    TxEnableCalls, TxScdcCalls, TxDdcCalls, VideoTimingCalls, PacketSrcCalls,
    GpioCalls, GpioEventCalls } }
=============================================================================
