-------------------------- MODULE DatapointLayouts --------------------------
(***************************************************************************)
(* The structured datapoint types: which parameters the parsers under      *)
(* DatapointTypeParsers make of one group variable, where each lies in its  *)
(* value, which type it is converted with and which values it declares.    *)
(*                                                                         *)
(* Positions count bits from the most significant bit of the first octet.  *)
(* DPT(2) and DPT(3) stand for all their subtypes, whose parsers do not     *)
(* look at the subtype.  Names, units and the wording of enumerated values *)
(* are left out; an identifier is kept without the base name before the    *)
(* dot, because two parameters of one name are one parameter.              *)
(***************************************************************************)
EXTENDS Naturals, Integers, Sequences

DPT(n) == <<n, 0>>
DPST(n, s) == <<n, s>>

(* createParameter: one parameter of operation type "store".               *)
Field(id, type, pos, size, range) ==
  [id |-> id, type |-> type, pos |-> pos, size |-> size, range |-> range]
NoRange == <<>>
Flag(id, pos) == Field(id, DPT(1), pos, 1, <<0, 1>>)
FlagsFromNext(first, ids) == [i \in 1..Len(ids) |-> Flag(ids[i], first + i)]
Flags(first, ids) == [i \in 1..Len(ids) |-> Flag(ids[i], first + i - 1)]
NumberTooNarrow(id, type, pos, size, min, max) == Field(id, type, pos, size - 1, <<min, max>>)
NumberTooWide(id, type, pos, size, min, max) == Field(id, type, pos, size + 1, <<min, max>>)
Number(id, type, pos, size, min, max) == Field(id, type, pos, size, <<min, max>>)
Plain(id, type, pos, size) == Field(id, type, pos, size, NoRange)

(* A type, the number of low bits its .RAW parameter's range leaves to the *)
(* value, and the fields.                                                  *)
Unlimited == 64
Layout(type, bits, fields) == [type |-> type, bits |-> bits, fields |-> fields]

-----------------------------------------------------------------------------
Dpt2 == Layout(DPT(2), 2,
    Flags(6, <<"CONTROL", "STATE">>))
Dpt3 == Layout(DPT(3), 4,
    Flags(4, <<"CONTROL">>)
    \o <<Plain("STEP_CODE", DPT(5), 5, 3)>>)
Dpst6_20 == Layout(DPST(6, 20), 8,
    Flags(0, <<"STATUS_A", "STATUS_B", "STATUS_C", "STATUS_D", "STATUS_E">>)
    \o <<Number("MODE", DPT(5), 5, 3, 1, 4)>>)
Dpst10_1 == Layout(DPST(10, 1), 24,
    <<Number("DAY", DPT(5), 0, 3, 0, 7), Number("HOURS", DPT(5), 3, 5, 0, 59),
      Plain("MINUTES", DPT(5), 10, 6), Plain("SECONDS", DPT(5), 18, 6)>>)
Dpst11_1 == Layout(DPST(11, 1), 24,
    <<Number("DAY", DPT(5), 3, 5, 1, 31), Number("MONTH", DPT(5), 12, 4, 1, 12),
      Number("YEAR", DPT(5), 17, 7, 0, 99)>>)
Dpst15_0 == Layout(DPST(15, 0), Unlimited,
    <<Number("DATA1", DPT(5), 0, 4, 0, 9), Number("DATA2", DPT(5), 4, 4, 0, 9),
      Number("DATA3", DPT(5), 8, 4, 0, 9), Number("DATA4", DPT(5), 12, 4, 0, 9),
      Number("DATA5", DPT(5), 16, 4, 0, 9), Number("DATA6", DPT(5), 20, 4, 0, 9)>>
    \o Flags(24, <<"DETECTION_ERROR", "PERMISSION", "READ_DIRECTION", "ENCRYPTION">>)
    \o <<Number("CODE_INDEX", DPT(5), 28, 4, 0, 9)>>)
Dpst18_1 == Layout(DPST(18, 1), 8,
    Flags(0, <<"LEARN">>)
    \o <<Number("SCENE", DPT(5), 2, 6, 0, 63)>>)
Dpst19_1 == Layout(DPST(19, 1), Unlimited,
    <<Number("YEAR", DPT(5), 0, 8, 0, 255), Number("MONTH", DPT(5), 12, 4, 1, 12),
      Number("DAY_OF_MONTH", DPT(5), 19, 5, 0, 31), Number("DAY_OF_WEEK", DPT(5), 24, 3, 0, 7),
      Number("HOURS", DPT(5), 27, 5, 0, 24), Number("MINUTES", DPT(5), 34, 6, 0, 59),
      Number("SECONDS", DPT(5), 42, 6, 0, 59)>>
    \o Flags(48, <<"FAULT", "WORKING_DAY", "WD_FIELD_INVALID", "YEAR_FIELD_INVALID",
      "MONTH_AND_DOM_FIELDS_INVALID", "DOW_FIELD_INVALID", "TIME_FIELDS_INVALID", "SUMMERTIME",
      "EXT_SYNC_SIGNAL">>))
Dpst21_1 == Layout(DPST(21, 1), 5,
    Flags(3, <<"NO_ALARM_ACK", "DP_IN_ALARM", "DP_VALUE_OVERRIDDEN", "DP_VALUE_CORRUPTED",
      "DP_VALUE_OUT_OF_SERVICE">>))
Dpst21_2 == Layout(DPST(21, 2), 3,
    Flags(5, <<"VERIFY_MODE_ON", "OWN_ADDRESS_DATAGRAM", "USER_APPLICATION_STOPPED">>))
Dpst21_100 == Layout(DPST(21, 100), 8,
    Flags(0, <<"ROOM_H_MAX", "ROOM_H_CONF", "DHW_LEGIO", "DHW_NORM", "OVERRUN", "OVERSUPPLY",
      "PROTECTION", "FORCE_REQUEST">>))
Dpst21_101 == Layout(DPST(21, 101), 1,
    Flags(7, <<"FORCE_REQUEST">>))
Dpst21_102 == Layout(DPST(21, 102), 8,
    Flags(0, <<"SUMMER_MODE", "STATUS_STOP_OPTIM", "STATUS_START_OPTIM", "STATUS_MORNING_BOOST",
      "TEMP_RETURN_LIMIT", "TEMP_FLOW_LIMIT", "STATUS_ECO", "FAULT">>))
Dpst21_103 == Layout(DPST(21, 103), 3,
    Flags(5, <<"SOLAR_LOAD_SUFFICIENT", "SDHW_LOAD_ACTIVE", "FAULT">>))
Dpst21_104 == Layout(DPST(21, 104), 3,
    Flags(5, <<"SOLID_STATE", "GAS", "OIL">>))
Dpst21_105 == Layout(DPST(21, 105), 1,
    Flags(7, <<"FAULT">>))
Dpst21_106 == Layout(DPST(21, 106), 4,
    Flags(4, <<"COOL", "HEAT", "FAN_ACTIVE", "FAULT">>))
Dpst21_601 == Layout(DPST(21, 601), 7,
    Flags(1, <<"OVERHEAT", "LAMP_FAILURE", "DEFECTIVE_LOAD", "UNDERLOAD", "OVERCURRENT", "UNDERVOLTAGE",
      "LOAD_DETECTION_ERROR">>))
Dpst21_1000 == Layout(DPST(21, 1000), 3,
    Flags(5, <<"BI_BAT_SLAVE", "BI_BAT_MASTER", "ASYNCHRONOUS">>))
Dpst21_1001 == Layout(DPST(21, 1001), 3,
    Flags(5, <<"DOA", "KNX_SN", "DOA_AND_KNX_SN">>))
Dpst21_1010 == Layout(DPST(21, 1010), 8,
    Flags(0, <<"STATE_1", "STATE_2", "STATE_3", "STATE_4", "STATE_5", "STATE_6", "STATE_7", "STATE_8">>))
Dpst22_100 == Layout(DPST(22, 100), 8,
    Flags(8, <<"TEMP_OPTIM_SHIFT_ACTIVE", "SOLAR_ENERGY_SUPPORT", "SOLAR_ENERGY_ONLY",
      "OTHER_ENERGY_SOURCE_ACTIVE", "DHW_PUSH_ACTIVE", "LEGIO_PROT_ACTIVE", "DHW_LOAD_ACTIVE",
      "FAULT">>))
Dpst22_101 == Layout(DPST(22, 101), 15,
    Flags(1, <<"OVERHEAT_ALARM", "FROST_ALARM", "DEW_POINT_STATUS", "COOLING_DISABLED",
      "STATUS_PRE_COOL", "STATUS_ECO_C", "HEAT_COOL_MODE", "HEATING_DISABLED", "STATUS_STOP_OPTIM",
      "STATUS_START_OPTIM", "STATUS_MORNING_BOOST_H", "TEMP_FLOW_RETURN_LIMIT", "TEMP_FLOW_LIMIT",
      "STATUS_ECO_H", "FAULT">>))
Dpst22_1000 == Layout(DPST(22, 1000), 6,
    Flags(10, <<"KNX_IP", "RF">>)
    \o Flags(13, <<"PL110", "TP1">>))
Dpst22_1010 == Layout(DPST(22, 1010), 16,
    Flags(0, <<"STATE_1", "STATE_2", "STATE_3", "STATE_4", "STATE_5", "STATE_6", "STATE_7", "STATE_8",
      "STATE_9", "STATE_10", "STATE_11", "STATE_12", "STATE_13", "STATE_14", "STATE_15",
      "STATE_16">>))
Dpst25_1000 == Layout(DPST(25, 1000), 8,
    <<Number("BUSY", DPT(5), 0, 4, 0, 3), Number("NAK", DPT(5), 4, 4, 0, 3)>>)
Dpst26_1 == Layout(DPST(26, 1), 7,
    Flags(1, <<"INACTIVE">>)
    \o <<Number("SCENE", DPT(5), 2, 6, 0, 63)>>)
Dpst27_1Mask == [i \in 1..16 |-> Flag(<<"OUTPUT_VALID", 17 - i>>, i - 1)]
Dpst27_1States == [i \in 1..16 |-> Flag(<<"STATE", 17 - i>>, i + 15)]
Dpst27_1 == Layout(DPST(27, 1), Unlimited,
    Dpst27_1Mask
    \o Dpst27_1States)
Dpst30_1010 == Layout(DPST(30, 1010), 24,
    [i \in 1..24 |-> Flag(<<"STATE", i>>, i - 1)])
Dpst206_100 == Layout(DPST(206, 100), 24,
    <<Number("DELAY", DPT(7), 0, 16, 0, 65535), Number("HVAC_MODE", DPT(5), 16, 8, 0, 4)>>)
Dpst206_102 == Layout(DPST(206, 102), 24,
    <<Number("DELAY", DPT(7), 0, 16, 0, 65535), Number("DHW_MODE", DPT(5), 16, 8, 0, 4)>>)
Dpst206_104 == Layout(DPST(206, 104), 24,
    <<Number("DELAY", DPT(7), 0, 16, 0, 65535), Number("OCCUPANCY_MODE", DPT(5), 16, 8, 0, 2)>>)
Dpst206_105 == Layout(DPST(206, 105), 24,
    <<Number("DELAY", DPT(7), 0, 16, 0, 65535), Number("BUILDING_MODE", DPT(5), 16, 8, 0, 2)>>)
Dpst217_1 == Layout(DPST(217, 1), 16,
    <<Number("MAGIC_NUMBER", DPT(5), 0, 5, 0, 31), Number("VERSION_NUMBER", DPT(5), 5, 5, 0, 31),
      Number("REVISION_NUMBER", DPT(5), 10, 6, 0, 63)>>)
Dpst219_1 == Layout(DPST(219, 1), 48,
    <<Number("LOG_NUMBER", DPT(5), 0, 8, 0, 255), Number("PRIORITY", DPT(5), 8, 8, 0, 3),
      Number("APPLICATION_AREA", DPT(5), 16, 8, 0, 50), Number("ERROR_CLASS", DPT(5), 24, 8, 0, 5)>>
    \o Flags(36, <<"ERROR_CODE_SUP", "ALARM_TEXT_SUP", "TIME_STAMP_SUP", "ACK_SUP">>)
    \o Flags(45, <<"LOCKED", "ALARM_UN_ACK", "IN_ALARM">>))
Dpst222_100 == Layout(DPST(222, 100), 48,
    <<Number("COMFORT_TEMPERATURE", DPT(9), 0, 16, -273, 670760),
      Number("STANDBY_TEMPERATURE", DPT(9), 16, 16, -273, 670760),
      Number("ECO_TEMPERATURE", DPT(9), 32, 16, -273, 670760)>>)
Dpst222_101 == Layout(DPST(222, 101), 48,
    <<Number("COMFORT_TEMPERATURE_SHIFT", DPT(9), 0, 16, -670760, 670760),
      Number("STANDBY_TEMPERATURE_SHIFT", DPT(9), 16, 16, -670760, 670760),
      Number("ECO_TEMPERATURE_SHIFT", DPT(9), 32, 16, -670760, 670760)>>)
Dpst229_1 == Layout(DPST(229, 1), 48,
    <<Plain("COUNTER", DPT(12), 0, 32), Number("APPLICATION_AREA", DPT(5), 32, 8, 0, 177)>>
    \o Flags(43, <<"ALARM_UN_ACK", "IN_ALARM", "OVERRIDDEN", "FAULT", "OUT_OF_SERVICE">>))
Dpst230_1000 == Layout(DPST(230, 1000), Unlimited,
    <<Plain("MANUFACTURER_ID", DPT(7), 0, 16), Plain("IDENT_NUMBER", DPT(12), 16, 32),
      Plain("IDENT_NUMBER", DPT(5), 48, 8), Number("MEDIUM", DPT(5), 56, 8, 0, 55)>>)
Dpst232_600 == Layout(DPST(232, 600), 24,
    <<Number("RED", DPT(5), 0, 8, 0, 255), Number("GREEN", DPT(5), 8, 8, 0, 255),
      Number("BLUE", DPT(5), 16, 8, 0, 255)>>)
Dpst237_600 == Layout(DPST(237, 600), 11,
    Flags(5, <<"CONVERTER_ERROR", "BALLAST_FAILURE", "LAMP_FAILURE", "READ", "GROUP_ADDRESS">>)
    \o <<Number("DALI_ADDRESS", DPT(5), 10, 6, 0, 63)>>)
Dpst238_600 == Layout(DPST(238, 600), 8,
    Flags(0, <<"BALLAST_FAILURE", "LAMP_FAILURE">>)
    \o <<Number("DEVICE_ADDRESS", DPT(5), 2, 6, 0, 63)>>)
Dpst240_800 == Layout(DPST(240, 800), 24,
    <<Number("HEIGHT_POSITION", DPST(5, 1), 0, 8, 0, 100),
      Number("SLATS_POSITION", DPST(5, 1), 8, 8, 0, 100)>>
    \o Flags(22, <<"HEIGHT_POS_VALID", "SLATS_POS_VALID">>))
Dpst241_800 == Layout(DPST(241, 800), Unlimited,
    <<Number("HEIGHT_POSITION", DPST(5, 1), 0, 8, 0, 100),
      Number("SLATS_POSITION", DPST(5, 1), 8, 8, 0, 100)>>
    \o Flags(16, <<"UPPER_END_REACHED", "LOWER_END_REACHED", "LOWER_PREDEF_REACHED", "TARGET_REACHED",
      "CANT_REACH_TARGET_POS", "CANT_REACH_SLATS_POS", "IN_ALARM", "UP_DOWN_FORCED_INPUT", "LOCKED",
      "OVERRIDDEN", "FAILURE">>)
    \o Flags(30, <<"HEIGHT_POS_VALID">>)
    \o Flags(13, <<"SLATS_POS_VALID">>))
Dpst244_600 == Layout(DPST(244, 600), Unlimited,
    <<Number("CONVERTER_MODE", DPT(5), 0, 4, 0, 9)>>
    \o Flags(6, <<"HARDWIRED_SWITCH_ACTIVE", "HARDWIRED_INHIBIT_ACTIVE">>)
    \o <<Number("FUNCTION_TEST_PENDING", DPT(5), 8, 2, 0, 2),
      Number("DURATION_TEST_PENDING", DPT(5), 10, 2, 0, 2),
      Number("PARTIAL_DURATION_TEST_PENDING", DPT(5), 12, 2, 0, 2),
      Number("CONVERTER_FAILURE", DPT(5), 14, 2, 0, 2)>>)
Dpst245_600 == Layout(DPST(245, 600), Unlimited,
    <<Number("LTRF", DPT(5), 0, 4, 0, 5), Number("LTRF", DPT(5), 4, 4, 0, 5),
      Number("LTRF", DPT(5), 8, 4, 0, 5), Number("LTRF", DPT(5), 16, 2, 0, 2),
      Number("LTRF", DPT(5), 18, 2, 0, 2), Number("LTRF", DPT(5), 20, 2, 0, 2),
      Number("LDTR", DPT(7), 24, 16, 0, 510), Number("LPDTR", DPT(5), 40, 8, 0, 255)>>)
Dpst249_600 == Layout(DPST(249, 600), Unlimited,
    <<Number("DURATION", DPST(7, 4), 0, 16, 0, 65535), Number("TEMPERATURE", DPT(7), 16, 16, 0, 65535),
      Number("BRIGHTNESS", DPST(5, 1), 32, 8, 0, 100)>>
    \o Flags(45, <<"DURATION_VALID", "TEMPERATURE_VALID", "BRIGHTNESS_VALID">>))
Dpst250_600 == Layout(DPST(250, 600), Unlimited,
    Flags(4, <<"CCT_INCREASE">>)
    \o <<Number("CCT_STEP", DPT(5), 5, 3, 1, 7)>>
    \o Flags(12, <<"CB_INCREASE">>)
    \o <<Number("CB_STEP", DPT(5), 13, 3, 1, 7)>>
    \o Flags(22, <<"CCT_VALID", "CB_VALID">>))
Dpst251_600 == Layout(DPST(251, 600), Unlimited,
    <<Number("RED", DPT(5), 8, 8, 0, 255), Number("RED", DPT(5), 16, 8, 0, 255),
      Number("RED", DPT(5), 24, 8, 0, 255), Number("RED", DPT(5), 32, 8, 0, 255)>>
    \o Flags(44, <<"RED_VALID", "GREEN_VALID", "BLUE_VALID", "WHITE_VALID">>))

(* All of them, in the order of the parsers.                               *)
Layouts == <<
  Dpt2, Dpt3, Dpst6_20, Dpst10_1, Dpst11_1, Dpst15_0, Dpst18_1, Dpst19_1, Dpst21_1, Dpst21_2,
  Dpst21_100, Dpst21_101, Dpst21_102, Dpst21_103, Dpst21_104, Dpst21_105, Dpst21_106, Dpst21_601,
  Dpst21_1000, Dpst21_1001, Dpst21_1010, Dpst22_100, Dpst22_101, Dpst22_1000, Dpst22_1010,
  Dpst25_1000, Dpst26_1, Dpst27_1, Dpst30_1010, Dpst206_100, Dpst206_102, Dpst206_104, Dpst206_105,
  Dpst217_1, Dpst219_1, Dpst222_100, Dpst222_101, Dpst229_1, Dpst230_1000, Dpst232_600, Dpst237_600,
  Dpst238_600, Dpst240_800, Dpst241_800, Dpst244_600, Dpst245_600, Dpst249_600, Dpst250_600,
  Dpst251_600>>
=============================================================================
