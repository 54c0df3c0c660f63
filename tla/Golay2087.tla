---------------------------- MODULE Golay2087 ----------------------------
(***************************************************************************)
(* The Golay (20,8,7) forward-error-correction code of edac/Golay2087.cpp. *)
(*                                                                         *)
(* A codeword occupies three bytes data[0..2]: data[0] is the 8-bit        *)
(* information word, data[1] and the high nibble of data[2] hold the 12    *)
(* check bits.  encode() looks the check bits up in ENCODING_TABLE_2087;   *)
(* decode() reads the first 19 bits back as one integer, computes its      *)
(* syndrome by GF(2) polynomial division (getSyndrome1987), looks the      *)
(* error pattern up in DECODING_TABLE_1987 and XORs it in.  The 20th bit   *)
(* (an overall parity bit) is written by encode() and ignored by decode(). *)
(*                                                                         *)
(* The tables are the source's literal data; everything else is written   *)
(* from the source's arithmetic, bit for bit.                              *)
(***************************************************************************)
EXTENDS Naturals, Bitwise

Byte == 0..255

\* A three-byte codeword buffer indexed like the C array data[0U..2U].
Buffers == [0..2 -> Byte]

\* ENCODING_TABLE_2087[value]: the check bits of information word value,
\* stored so that the low byte goes to data[1] and the high byte to data[2].
ENCODING_TABLE_2087 ==
  LET t == <<
    \h0000, \hB08E, \hE093, \h501D, \h70A9, \hC027, \h903A, \h20B4, \h60DC, \hD052, \h804F, \h30C1,
    \h1075, \hA0FB, \hF0E6, \h4068, \h7036, \hC0B8, \h90A5, \h202B, \h009F, \hB011, \hE00C, \h5082,
    \h10EA, \hA064, \hF079, \h40F7, \h6043, \hD0CD, \h80D0, \h305E, \hD06C, \h60E2, \h30FF, \h8071,
    \hA0C5, \h104B, \h4056, \hF0D8, \hB0B0, \h003E, \h5023, \hE0AD, \hC019, \h7097, \h208A, \h9004,
    \hA05A, \h10D4, \h40C9, \hF047, \hD0F3, \h607D, \h3060, \h80EE, \hC086, \h7008, \h2015, \h909B,
    \hB02F, \h00A1, \h50BC, \hE032, \h90D9, \h2057, \h704A, \hC0C4, \hE070, \h50FE, \h00E3, \hB06D,
    \hF005, \h408B, \h1096, \hA018, \h80AC, \h3022, \h603F, \hD0B1, \hE0EF, \h5061, \h007C, \hB0F2,
    \h9046, \h20C8, \h70D5, \hC05B, \h8033, \h30BD, \h60A0, \hD02E, \hF09A, \h4014, \h1009, \hA087,
    \h40B5, \hF03B, \hA026, \h10A8, \h301C, \h8092, \hD08F, \h6001, \h2069, \h90E7, \hC0FA, \h7074,
    \h50C0, \hE04E, \hB053, \h00DD, \h3083, \h800D, \hD010, \h609E, \h402A, \hF0A4, \hA0B9, \h1037,
    \h505F, \hE0D1, \hB0CC, \h0042, \h20F6, \h9078, \hC065, \h70EB, \hA03D, \h10B3, \h40AE, \hF020,
    \hD094, \h601A, \h3007, \h8089, \hC0E1, \h706F, \h2072, \h90FC, \hB048, \h00C6, \h50DB, \hE055,
    \hD00B, \h6085, \h3098, \h8016, \hA0A2, \h102C, \h4031, \hF0BF, \hB0D7, \h0059, \h5044, \hE0CA,
    \hC07E, \h70F0, \h20ED, \h9063, \h7051, \hC0DF, \h90C2, \h204C, \h00F8, \hB076, \hE06B, \h50E5,
    \h108D, \hA003, \hF01E, \h4090, \h6024, \hD0AA, \h80B7, \h3039, \h0067, \hB0E9, \hE0F4, \h507A,
    \h70CE, \hC040, \h905D, \h20D3, \h60BB, \hD035, \h8028, \h30A6, \h1012, \hA09C, \hF081, \h400F,
    \h30E4, \h806A, \hD077, \h60F9, \h404D, \hF0C3, \hA0DE, \h1050, \h5038, \hE0B6, \hB0AB, \h0025,
    \h2091, \h901F, \hC002, \h708C, \h40D2, \hF05C, \hA041, \h10CF, \h307B, \h80F5, \hD0E8, \h6066,
    \h200E, \h9080, \hC09D, \h7013, \h50A7, \hE029, \hB034, \h00BA, \hE088, \h5006, \h001B, \hB095,
    \h9021, \h20AF, \h70B2, \hC03C, \h8054, \h30DA, \h60C7, \hD049, \hF0FD, \h4073, \h106E, \hA0E0,
    \h90BE, \h2030, \h702D, \hC0A3, \hE017, \h5099, \h0084, \hB00A, \hF062, \h40EC, \h10F1, \hA07F,
    \h80CB, \h3045, \h6058, \hD0D6
    >>
  IN [v \in 0..255 |-> t[v + 1]]

\* DECODING_TABLE_1987[syndrome]: the error pattern (19 bits) to XOR into
\* the received vector whose syndrome is syndrome; 0 when there is none.
DECODING_TABLE_1987 ==
  LET t == <<
    \h00000, \h00001, \h00002, \h00003, \h00004, \h00005, \h00006, \h00007, \h00008, \h00009, \h0000A, \h0000B, \h0000C,
    \h0000D, \h0000E, \h24020, \h00010, \h00011, \h00012, \h00013, \h00014, \h00015, \h00016, \h00017, \h00018, \h00019,
    \h0001A, \h0001B, \h0001C, \h0001D, \h48040, \h01480, \h00020, \h00021, \h00022, \h00023, \h00024, \h00025, \h00026,
    \h24008, \h00028, \h00029, \h0002A, \h24004, \h0002C, \h24002, \h24001, \h24000, \h00030, \h00031, \h00032, \h08180,
    \h00034, \h00C40, \h00036, \h00C42, \h00038, \h43000, \h0003A, \h43002, \h02902, \h24012, \h02900, \h24010, \h00040,
    \h00041, \h00042, \h00043, \h00044, \h00045, \h00046, \h00047, \h00048, \h00049, \h0004A, \h02500, \h0004C, \h0004D,
    \h48010, \h48011, \h00050, \h00051, \h00052, \h21200, \h00054, \h00C20, \h48008, \h48009, \h00058, \h00059, \h48004,
    \h48005, \h48002, \h48003, \h48000, \h48001, \h00060, \h00061, \h00062, \h00063, \h00064, \h00C10, \h10300, \h0B000,
    \h00068, \h00069, \h01880, \h01881, \h40181, \h40180, \h24041, \h24040, \h00070, \h00C04, \h00072, \h00C06, \h00C01,
    \h00C00, \h00C03, \h00C02, \h05204, \h00C0C, \h48024, \h48025, \h05200, \h00C08, \h48020, \h48021, \h00080, \h00081,
    \h00082, \h00083, \h00084, \h00085, \h00086, \h00087, \h00088, \h00089, \h0008A, \h50200, \h0008C, \h0A800, \h01411,
    \h01410, \h00090, \h00091, \h00092, \h08120, \h00094, \h00095, \h04A00, \h01408, \h00098, \h00099, \h01405, \h01404,
    \h01403, \h01402, \h01401, \h01400, \h000A0, \h000A1, \h000A2, \h08110, \h000A4, \h000A5, \h42400, \h42401, \h000A8,
    \h000A9, \h01840, \h01841, \h40141, \h40140, \h24081, \h24080, \h000B0, \h08102, \h08101, \h08100, \h000B4, \h08106,
    \h08105, \h08104, \h20A01, \h20A00, \h08109, \h08108, \h01423, \h01422, \h01421, \h01420, \h000C0, \h000C1, \h000C2,
    \h000C3, \h000C4, \h000C5, \h000C6, \h000C7, \h000C8, \h000C9, \h01820, \h01821, \h20600, \h40120, \h16000, \h16001,
    \h000D0, \h000D1, \h42801, \h42800, \h03100, \h18200, \h03102, \h18202, \h000D8, \h000D9, \h48084, \h01444, \h48082,
    \h01442, \h48080, \h01440, \h000E0, \h32000, \h01808, \h04600, \h40109, \h40108, \h0180C, \h4010A, \h01802, \h40104,
    \h01800, \h01801, \h40101, \h40100, \h01804, \h40102, \h0A408, \h08142, \h08141, \h08140, \h00C81, \h00C80, \h00C83,
    \h00C82, \h0A400, \h0A401, \h01810, \h01811, \h40111, \h40110, \h01814, \h40112, \h00100, \h00101, \h00102, \h00103,
    \h00104, \h00105, \h00106, \h41800, \h00108, \h00109, \h0010A, \h02440, \h0010C, \h0010D, \h0010E, \h02444, \h00110,
    \h00111, \h00112, \h080A0, \h00114, \h00115, \h00116, \h080A4, \h00118, \h00119, \h15000, \h15001, \h02822, \h02823,
    \h02820, \h02821, \h00120, \h00121, \h00122, \h08090, \h00124, \h00125, \h10240, \h10241, \h00128, \h00129, \h0012A,
    \h24104, \h09400, \h400C0, \h02810, \h24100, \h00130, \h08082, \h08081, \h08080, \h31001, \h31000, \h02808, \h08084,
    \h02806, \h0808A, \h02804, \h08088, \h02802, \h02803, \h02800, \h02801, \h00140, \h00141, \h00142, \h02408, \h00144,
    \h00145, \h10220, \h10221, \h00148, \h02402, \h02401, \h02400, \h400A1, \h400A0, \h02405, \h02404, \h00150, \h00151,
    \h00152, \h02418, \h03080, \h03081, \h03082, \h03083, \h09801, \h09800, \h02411, \h02410, \h48102, \h09804, \h48100,
    \h48101, \h00160, \h00161, \h10204, \h10205, \h10202, \h40088, \h10200, \h10201, \h40085, \h40084, \h02421, \h02420,
    \h40081, \h40080, \h10208, \h40082, \h41402, \h080C2, \h41400, \h080C0, \h00D01, \h00D00, \h10210, \h10211, \h40095,
    \h40094, \h02844, \h080C8, \h40091, \h40090, \h02840, \h02841, \h00180, \h00181, \h00182, \h08030, \h00184, \h14400,
    \h22201, \h22200, \h00188, \h00189, \h0018A, \h08038, \h40061, \h40060, \h40063, \h40062, \h00190, \h08022, \h08021,
    \h08020, \h03040, \h03041, \h08025, \h08024, \h40C00, \h40C01, \h08029, \h08028, \h2C000, \h2C001, \h01501, \h01500,
    \h001A0, \h08012, \h08011, \h08010, \h40049, \h40048, \h08015, \h08014, \h06200, \h40044, \h30400, \h08018, \h40041,
    \h40040, \h40043, \h40042, \h08003, \h08002, \h08001, \h08000, \h08007, \h08006, \h08005, \h08004, \h0800B, \h0800A,
    \h08009, \h08008, \h40051, \h40050, \h02880, \h0800C, \h001C0, \h001C1, \h64000, \h64001, \h03010, \h40028, \h08C00,
    \h08C01, \h40025, \h40024, \h02481, \h02480, \h40021, \h40020, \h40023, \h40022, \h03004, \h03005, \h08061, \h08060,
    \h03000, \h03001, \h03002, \h03003, \h0300C, \h40034, \h30805, \h30804, \h03008, \h40030, \h30801, \h30800, \h4000D,
    \h4000C, \h08051, \h08050, \h40009, \h40008, \h10280, \h4000A, \h40005, \h40004, \h01900, \h40006, \h40001, \h40000,
    \h40003, \h40002, \h14800, \h08042, \h08041, \h08040, \h03020, \h40018, \h08045, \h08044, \h40015, \h40014, \h08049,
    \h08048, \h40011, \h40010, \h40013, \h40012, \h00200, \h00201, \h00202, \h00203, \h00204, \h00205, \h00206, \h00207,
    \h00208, \h00209, \h0020A, \h50080, \h0020C, \h0020D, \h0020E, \h50084, \h00210, \h00211, \h00212, \h21040, \h00214,
    \h00215, \h04880, \h04881, \h00218, \h00219, \h0E001, \h0E000, \h0021C, \h0021D, \h04888, \h0E004, \h00220, \h00221,
    \h00222, \h00223, \h00224, \h00225, \h10140, \h10141, \h00228, \h00229, \h0022A, \h24204, \h12401, \h12400, \h24201,
    \h24200, \h00230, \h00231, \h00232, \h21060, \h2A000, \h2A001, \h2A002, \h2A003, \h20881, \h20880, \h20883, \h20882,
    \h05040, \h05041, \h05042, \h24210, \h00240, \h00241, \h00242, \h21010, \h00244, \h46000, \h10120, \h10121, \h00248,
    \h00249, \h0024A, \h21018, \h20480, \h20481, \h20482, \h20483, \h00250, \h21002, \h21001, \h21000, \h18081, \h18080,
    \h21005, \h21004, \h12800, \h12801, \h21009, \h21008, \h05020, \h05021, \h48200, \h48201, \h00260, \h00261, \h10104,
    \h04480, \h10102, \h10103, \h10100, \h10101, \h62002, \h62003, \h62000, \h62001, \h05010, \h05011, \h10108, \h10109,
    \h0500C, \h21022, \h21021, \h21020, \h05008, \h00E00, \h10110, \h10111, \h05004, \h05005, \h05006, \h21028, \h05000,
    \h05001, \h05002, \h05003, \h00280, \h00281, \h00282, \h50008, \h00284, \h00285, \h04810, \h22100, \h00288, \h50002,
    \h50001, \h50000, \h20440, \h20441, \h50005, \h50004, \h00290, \h00291, \h04804, \h04805, \h04802, \h18040, \h04800,
    \h04801, \h20821, \h20820, \h50011, \h50010, \h0480A, \h01602, \h04808, \h01600, \h002A0, \h002A1, \h04441, \h04440,
    \h002A4, \h002A5, \h04830, \h04444, \h06100, \h20810, \h50021, \h50020, \h06104, \h20814, \h50025, \h50024, \h20809,
    \h20808, \h13000, \h08300, \h04822, \h2080C, \h04820, \h04821, \h20801, \h20800, \h20803, \h20802, \h20805, \h20804,
    \h04828, \h20806, \h002C0, \h002C1, \h04421, \h04420, \h20408, \h18010, \h2040A, \h18012, \h20404, \h20405, \h50041,
    \h50040, \h20400, \h20401, \h20402, \h20403, \h18005, \h18004, \h21081, \h21080, \h18001, \h18000, \h04840, \h18002,
    \h20414, \h1800C, \h21089, \h21088, \h20410, \h18008, \h20412, \h1800A, \h04403, \h04402, \h04401, \h04400, \h10182,
    \h04406, \h10180, \h04404, \h01A02, \h0440A, \h01A00, \h04408, \h20420, \h40300, \h20422, \h40302, \h04413, \h04412,
    \h04411, \h04410, \h18021, \h18020, \h10190, \h18022, \h20841, \h20840, \h01A10, \h20842, \h05080, \h05081, \h05082,
    \h05083, \h00300, \h00301, \h00302, \h00303, \h00304, \h00305, \h10060, \h22080, \h00308, \h00309, \h28800, \h28801,
    \h44402, \h44403, \h44400, \h44401, \h00310, \h00311, \h10C01, \h10C00, \h00314, \h00315, \h10070, \h10C04, \h00318,
    \h00319, \h28810, \h10C08, \h44412, \h00000, \h44410, \h44411, \h00320, \h60400, \h10044, \h10045, \h10042, \h0C800,
    \h10040, \h10041, \h06080, \h06081, \h06082, \h06083, \h1004A, \h0C808, \h10048, \h10049, \h58008, \h08282, \h08281,
    \h08280, \h10052, \h0C810, \h10050, \h10051, \h58000, \h58001, \h58002, \h08288, \h02A02, \h02A03, \h02A00, \h02A01,
    \h00340, \h00341, \h10024, \h10025, \h10022, \h10023, \h10020, \h10021, \h34001, \h34000, \h02601, \h02600, \h1002A,
    \h34004, \h10028, \h10029, \h0C400, \h0C401, \h21101, \h21100, \h60800, \h60801, \h10030, \h10031, \h0C408, \h34010,
    \h21109, \h21108, \h60808, \h60809, \h10038, \h28420, \h10006, \h10007, \h10004, \h10005, \h10002, \h10003, \h10000,
    \h10001, \h1000E, \h40284, \h1000C, \h1000D, \h1000A, \h40280, \h10008, \h10009, \h10016, \h10017, \h10014, \h10015,
    \h10012, \h10013, \h10010, \h10011, \h05104, \h44802, \h44801, \h44800, \h05100, \h05101, \h10018, \h28400, \h00380,
    \h00381, \h22005, \h22004, \h22003, \h22002, \h22001, \h22000, \h06020, \h06021, \h50101, \h50100, \h11800, \h11801,
    \h22009, \h22008, \h45001, \h45000, \h08221, \h08220, \h04902, \h22012, \h04900, \h22010, \h06030, \h45008, \h08229,
    \h08228, \h11810, \h11811, \h04908, \h22018, \h06008, \h06009, \h08211, \h08210, \h100C2, \h22022, \h100C0, \h22020,
    \h06000, \h06001, \h06002, \h06003, \h06004, \h40240, \h06006, \h40242, \h08203, \h08202, \h08201, \h08200, \h08207,
    \h08206, \h08205, \h08204, \h06010, \h20900, \h08209, \h08208, \h61002, \h20904, \h61000, \h61001, \h29020, \h29021,
    \h100A4, \h22044, \h100A2, \h22042, \h100A0, \h22040, \h20504, \h40224, \h0D005, \h0D004, \h20500, \h40220, \h0D001,
    \h0D000, \h03204, \h18104, \h08261, \h08260, \h03200, \h18100, \h03202, \h18102, \h11421, \h11420, \h00000, \h11422,
    \h03208, \h18108, \h0D011, \h0D010, \h29000, \h29001, \h10084, \h04500, \h10082, \h40208, \h10080, \h10081, \h06040,
    \h40204, \h06042, \h40206, \h40201, \h40200, \h10088, \h40202, \h29010, \h08242, \h08241, \h08240, \h10092, \h40218,
    \h10090, \h10091, \h11401, \h11400, \h11403, \h11402, \h40211, \h40210, \h10098, \h40212, \h00400, \h00401, \h00402,
    \h00403, \h00404, \h00405, \h00406, \h00407, \h00408, \h00409, \h0040A, \h02140, \h0040C, \h0040D, \h01091, \h01090,
    \h00410, \h00411, \h00412, \h00413, \h00414, \h00860, \h01089, \h01088, \h00418, \h38000, \h01085, \h01084, \h01083,
    \h01082, \h01081, \h01080, \h00420, \h00421, \h00422, \h00423, \h00424, \h00850, \h42080, \h42081, \h00428, \h00429,
    \h48801, \h48800, \h09100, \h12200, \h24401, \h24400, \h00430, \h00844, \h00432, \h00846, \h00841, \h00840, \h1C000,
    \h00842, \h00438, \h0084C, \h010A5, \h010A4, \h00849, \h00848, \h010A1, \h010A0, \h00440, \h00441, \h00442, \h02108,
    \h00444, \h00830, \h70001, \h70000, \h00448, \h02102, \h02101, \h02100, \h20280, \h20281, \h02105, \h02104, \h00450,
    \h00824, \h00452, \h00826, \h00821, \h00820, \h00823, \h00822, \h24802, \h02112, \h24800, \h02110, \h00829, \h00828,
    \h48400, \h010C0, \h00460, \h00814, \h04281, \h04280, \h00811, \h00810, \h00813, \h00812, \h54000, \h54001, \h02121,
    \h02120, \h00819, \h00818, \h0081B, \h0081A, \h00805, \h00804, \h41100, \h00806, \h00801, \h00800, \h00803, \h00802,
    \h0A080, \h0080C, \h0A082, \h0080E, \h00809, \h00808, \h0080B, \h0080A, \h00480, \h00481, \h00482, \h00483, \h00484,
    \h14100, \h42020, \h01018, \h00488, \h00489, \h01015, \h01014, \h20240, \h01012, \h01011, \h01010, \h00490, \h00491,
    \h0100D, \h0100C, \h0100B, \h0100A, \h01009, \h01008, \h40900, \h01006, \h01005, \h01004, \h01003, \h01002, \h01001,
    \h01000, \h004A0, \h004A1, \h42004, \h04240, \h42002, \h42003, \h42000, \h42001, \h30102, \h30103, \h30100, \h30101,
    \h4200A, \h01032, \h42008, \h01030, \h25000, \h25001, \h08501, \h08500, \h008C1, \h008C0, \h42010, \h01028, \h0A040,
    \h0A041, \h01025, \h01024, \h01023, \h01022, \h01021, \h01020, \h004C0, \h49000, \h04221, \h04220, \h20208, \h20209,
    \h08900, \h08901, \h20204, \h20205, \h02181, \h02180, \h20200, \h20201, \h20202, \h01050, \h0A028, \h008A4, \h0104D,
    \h0104C, \h008A1, \h008A0, \h01049, \h01048, \h0A020, \h0A021, \h01045, \h01044, \h20210, \h01042, \h01041, \h01040,
    \h04203, \h04202, \h04201, \h04200, \h00891, \h00890, \h42040, \h04204, \h0A010, \h0A011, \h01C00, \h04208, \h20220,
    \h40500, \h20222, \h40502, \h0A008, \h00884, \h04211, \h04210, \h00881, \h00880, \h00883, \h00882, \h0A000, \h0A001,
    \h0A002, \h0A003, \h0A004, \h00888, \h01061, \h01060, \h00500, \h00501, \h00502, \h02048, \h00504, \h14080, \h00506,
    \h14082, \h00508, \h02042, \h02041, \h02040, \h09020, \h09021, \h44200, \h02044, \h00510, \h00511, \h10A01, \h10A00,
    \h4A001, \h4A000, \h4A003, \h4A002, \h40880, \h40881, \h02051, \h02050, \h40884, \h01182, \h01181, \h01180, \h00520,
    \h60200, \h00522, \h60202, \h09008, \h09009, \h0900A, \h0900B, \h09004, \h09005, \h30080, \h02060, \h09000, \h09001,
    \h09002, \h09003, \h41042, \h08482, \h41040, \h08480, \h00941, \h00940, \h41044, \h00942, \h09014, \h09015, \h02C04,
    \h08488, \h09010, \h09011, \h02C00, \h02C01, \h00540, \h0200A, \h02009, \h02008, \h08882, \h0200E, \h08880, \h0200C,
    \h02003, \h02002, \h02001, \h02000, \h02007, \h02006, \h02005, \h02004, \h0C200, \h0C201, \h41020, \h02018, \h00921,
    \h00920, \h41024, \h00922, \h02013, \h02012, \h02011, \h02010, \h02017, \h02016, \h02015, \h02014, \h41012, \h0202A,
    \h41010, \h02028, \h26000, \h00910, \h10600, \h10601, \h02023, \h02022, \h02021, \h02020, \h09040, \h40480, \h02025,
    \h02024, \h41002, \h00904, \h41000, \h41001, \h00901, \h00900, \h41004, \h00902, \h4100A, \h02032, \h41008, \h02030,
    \h00909, \h00908, \h28201, \h28200, \h00580, \h14004, \h00582, \h14006, \h14001, \h14000, \h08840, \h14002, \h40810,
    \h40811, \h30020, \h020C0, \h14009, \h14008, \h01111, \h01110, \h40808, \h40809, \h08421, \h08420, \h14011, \h14010,
    \h01109, \h01108, \h40800, \h40801, \h40802, \h01104, \h40804, \h01102, \h01101, \h01100, \h03801, \h03800, \h30008,
    \h08410, \h14021, \h14020, \h42100, \h42101, \h30002, \h30003, \h30000, \h30001, \h09080, \h40440, \h30004, \h30005,
    \h08403, \h08402, \h08401, \h08400, \h08407, \h08406, \h08405, \h08404, \h40820, \h40821, \h30010, \h08408, \h40824,
    \h01122, \h01121, \h01120, \h08806, \h0208A, \h08804, \h02088, \h08802, \h14040, \h08800, \h08801, \h02083, \h02082,
    \h02081, \h02080, \h20300, \h40420, \h08808, \h02084, \h03404, \h03405, \h08814, \h02098, \h03400, \h03401, \h08810,
    \h08811, \h40840, \h40841, \h02091, \h02090, \h40844, \h01142, \h01141, \h01140, \h04303, \h04302, \h04301, \h04300,
    \h40409, \h40408, \h08820, \h08821, \h40405, \h40404, \h30040, \h020A0, \h40401, \h40400, \h40403, \h40402, \h41082,
    \h08442, \h41080, \h08440, \h00981, \h00980, \h41084, \h00982, \h0A100, \h11200, \h0A102, \h11202, \h40411, \h40410,
    \h40413, \h40412, \h00600, \h00601, \h00602, \h00603, \h00604, \h00605, \h00606, \h00607, \h00608, \h05800, \h0060A,
    \h05802, \h200C0, \h12020, \h44100, \h44101, \h00610, \h00611, \h10901, \h10900, \h51000, \h51001, \h51002, \h10904,
    \h00618, \h05810, \h01285, \h01284, \h51008, \h01282, \h01281, \h01280, \h00620, \h60100, \h040C1, \h040C0, \h12009,
    \h12008, \h21800, \h21801, \h12005, \h12004, \h12007, \h12006, \h12001, \h12000, \h12003, \h12002, \h00630, \h00A44,
    \h040D1, \h040D0, \h00A41, \h00A40, \h21810, \h00A42, \h12015, \h12014, \h00000, \h12016, \h12011, \h12010, \h12013,
    \h12012, \h00640, \h00641, \h040A1, \h040A0, \h20088, \h20089, \h2008A, \h040A4, \h20084, \h20085, \h19000, \h02300,
    \h20080, \h20081, \h20082, \h20083, \h0C100, \h0C101, \h21401, \h21400, \h00A21, \h00A20, \h00A23, \h00A22, \h20094,
    \h20095, \h19010, \h21408, \h20090, \h20091, \h20092, \h28120, \h04083, \h04082, \h04081, \h04080, \h00A11, \h00A10,
    \h10500, \h04084, \h200A4, \h0408A, \h04089, \h04088, \h200A0, \h12040, \h200A2, \h12042, \h00A05, \h00A04, \h04091,
    \h04090, \h00A01, \h00A00, \h00A03, \h00A02, \h05404, \h00A0C, \h28105, \h28104, \h05400, \h00A08, \h28101, \h28100,
    \h00680, \h00681, \h04061, \h04060, \h20048, \h20049, \h2004A, \h04064, \h20044, \h20045, \h50401, \h50400, \h20040,
    \h20041, \h20042, \h01210, \h68002, \h68003, \h68000, \h68001, \h04C02, \h0120A, \h04C00, \h01208, \h20054, \h01206,
    \h01205, \h01204, \h20050, \h01202, \h01201, \h01200, \h18800, \h04042, \h04041, \h04040, \h42202, \h04046, \h42200,
    \h04044, \h20064, \h0404A, \h04049, \h04048, \h20060, \h12080, \h20062, \h12082, \h18810, \h04052, \h04051, \h04050,
    \h4C009, \h4C008, \h42210, \h04054, \h20C01, \h20C00, \h20C03, \h20C02, \h4C001, \h4C000, \h01221, \h01220, \h2000C,
    \h04022, \h04021, \h04020, \h20008, \h20009, \h2000A, \h04024, \h20004, \h20005, \h20006, \h04028, \h20000, \h20001,
    \h20002, \h20003, \h2001C, \h04032, \h04031, \h04030, \h20018, \h18400, \h2001A, \h18402, \h20014, \h20015, \h20016,
    \h01244, \h20010, \h20011, \h20012, \h01240, \h04003, \h04002, \h04001, \h04000, \h20028, \h04006, \h04005, \h04004,
    \h20024, \h0400A, \h04009, \h04008, \h20020, \h20021, \h20022, \h0400C, \h04013, \h04012, \h04011, \h04010, \h00A81,
    \h00A80, \h04015, \h04014, \h0A200, \h11100, \h04019, \h04018, \h20030, \h20031, \h50800, \h50801, \h00700, \h60020,
    \h10811, \h10810, \h4400A, \h60024, \h44008, \h44009, \h44006, \h02242, \h44004, \h02240, \h44002, \h44003, \h44000,
    \h44001, \h0C040, \h10802, \h10801, \h10800, \h0C044, \h10806, \h10805, \h10804, \h23000, \h23001, \h10809, \h10808,
    \h44012, \h44013, \h44010, \h44011, \h60001, \h60000, \h60003, \h60002, \h60005, \h60004, \h10440, \h10441, \h60009,
    \h60008, \h44024, \h6000A, \h09200, \h12100, \h44020, \h44021, \h60011, \h60010, \h10821, \h10820, \h07003, \h07002,
    \h07001, \h07000, \h23020, \h60018, \h28045, \h28044, \h09210, \h28042, \h28041, \h28040, \h0C010, \h0C011, \h02209,
    \h02208, \h10422, \h10423, \h10420, \h10421, \h02203, \h02202, \h02201, \h02200, \h20180, \h20181, \h44040, \h02204,
    \h0C000, \h0C001, \h0C002, \h10840, \h0C004, \h0C005, \h0C006, \h10844, \h0C008, \h0C009, \h02211, \h02210, \h0C00C,
    \h28022, \h28021, \h28020, \h60041, \h60040, \h10404, \h04180, \h10402, \h10403, \h10400, \h10401, \h02223, \h02222,
    \h02221, \h02220, \h1040A, \h28012, \h10408, \h28010, \h0C020, \h0C021, \h41200, \h41201, \h00B01, \h00B00, \h10410,
    \h28008, \h11081, \h11080, \h28005, \h28004, \h28003, \h28002, \h28001, \h28000, \h52040, \h14204, \h22405, \h22404,
    \h14201, \h14200, \h22401, \h22400, \h20144, \h20145, \h44084, \h022C0, \h20140, \h20141, \h44080, \h44081, \h40A08,
    \h10882, \h10881, \h10880, \h14211, \h14210, \h1A008, \h10884, \h40A00, \h40A01, \h40A02, \h01304, \h1A002, \h01302,
    \h1A000, \h01300, \h60081, \h60080, \h04141, \h04140, \h60085, \h60084, \h104C0, \h04144, \h06400, \h06401, \h30200,
    \h30201, \h06404, \h40640, \h30204, \h30205, \h08603, \h08602, \h08601, \h08600, \h00000, \h08606, \h08605, \h08604,
    \h11041, \h11040, \h30210, \h11042, \h11045, \h11044, \h1A020, \h01320, \h52000, \h52001, \h04121, \h04120, \h20108,
    \h20109, \h08A00, \h08A01, \h20104, \h20105, \h02281, \h02280, \h20100, \h20101, \h20102, \h20103, \h0C080, \h0C081,
    \h0C082, \h04130, \h0C084, \h06808, \h08A10, \h08A11, \h11021, \h11020, \h11023, \h11022, \h20110, \h06800, \h20112,
    \h06802, \h04103, \h04102, \h04101, \h04100, \h10482, \h04106, \h10480, \h04104, \h11011, \h11010, \h04109, \h04108,
    \h20120, \h40600, \h20122, \h40602, \h11009, \h11008, \h22800, \h04110, \h1100D, \h1100C, \h22804, \h04114, \h11001,
    \h11000, \h11003, \h11002, \h11005, \h11004, \h28081, \h28080
    >>
  IN [s \in 0..2047 |-> t[s + 1]]

X18    == 2^18       \* vector representation of X^{18}
X11    == 2^11       \* vector representation of X^{11}
\* MASK8 is 0xfffff800 ("auxiliary vector for testing").  TLC integers are
\* signed 32-bit, so bit 31 is left out; every pattern getSyndrome1987 is
\* given here is below 2^19, so the test is unchanged.
MASK8  == (2^30 - X11) + 2^30
GENPOL == \hC75      \* generator polynomial, g(x)

\* The inner loop of getSyndrome1987: shift aux right until it meets the
\* highest set bit of pattern.
RECURSIVE AlignAux(_, _)
AlignAux(pattern, aux) ==
  IF (aux & pattern) # 0 THEN aux ELSE AlignAux(pattern, aux \div 2)

\* The outer loop: while a bit at X^11 or above is set, cancel the highest
\* one with a shifted copy of GENPOL.  aux keeps its value across rounds.
RECURSIVE DivideOut(_, _)
DivideOut(pattern, aux) ==
  IF (pattern & MASK8) = 0
  THEN pattern
  ELSE LET a == AlignAux(pattern, aux)
       IN  DivideOut(pattern ^^ ((a \div X11) * GENPOL), a)

\* Golay2087::getSyndrome1987: the remainder of pattern divided by GENPOL.
getSyndrome1987(pattern) ==
  IF pattern >= X11 THEN DivideOut(pattern, X18) ELSE pattern

\* Mutant of encode: the check bytes stored in the opposite order.
encode_swapped(data) ==
  LET cksum == ENCODING_TABLE_2087[data[0]]
  IN  [data EXCEPT ![1] = cksum \div 256, ![2] = cksum % 256]

\* Golay2087::encode: data[0U] is the information word; the table's check
\* bits are written to data[1U] (low byte) and data[2U] (high byte).
encode(data) ==
  LET cksum == ENCODING_TABLE_2087[data[0]]
  IN  [data EXCEPT ![1] = cksum % 256, ![2] = cksum \div 256]

\* The 19-bit received vector decode() reads out of the three bytes.
ReceivedVector(data) ==
  data[0] * 2^11 + data[1] * 2^3 + data[2] \div 2^5

\* Mutant of decode: the error pattern added instead of exclusive-ored.
decode_addPattern(data) ==
  LET code          == ReceivedVector(data)
      error_pattern == DECODING_TABLE_1987[getSyndrome1987(code)]
  IN  ((code + error_pattern) % 2^19) \div 2^11

\* Golay2087::decode: correct the received vector by the table's error
\* pattern for its syndrome and return its top 8 bits.
decode(data) ==
  LET code          == ReceivedVector(data)
      error_pattern == DECODING_TABLE_1987[getSyndrome1987(code)]
      corrected     == IF error_pattern # 0 THEN code ^^ error_pattern ELSE code
  IN  corrected \div 2^11

=============================================================================
