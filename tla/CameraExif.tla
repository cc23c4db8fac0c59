------------------------------ MODULE CameraExif ------------------------------
(***************************************************************************)
(* What a picture says of itself: location, rotation, exposure and lens,   *)
(* in src/libcamera/SecCamera.cpp and setParameters() of                   *)
(* SecCameraHWInterface.cpp.                                               *)
(*                                                                         *)
(* The back camera's sensor writes the header.  It is told the location    *)
(* before every picture, one control after the other, and takes the        *)
(* picture at the last one.  The front camera's header is made by the HAL. *)
(* Both come from one SecCamera, which outlives a change of cameras.       *)
(* No call changes any of it while a picture is taken.                     *)
(***************************************************************************)
EXTENDS Integers

CONSTANTS
  Openings,    \* the cameras a client opens
  Latitudes,   \* degrees, in units of 10^-7
  Longitudes,
  Altitudes,   \* centimetres
  Stamps,      \* seconds
  Rotations    \* a negative one is a client's mistake

None == 2000000000    \* a key that is not given: no coordinate is as large
Unit == 10000000
HalfTurn == 1800000000

ASSUME PlacesOnEarth == Latitudes \cup Longitudes \subseteq -HalfTurn .. HalfTurn
ASSUME KeysInRange ==
  /\ Openings \subseteq {"back", "front"} /\ Altitudes \subseteq Int \ {None}
  /\ Stamps \subseteq Nat \ {None} /\ Rotations \subseteq -360 .. 360

VARIABLES
  gps,     \* SecCamera: m_camera_id, m_gps_*, m_exif_orientation and the focal length
  info,    \* gpsInfoLatitude, gpsInfoLongitude and gpsInfoAltitude, for the back camera
  keys,    \* the keys of mParameters
  sensor,  \* what the back camera's sensor has been told
  header   \* of a picture taken since the last call, or NoHeader

exifVars == << gps, info, keys, sensor, header >>

NoHeader == [id |-> "none"]
Abs(n) == IF n < 0 THEN -n ELSE n

\* Definitions named X_Slip are X with a plausible mistake; no action uses them.

\* Degrees, minutes and seconds of a coordinate.
Sexagesimal_Slip(c) ==
  LET r == (c % Unit) * 60
  IN  [below |-> c < 0, dgree |-> Abs(c) \div Unit, minute |-> r \div Unit,
       second |-> ((r % Unit) * 60) \div Unit]
Sexagesimal(c) ==
  LET r == (Abs(c) % Unit) * 60
  IN  [below |-> c < 0, dgree |-> Abs(c) \div Unit, minute |-> r \div Unit,
       second |-> ((r % Unit) * 60) \div Unit]
Nowhere == [below |-> FALSE, dgree |-> 0, minute |-> 0, second |-> 0]

-----------------------------------------------------------------------------
(* The setters, each called with its key or with none; g and i are gps and *)
(* info, which the back camera needs.                                      *)

OnBack(g, new, old) == IF g.id = "back" THEN new ELSE old

setGPSLatitude(g, c)  ==
  [g EXCEPT !.enabled = (c # None), !.latitude = IF c = None THEN @ ELSE c]
setGPSLongitude(g, c) ==
  [g EXCEPT !.enabled = (c # None), !.longitude = IF c = None THEN @ ELSE c]
setGPSAltitude(g, a)  == [g EXCEPT !.altitude = IF a = None THEN 0 ELSE a]
setGPSTimeStamp(g, s) == [g EXCEPT !.stamp = IF s = None THEN 0 ELSE s]
setExifOrientationInfo(g, r) == IF r < 0 THEN g ELSE [g EXCEPT !.orientation = r]

\* The latitude's is computed before the longitude decides what m_gps_enabled will be.
Infos(g, i, q) ==
  [latitude  |-> OnBack(g, IF q.latitude = None THEN Nowhere ELSE Sexagesimal(q.latitude), i.latitude),
   longitude |-> OnBack(g, IF q.longitude = None THEN Nowhere ELSE Sexagesimal(q.longitude), i.longitude),
   altitude  |-> LET a == setGPSAltitude(g, q.altitude).altitude
                 IN  OnBack(g, [plus |-> a >= 0, metres |-> Abs(a) \div 100, centimetres |-> Abs(a) % 100],
                               i.altitude)]

\* setParameters() passes every key on, the ones that are missing too.
Give(g, i, q) ==
  /\ gps' = setGPSTimeStamp(setGPSAltitude(setGPSLongitude(setGPSLatitude(
              setExifOrientationInfo(g, q.rotation), q.latitude), q.longitude), q.altitude), q.stamp)
  /\ info' = Infos(g, i, q)
  /\ keys' = [q EXCEPT !.rotation = IF @ < 0 THEN keys.rotation ELSE @]
  /\ header' = NoHeader /\ UNCHANGED sensor

\* getParameters(), with the place or the rest changed.
setKeys ==
  \/ \E a \in Latitudes \cup {None}, o \in Longitudes \cup {None}, h \in Altitudes \cup {None} :
       Give(gps, info, [keys EXCEPT !.latitude = a, !.longitude = o, !.altitude = h])
  \/ \E s \in Stamps \cup {None}, r \in Rotations :
       Give(gps, info, [keys EXCEPT !.stamp = s, !.rotation = r])

NoKeys == [latitude |-> None, longitude |-> None, altitude |-> None, stamp |-> None, rotation |-> 0]

\* The lens is the only one of setExifFixedAttribute() that differs between cameras.
setExifFixedAttribute_Slip(g, id) == [g EXCEPT !.id = id]
setExifFixedAttribute(g, id) == [g EXCEPT !.id = id, !.lens = IF id = "back" THEN 343 ELSE 90]

\* close(), and open() of the same or of another camera: initDefaultParameters() has no
\* location.
OpenCamera == \E id \in Openings : Give(setExifFixedAttribute(gps, id), info, NoKeys)

-----------------------------------------------------------------------------
(* A picture.                                                              *)

Orientation(degrees) == IF degrees \in {90, 180, 270} THEN degrees ELSE 0

\* setSnapshotCmd() returns at the first control that fails: then there is no picture.
Controls == << "latitude", "longitude", "altitude", "stamp", "orientation" >>
Told == [latitude |-> info.latitude, longitude |-> info.longitude, altitude |-> info.altitude,
         stamp |-> gps.stamp, orientation |-> Orientation(gps.orientation)]
tellLocation(n) ==
  /\ sensor' = [c \in DOMAIN sensor |-> IF \E i \in 1 .. n : Controls[i] = c THEN Told[c] ELSE sensor[c]]
  /\ header' = IF n = 5 THEN [id |-> "back", at |-> sensor'] ELSE NoHeader

TakeBack ==
  /\ gps.id = "back" /\ \E n \in 0 .. 5 : tellLocation(n)
  /\ UNCHANGED << gps, info, keys >>

\* What the sensor answers: shutter time in microseconds, or an error.
Shutters == {-1, 0, 10000, 2000000}
exposure(shutter) ==
  CASE shutter < 0 -> 1000000 \div 100
    [] shutter = 0 -> -1      \* a division by zero: no picture
    [] OTHER       -> 1000000 \div shutter

\* setExifChangedAttribute(), of which the location is one part.
GpsTags ==
  [located |-> gps.enabled, latitude |-> gps.latitude, longitude |-> gps.longitude,
   above |-> gps.altitude >= 0, altitude |-> Abs(gps.altitude),
   time |-> << (gps.stamp % 86400) \div 3600, (gps.stamp % 3600) \div 60, gps.stamp % 60 >>]
setExifChangedAttribute(shutter) ==
  [id |-> "front", lens |-> gps.lens, orientation |-> Orientation(gps.orientation),
   exposure |-> exposure(shutter), gps |-> GpsTags]

\* The thumbnail's encoder may refuse: then there is no picture.
getExif == {NoHeader} \cup {setExifChangedAttribute(shutter) : shutter \in Shutters}

TakeFront ==
  /\ gps.id = "front" /\ header' \in getExif
  /\ UNCHANGED << gps, info, keys, sensor >>

InitExif ==
  /\ \E id \in Openings :
       gps = setExifFixedAttribute(
               [id |-> id, enabled |-> FALSE, latitude |-> -1, longitude |-> -1, altitude |-> 0,
                stamp |-> 0, orientation |-> 0, lens |-> 0], id)
  /\ keys = NoKeys
  /\ info = [latitude |-> Nowhere, longitude |-> Nowhere,
             altitude |-> [plus |-> TRUE, metres |-> 0, centimetres |-> 0]]
  /\ sensor = [latitude |-> Nowhere, longitude |-> Nowhere, altitude |-> info.altitude,
               stamp |-> 0, orientation |-> 0]
  /\ header = NoHeader
NextExif == setKeys \/ OpenCamera \/ TakeBack \/ TakeFront
SpecExif == InitExif /\ [][NextExif]_exifVars
-----------------------------------------------------------------------------
Angles == [below : BOOLEAN, dgree : 0 .. 180, minute : 0 .. 59, second : 0 .. 59]
ExifTypeOK ==
  /\ gps.id \in Openings /\ gps.lens \in {90, 343} /\ gps.orientation \in 0 .. 360
  /\ {info.latitude, info.longitude, sensor.latitude, sensor.longitude} \subseteq Angles
  /\ sensor.orientation \in {0, 90, 180, 270}

\* x is c to the second below: a second is 25000 / 9 units.
Names(x, c) ==
  /\ x \in Angles /\ x.below = (c < 0)
  /\ LET rest == 9 * (Abs(c) - x.dgree * Unit) - 25000 * (60 * x.minute + x.second)
     IN  rest >= 0 /\ rest < 25000

\* A picture has the location that the client gave, to the second, and none if the
\* client gave none, whichever camera takes it, whatever was given or failed before.
LocationTrue ==
  LET both    == keys.latitude # None /\ keys.longitude # None
      neither == keys.latitude = None /\ keys.longitude = None
  IN  /\ header.id = "back" /\ both =>
           Names(header.at.latitude, keys.latitude) /\ Names(header.at.longitude, keys.longitude)
      /\ header.id = "back" /\ neither => {header.at.latitude, header.at.longitude} = {Nowhere}
      /\ header.id = "front" /\ both =>
           /\ header.gps.located
           /\ header.gps.latitude = keys.latitude /\ header.gps.longitude = keys.longitude
      /\ header.id = "front" /\ neither => ~ header.gps.located

\* Rotation, altitude, time and lens are those of this picture's camera and of the last
\* setParameters() that was right about them.
HeaderIsOwn ==
  /\ header.id = "back" =>
       /\ header.at.orientation = Orientation(keys.rotation)
       /\ keys.stamp # None => header.at.stamp = keys.stamp
       /\ LET h == header.at.altitude
              a == 100 * h.metres + h.centimetres
          IN  keys.altitude # None => keys.altitude = IF h.plus THEN a ELSE -a
  /\ header.id = "front" =>
       /\ header.orientation = Orientation(keys.rotation) /\ header.lens = 90
       /\ LET tags == header.gps
              time == 3600 * tags.time[1] + 60 * tags.time[2] + tags.time[3]
          IN  /\ keys.altitude # None => keys.altitude = IF tags.above THEN tags.altitude ELSE -tags.altitude
              /\ keys.stamp # None => time = keys.stamp % 86400

\* A picture's header is sound: its fields have their ranges and are its own.
HeaderSound == ExifTypeOK /\ HeaderIsOwn

\* Refuted.  A picture has both coordinates from its client or no location:
\* m_gps_enabled is what the longitude, set last, makes of it, and the latitude is then
\* one of an earlier client.
WholeLocation ==
  /\ header.id = "front" /\ header.gps.located => keys.latitude # None
  /\ header.id = "back" /\ keys.longitude = None => header.at.latitude = Nowhere

\* Refuted.  The exposure time of a picture is a number above zero: 1000000 /
\* shutterSpeed (SecCamera.cpp, line 3048) is 0 for more than a second and undefined
\* for none.
ExposureDefined == header.id = "front" => header.exposure > 0
=============================================================================
